------------------------- MODULE DatabaseStreamProofs -------------------------
(***************************************************************************)
(* Proofs about DatabaseStream, for any scenarios, keys and scalars: at    *)
(* most one event is applied after Stop, and the copy follows the node.    *)
(*                                                                         *)
(* The second rests on StreamInv.  At any time the copy is right for some  *)
(* value v that the node had, and each event on its way leads from one     *)
(* value to the next, from v to the present one; or the stream begins with *)
(* a put of the whole node, which makes any copy right; or it is closed.   *)
(* Right means: every child agrees with that of v, leaf by leaf, unless a  *)
(* write that HandlePut or HandlePatch gets wrong was made to that child.  *)
(* One event keeps that (EventKept): each handler sets or removes tokens   *)
(* in one child, where its path leads if the child agrees, and the         *)
(* database does the same to the value.                                    *)
(***************************************************************************)
EXTENDS DatabaseStream, SequenceTheorems, TLAPS

-----------------------------------------------------------------------------
(* Stop *)

\* Once an event was applied after Stop, the task is past that read for good: it
\* is at the test of its loop, which it will not pass, or it has ended.
LateInv ==
    /\ stopped \in BOOLEAN
    /\ late \in {0, 1}
    /\ late = 1 => stopped /\ phase \in {"top", "ended", "failed"}

LEMMA LateInit == Init => LateInv
<1> SUFFICES ASSUME Init PROVE LateInv
    OBVIOUS
<1>1. stopped = FALSE
    BY DEF Init
<1>2. late = 0
    BY DEF Init
<1>3. late \in {0, 1} /\ late # 1
    BY <1>2
<1>4. stopped \in BOOLEAN
    BY <1>1
<1> QED
    BY <1>3, <1>4 DEF LateInv

\* Every step keeps the invariant; only the two receiving steps count.
LEMMA LateStep == LateInv /\ [Next]_vars => LateInv'
<1> SUFFICES ASSUME LateInv, [Next]_vars PROVE LateInv'
    OBVIOUS
<1>1. CASE Connect
    BY <1>1 DEF LateInv, Connect
<1>2. CASE Refuse
    BY <1>2 DEF LateInv, Refuse
<1>3. CASE TestLoop
    BY <1>3 DEF LateInv, TestLoop
<1>4. CASE ReceivePut \/ ReceivePatch
    <2>1. phase = "reading" /\ phase' = "top" /\ stopped' = stopped
        BY <1>4 DEF ReceivePut, ReceivePatch, Reads
    <2>2. late' = late + (IF stopped THEN 1 ELSE 0)
        BY <1>4 DEF ReceivePut, ReceivePatch, Count
    <2>3. late = 0
        BY <2>1 DEF LateInv
    <2> QED
        BY <2>1, <2>2, <2>3 DEF LateInv
<1>5. CASE Die
    BY <1>5 DEF LateInv, Die
<1>6. CASE ReceiveKeepAlive \/ ReceiveAuthRevoked \/ ReceiveEnd
    BY <1>6 DEF LateInv, ReceiveKeepAlive, ReceiveAuthRevoked, ReceiveEnd, Reads
<1>7. CASE SpinUntilStopped \/ Stop
    BY <1>7 DEF LateInv, SpinUntilStopped, Stop
<1>8. ASSUME NEW w \in writes, Write(w) PROVE LateInv'
    BY <1>8 DEF LateInv, Write
<1>9. ASSUME NEW type \in Troubles, Trouble(type) PROVE LateInv'
    BY <1>9 DEF LateInv, Trouble
<1>10. CASE UNCHANGED vars
    BY <1>10 DEF LateInv, vars
<1> QED
    BY <1>1, <1>2, <1>3, <1>4, <1>5, <1>6, <1>7, <1>8, <1>9, <1>10 DEF Next, Task

\* Whatever is written, and however the stream behaves, the handler of a
\* subscription is called for at most one event after Stop
\* (ListenToServerEvents tests the token before every read).
THEOREM OneEventAfterStop == Spec => []AtMostOneLate
<1>1. LateInv => AtMostOneLate
    BY DEF LateInv, AtMostOneLate
<1> QED
    BY LateInit, LateStep, <1>1, PTL DEF Spec

-----------------------------------------------------------------------------
(* Paths *)

\* A prefix, position by position.
LEMMA PrefixIsPointwise ==
    ASSUME NEW S, NEW p \in Seq(S), NEW q \in Seq(S)
    PROVE  Prefix(p, q) <=> Len(p) <= Len(q) /\ \A i \in 1..Len(p) : q[i] = p[i]
<1>1. Len(p) \in Nat /\ Len(q) \in Nat
    BY LenProperties
<1>2. ASSUME Len(p) <= Len(q)
      PROVE  /\ SubSeq(q, 1, Len(p)) \in Seq(S) /\ Len(SubSeq(q, 1, Len(p))) = Len(p)
             /\ \A i \in 1..Len(p) : SubSeq(q, 1, Len(p))[i] = q[i]
    <2>1. \A i \in 1..Len(p) : q[i] \in S
        BY <1>1, <1>2, ElementOfSeq
    <2> QED
        BY <1>1, <2>1, SubSeqProperties
<1>3. ASSUME Len(p) <= Len(q), \A i \in 1..Len(p) : q[i] = p[i] PROVE SubSeq(q, 1, Len(p)) = p
    BY <1>2, <1>3, SeqEqual
<1> QED
    BY <1>2, <1>3 DEF Prefix

\* Being a prefix is an order.
LEMMA PrefixOrder ==
    ASSUME NEW S, NEW p \in Seq(S), NEW q \in Seq(S), NEW r \in Seq(S)
    PROVE  /\ Prefix(p, p)
           /\ Prefix(<<>>, p)
           /\ Prefix(p, q) /\ Prefix(q, r) => Prefix(p, r)
           /\ Prefix(p, q) /\ Prefix(q, p) => p = q
           /\ Prefix(p, r) /\ Prefix(q, r) => Prefix(p, q) \/ Prefix(q, p)
           /\ Prefix(p, <<>>) => p = <<>>
           /\ Prefix(p, q) /\ p # q => Len(p) < Len(q)
<1>1. /\ Len(p) \in Nat /\ Len(q) \in Nat /\ Len(r) \in Nat /\ <<>> \in Seq(S) /\ Len(<<>>) = 0
      /\ p # <<>> => Len(p) # 0
    BY LenProperties, EmptySeq
<1>2. Prefix(p, p) /\ Prefix(<<>>, p)
    <2>1. Prefix(p, p) <=> Len(p) <= Len(p) /\ \A i \in 1..Len(p) : p[i] = p[i]
        BY PrefixIsPointwise
    <2>2. Prefix(<<>>, p) <=> Len(<<>>) <= Len(p) /\ \A i \in 1..Len(<<>>) : p[i] = <<>>[i]
        BY <1>1, PrefixIsPointwise
    <2> QED
        BY <1>1, <2>1, <2>2
<1> DEFINE Same(x, y) == \A i \in 1..Len(x) : y[i] = x[i]
<1>0. /\ Prefix(p, q) <=> Len(p) <= Len(q) /\ Same(p, q)
      /\ Prefix(q, p) <=> Len(q) <= Len(p) /\ Same(q, p)
      /\ Prefix(p, r) <=> Len(p) <= Len(r) /\ Same(p, r)
      /\ Prefix(q, r) <=> Len(q) <= Len(r) /\ Same(q, r)
    BY PrefixIsPointwise
<1>3. Prefix(p, q) /\ Prefix(q, r) => Prefix(p, r)
    <2> SUFFICES ASSUME Prefix(p, q), Prefix(q, r) PROVE Prefix(p, r)
        OBVIOUS
    <2>1. \A i \in 1..Len(p) : i \in 1..Len(q)
        BY <1>0, <1>1
    <2> QED
        BY <1>0, <1>1, <2>1
<1>4. Prefix(p, q) /\ Len(p) = Len(q) => p = q
    BY <1>1, PrefixIsPointwise, SeqEqual
<1>5. Prefix(p, q) => Len(p) <= Len(q)
    BY DEF Prefix
<1>6. Prefix(q, p) => Len(q) <= Len(p)
    BY DEF Prefix
<1>7. Prefix(p, r) /\ Prefix(q, r) => Prefix(p, q) \/ Prefix(q, p)
    <2> SUFFICES ASSUME Prefix(p, r), Prefix(q, r) PROVE Prefix(p, q) \/ Prefix(q, p)
        OBVIOUS
    <2>1. CASE Len(p) <= Len(q)
        <3>1. \A i \in 1..Len(p) : i \in 1..Len(q)
            BY <1>1, <2>1
        <3> QED
            BY <1>0, <2>1, <3>1
    <2>2. CASE Len(q) <= Len(p)
        <3>1. \A i \in 1..Len(q) : i \in 1..Len(p)
            BY <1>1, <2>2
        <3> QED
            BY <1>0, <2>2, <3>1
    <2> QED
        BY <1>1, <2>1, <2>2
<1>8. Prefix(p, <<>>) => p = <<>>
    BY <1>1 DEF Prefix
<1>9. Prefix(p, q) /\ Prefix(q, p) => p = q
    BY <1>1, <1>4, <1>5, <1>6
<1>10. Prefix(p, q) /\ p # q => Len(p) < Len(q)
    BY <1>1, <1>4, <1>5
<1> QED
    BY <1>2, <1>3, <1>7, <1>8, <1>9, <1>10

\* A path extends the one it begins with.
LEMMA PrefixConcat ==
    ASSUME NEW S, NEW p \in Seq(S), NEW r \in Seq(S)
    PROVE  p \o r \in Seq(S) /\ Prefix(p, p \o r) /\ Below(p, p \o r) = r
<1>1. /\ p \o r \in Seq(S) /\ Len(p) \in Nat /\ Len(r) \in Nat /\ Len(p \o r) = Len(p) + Len(r)
      /\ \A i \in 1..Len(p) + Len(r) : (p \o r)[i] = IF i <= Len(p) THEN p[i] ELSE r[i - Len(p)]
    BY LenProperties, ConcatProperties
<1>2. Prefix(p, p \o r)
    <2>1. Prefix(p, p \o r) <=> Len(p) <= Len(p \o r) /\ \A i \in 1..Len(p) : (p \o r)[i] = p[i]
        BY <1>1, PrefixIsPointwise
    <2>2. \A i \in 1..Len(p) : (p \o r)[i] = p[i]
        BY <1>1
    <2> QED
        BY <1>1, <2>1, <2>2
<1>3. /\ Below(p, p \o r) \in Seq(S) /\ Len(Below(p, p \o r)) = Len(r)
      /\ \A i \in 1..Len(r) : Below(p, p \o r)[i] = (p \o r)[Len(p) + i]
    <2>1. \A i \in (Len(p) + 1)..(Len(p) + Len(r)) : (p \o r)[i] \in S
        BY <1>1, ElementOfSeq
    <2>2. Len(p) + 1 \in Int /\ Len(p) + Len(r) \in Int
        BY <1>1
    <2>3. /\ SubSeq(p \o r, Len(p) + 1, Len(p) + Len(r)) \in Seq(S)
          /\ Len(SubSeq(p \o r, Len(p) + 1, Len(p) + Len(r)))
                = IF Len(p) + 1 <= Len(p) + Len(r) THEN Len(p) + Len(r) - (Len(p) + 1) + 1 ELSE 0
          /\ \A i \in 1..(Len(p) + Len(r) - (Len(p) + 1) + 1) :
                SubSeq(p \o r, Len(p) + 1, Len(p) + Len(r))[i] = (p \o r)[Len(p) + 1 + i - 1]
        BY <2>1, <2>2, SubSeqProperties
    <2> QED
        BY <1>1, <2>3 DEF Below
<1>4. \A i \in 1..Len(r) : Below(p, p \o r)[i] = r[i]
    BY <1>1, <1>3
<1> QED
    BY <1>1, <1>2, <1>3, <1>4, SeqEqual

\* A path is its prefix and what is below it.
LEMMA PrefixSplit ==
    ASSUME NEW S, NEW p \in Seq(S), NEW q \in Seq(S), Prefix(p, q)
    PROVE  /\ Below(p, q) \in Seq(S) /\ q = p \o Below(p, q)
           /\ Below(p, q) = <<>> => q = p
<1> DEFINE b == Below(p, q)
<1>1. /\ Len(p) \in Nat /\ Len(q) \in Nat /\ Len(p) <= Len(q)
      /\ \A i \in 1..Len(p) : q[i] = p[i]
    BY LenProperties, PrefixIsPointwise
<1>2. /\ b \in Seq(S) /\ Len(b) = Len(q) - Len(p)
      /\ \A i \in 1..(Len(q) - Len(p)) : b[i] = q[Len(p) + i]
    <2>1. \A i \in (Len(p) + 1)..Len(q) : q[i] \in S
        BY <1>1, ElementOfSeq
    <2>2. Len(p) + 1 \in Int /\ Len(q) \in Int
        BY <1>1
    <2>3. /\ SubSeq(q, Len(p) + 1, Len(q)) \in Seq(S)
          /\ Len(SubSeq(q, Len(p) + 1, Len(q))) = IF Len(p) + 1 <= Len(q) THEN Len(q) - (Len(p) + 1) + 1 ELSE 0
          /\ \A i \in 1..(Len(q) - (Len(p) + 1) + 1) : SubSeq(q, Len(p) + 1, Len(q))[i] = q[Len(p) + 1 + i - 1]
        BY <2>1, <2>2, SubSeqProperties
    <2> QED
        BY <1>1, <2>3 DEF Below
<1> HIDE DEF b
<1>3. /\ p \o b \in Seq(S) /\ Len(p \o b) = Len(q)
      /\ \A i \in 1..Len(q) : (p \o b)[i] = IF i <= Len(p) THEN p[i] ELSE b[i - Len(p)]
    BY <1>1, <1>2, ConcatProperties
<1>4. \A i \in 1..Len(q) : (p \o b)[i] = q[i]
    BY <1>1, <1>2, <1>3
<1>5. q = p \o b
    BY <1>3, <1>4, SeqEqual
<1>6. b = <<>> => q = p
    BY <1>5, ConcatEmptySeq
<1> QED
    BY <1>2, <1>5, <1>6 DEF b

\* Paths of which one is a prefix of the other begin with the same key.
LEMMA PrefixFirst ==
    ASSUME NEW S, NEW p \in Seq(S), NEW q \in Seq(S), p # <<>>, Prefix(p, q)
    PROVE  q # <<>> /\ q[1] = p[1] /\ p[1] \in S
<1>1. /\ Len(p) \in Nat \ {0} /\ Len(q) \in Nat /\ Len(p) <= Len(q)
      /\ \A i \in 1..Len(p) : q[i] = p[i]
    BY LenProperties, EmptySeq, PrefixIsPointwise
<1>2. 1 \in 1..Len(p)
    BY <1>1
<1>3. p[1] \in S
    BY <1>2, ElementOfSeq
<1>4. Len(q) # 0
    BY <1>1
<1> QED
    BY <1>1, <1>2, <1>3, <1>4, EmptySeq

\* The paths under a key are those that begin with it.
LEMMA PrefixOfOne ==
    ASSUME NEW S, NEW k \in S, NEW q \in Seq(S), q # <<>>
    PROVE  Prefix(<<k>>, q) <=> q[1] = k
<1>1. <<k>> \in Seq(S) /\ Len(<<k>>) = 1 /\ <<k>>[1] = k /\ Len(q) \in Nat \ {0}
    BY LenProperties, EmptySeq
<1>2. Prefix(<<k>>, q) <=> Len(<<k>>) <= Len(q) /\ \A i \in 1..Len(<<k>>) : q[i] = <<k>>[i]
    BY <1>1, PrefixIsPointwise
<1>3. 1..Len(<<k>>) = {1}
    BY <1>1
<1>4. 1 <= Len(q)
    BY <1>1
<1> QED
    BY <1>1, <1>2, <1>3, <1>4

\* Names are sequences of keys; the paths of the client are sequences of names.
Names0 == Seq(Keys)
Paths == Seq(Names0)

\* A path as the client navigates it: as long, a name of one key for each key.
LEMMA StepsPath ==
    ASSUME NEW p \in Seq(Keys)
    PROVE  /\ Steps(p) \in Paths /\ Len(Steps(p)) = Len(p)
           /\ \A i \in 1..Len(p) : Steps(p)[i] = <<p[i]>> /\ p[i] \in Keys
           /\ Steps(p) = <<>> <=> p = <<>>
<1>1. Len(p) \in Nat /\ \A i \in 1..Len(p) : p[i] \in Keys
    BY LenProperties, ElementOfSeq
<1>2. Steps(p) \in [1..Len(p) -> Names0]
    BY <1>1 DEF Steps, Names0
<1>3. Steps(p) \in Paths
    BY <1>1, <1>2, SeqDef DEF Paths
<1>4. Len(Steps(p)) = Len(p)
    <2>1. Len(Steps(p)) \in Nat /\ DOMAIN Steps(p) = 1..Len(Steps(p)) /\ DOMAIN Steps(p) = 1..Len(p)
        BY <1>2, <1>3, LenProperties DEF Paths
    <2>2. \A m, n \in Nat : 1..m = 1..n => m = n
        <3> SUFFICES ASSUME NEW m \in Nat, NEW n \in Nat, 1..m = 1..n PROVE m = n
            OBVIOUS
        <3>1. (m \in 1..m <=> m \in 1..n) /\ (n \in 1..m <=> n \in 1..n)
            OBVIOUS
        <3>2. (m + 1 \in 1..m <=> m + 1 \in 1..n) /\ (n + 1 \in 1..m <=> n + 1 \in 1..n)
            OBVIOUS
        <3> QED
            BY <3>1, <3>2
    <2> QED
        BY <1>1, <2>1, <2>2
<1>5. \A i \in 1..Len(p) : Steps(p)[i] = <<p[i]>>
    BY DEF Steps
<1>6. Steps(p) = <<>> <=> p = <<>>
    <2>1. /\ Steps(p) = <<>> <=> Len(Steps(p)) = 0
          /\ p = <<>> <=> Len(p) = 0
        BY <1>3, EmptySeq DEF Paths
    <2> QED
        BY <1>4, <2>1
<1> QED
    BY <1>1, <1>3, <1>4, <1>5, <1>6

\* Prefixes stay prefixes.
LEMMA StepsPrefix ==
    ASSUME NEW p \in Seq(Keys), NEW q \in Seq(Keys)
    PROVE  /\ Prefix(Steps(p), Steps(q)) <=> Prefix(p, q)
           /\ Steps(p) = Steps(q) => p = q
<1>1. /\ Len(p) \in Nat /\ Len(q) \in Nat
      /\ Steps(p) \in Seq(Names0) /\ Len(Steps(p)) = Len(p) /\ \A i \in 1..Len(p) : Steps(p)[i] = <<p[i]>>
      /\ Steps(q) \in Seq(Names0) /\ Len(Steps(q)) = Len(q) /\ \A i \in 1..Len(q) : Steps(q)[i] = <<q[i]>>
    BY LenProperties, StepsPath DEF Paths
<1>2. \A x, y : <<x>> = <<y>> => x = y
    OBVIOUS
<1>3. /\ Prefix(p, q) <=> Len(p) <= Len(q) /\ \A i \in 1..Len(p) : q[i] = p[i]
      /\ Prefix(Steps(p), Steps(q))
            <=> Len(Steps(p)) <= Len(Steps(q)) /\ \A i \in 1..Len(Steps(p)) : Steps(q)[i] = Steps(p)[i]
    BY <1>1, PrefixIsPointwise
<1>4. ASSUME Len(p) <= Len(q)
      PROVE  \A i \in 1..Len(p) : Steps(q)[i] = Steps(p)[i] <=> q[i] = p[i]
    <2>1. \A i \in 1..Len(p) : i \in 1..Len(q)
        BY <1>1, <1>4
    <2> QED
        BY <1>1, <1>2, <2>1
<1>5. Prefix(Steps(p), Steps(q)) <=> Prefix(p, q)
    BY <1>1, <1>3, <1>4
<1>6. Steps(p) = Steps(q) => p = q
    <2> SUFFICES ASSUME Steps(p) = Steps(q) PROVE p = q
        OBVIOUS
    <2>1. Len(p) = Len(q)
        BY <1>1
    <2>2. \A i \in 1..Len(p) : p[i] = q[i]
        BY <1>1, <1>2, <2>1
    <2> QED
        BY <2>1, <2>2, SeqEqual
<1> QED
    BY <1>5, <1>6

\* The prefixes of a navigated path are navigated paths.
LEMMA PrefixOfSteps ==
    ASSUME NEW t \in Paths, NEW q \in Seq(Keys), Prefix(t, Steps(q))
    PROVE  \E p \in Seq(Keys) : Prefix(p, q) /\ t = Steps(p)
<1> DEFINE p == SubSeq(q, 1, Len(t))
<1>1. /\ Len(q) \in Nat /\ Len(t) \in Nat
      /\ Steps(q) \in Seq(Names0) /\ Len(Steps(q)) = Len(q) /\ \A i \in 1..Len(q) : Steps(q)[i] = <<q[i]>>
    BY LenProperties, StepsPath DEF Paths
<1>2. Len(t) <= Len(q) /\ \A i \in 1..Len(t) : Steps(q)[i] = t[i]
    BY <1>1, PrefixIsPointwise DEF Paths
<1>3. p \in Seq(Keys) /\ Len(p) = Len(t) /\ \A i \in 1..Len(t) : p[i] = q[i]
    <2>1. \A i \in 1..Len(t) : i \in 1..Len(q) /\ q[i] \in Keys
        BY <1>1, <1>2, ElementOfSeq
    <2> QED
        BY <1>1, <2>1, SubSeqProperties
<1> HIDE DEF p
<1>4. Prefix(p, q)
    <2>1. Prefix(p, q) <=> Len(p) <= Len(q) /\ \A i \in 1..Len(p) : q[i] = p[i]
        BY <1>3, PrefixIsPointwise
    <2> QED
        BY <1>2, <1>3, <2>1
<1>5. t = Steps(p)
    <2>1. Steps(p) \in Seq(Names0) /\ Len(Steps(p)) = Len(t) /\ \A i \in 1..Len(t) : Steps(p)[i] = <<p[i]>>
        BY <1>3, StepsPath DEF Paths
    <2>2. \A i \in 1..Len(t) : Steps(p)[i] = t[i]
        <3>1. \A i \in 1..Len(t) : i \in 1..Len(q)
            BY <1>1, <1>2
        <3> QED
            BY <1>1, <1>2, <1>3, <2>1, <3>1
    <2> QED
        BY <2>1, <2>2, SeqEqual DEF Paths
<1> QED
    BY <1>3, <1>4, <1>5

\* A path is navigated part by part.
LEMMA StepsConcat ==
    ASSUME NEW p \in Seq(Keys), NEW r \in Seq(Keys)
    PROVE  Steps(p \o r) = Steps(p) \o Steps(r)
<1>1. /\ p \o r \in Seq(Keys) /\ Len(p) \in Nat /\ Len(r) \in Nat /\ Len(p \o r) = Len(p) + Len(r)
      /\ \A i \in 1..Len(p) + Len(r) : (p \o r)[i] = IF i <= Len(p) THEN p[i] ELSE r[i - Len(p)]
    BY LenProperties, ConcatProperties
<1>2. /\ Steps(p) \in Seq(Names0) /\ Len(Steps(p)) = Len(p) /\ \A i \in 1..Len(p) : Steps(p)[i] = <<p[i]>>
      /\ Steps(r) \in Seq(Names0) /\ Len(Steps(r)) = Len(r) /\ \A i \in 1..Len(r) : Steps(r)[i] = <<r[i]>>
    BY StepsPath DEF Paths
<1>3. /\ Steps(p \o r) \in Seq(Names0) /\ Len(Steps(p \o r)) = Len(p) + Len(r)
      /\ \A i \in 1..Len(p) + Len(r) : Steps(p \o r)[i] = <<(p \o r)[i]>>
    BY <1>1, StepsPath DEF Paths
<1>4. /\ Steps(p) \o Steps(r) \in Seq(Names0) /\ Len(Steps(p) \o Steps(r)) = Len(p) + Len(r)
      /\ \A i \in 1..Len(p) + Len(r) :
            (Steps(p) \o Steps(r))[i] = IF i <= Len(p) THEN Steps(p)[i] ELSE Steps(r)[i - Len(p)]
    <2> DEFINE a == Steps(p)
               b == Steps(r)
    <2>1. a \in Seq(Names0) /\ b \in Seq(Names0) /\ Len(a) = Len(p) /\ Len(b) = Len(r)
        BY <1>2
    <2> HIDE DEF a, b
    <2>2. /\ a \o b \in Seq(Names0) /\ Len(a \o b) = Len(a) + Len(b)
          /\ \A i \in 1..Len(a) + Len(b) : (a \o b)[i] = IF i <= Len(a) THEN a[i] ELSE b[i - Len(a)]
        BY <2>1, ConcatProperties
    <2> QED
        BY <2>1, <2>2 DEF a, b
<1>5. ASSUME NEW i \in 1..Len(p) + Len(r) PROVE Steps(p \o r)[i] = (Steps(p) \o Steps(r))[i]
    <2>1. CASE i <= Len(p)
        <3>1. i \in 1..Len(p)
            BY <1>1, <2>1
        <3> QED
            BY <1>1, <1>2, <1>3, <1>4, <2>1, <3>1
    <2>2. CASE ~(i <= Len(p))
        <3>1. i - Len(p) \in 1..Len(r)
            BY <1>1, <2>2
        <3> QED
            BY <1>1, <1>2, <1>3, <1>4, <2>2, <3>1
    <2> QED
        BY <2>1, <2>2
<1> QED
    BY <1>3, <1>4, <1>5, SeqEqual

\* The name of a child.
LEMMA StepsOfOne ==
    ASSUME NEW k \in Keys
    PROVE  /\ <<k>> \in Seq(Keys) /\ <<k>> # <<>> /\ Steps(<<k>>) = <<<<k>>>>
           /\ \A p \in Seq(Keys) : Len(p) = 1 => p = <<p[1]>> /\ Steps(p) = Joined(p)
<1>1. \A p \in Seq(Keys) : Len(p) = 1 => p = <<p[1]>> /\ Steps(p) = <<p>>
    <2> SUFFICES ASSUME NEW p \in Seq(Keys), Len(p) = 1 PROVE p = <<p[1]>> /\ Steps(p) = <<p>>
        OBVIOUS
    <2>1. p[1] \in Keys
        BY ElementOfSeq
    <2>2. <<p[1]>> \in Seq(Keys) /\ Len(<<p[1]>>) = 1 /\ <<p[1]>>[1] = p[1]
        BY <2>1
    <2>3. p = <<p[1]>>
        BY <2>2, SeqEqual
    <2>4. Steps(p) \in Seq(Names0) /\ Len(Steps(p)) = 1 /\ Steps(p)[1] = <<p[1]>>
        BY StepsPath DEF Paths
    <2>5. <<p>> \in Seq(Names0) /\ Len(<<p>>) = 1 /\ <<p>>[1] = p
        BY DEF Names0
    <2>6. Steps(p) = <<p>>
        BY <2>3, <2>4, <2>5, SeqEqual
    <2> QED
        BY <2>3, <2>6
<1>2. <<k>> \in Seq(Keys) /\ Len(<<k>>) = 1 /\ <<k>> # <<>>
    OBVIOUS
<1> QED
    BY <1>1, <1>2 DEF Joined

-----------------------------------------------------------------------------
(* Values and trees *)

\* What the client holds: paths down to tokens, which are objects where something is below.
Branch(t) ==
    /\ t = [p \in DOMAIN t |-> t[p]] /\ DOMAIN t \subseteq Paths /\ <<>> \in DOMAIN t
    /\ \A p \in DOMAIN t : \A q \in Paths : Prefix(q, p) /\ q # p => q \in DOMAIN t /\ t[q] = Obj

\* The copy of a node; no child has the empty name.
Tree(t) ==
    /\ Branch(t) /\ t[<<>>] = Obj
    /\ \A p \in DOMAIN t : p # <<>> => p[1] # <<>>

\* The paths to and above leaves.
Above(v, q) == \E l \in DOMAIN v : Prefix(q, l)

\* The tokens of a value's text are where its leaves are and above them.
LEMMA JsonTokens ==
    ASSUME NEW v, IsValue(v), DOMAIN v # {}
    PROVE  /\ Json(v) = [p \in DOMAIN Json(v) |-> Json(v)[p]]
           /\ DOMAIN Json(v) = {Steps(q) : q \in {q \in Seq(Keys) : Above(v, q)}}
           /\ \A q \in Seq(Keys) : Above(v, q) => Json(v)[Steps(q)] = IF q \in DOMAIN v THEN v[q] ELSE Obj
<1> DEFINE tokens == UNION {{SubSeq(q, 1, n) : n \in 0..Len(q)} : q \in DOMAIN v}
           at(p) == CHOOSE q \in tokens : Steps(q) = p
<1>1. Json(v) = [p \in {Steps(q) : q \in tokens} |-> IF at(p) \in DOMAIN v THEN v[at(p)] ELSE Obj]
    BY DEF Json
<1>2. tokens = {q \in Seq(Keys) : Above(v, q)}
    <2>1. ASSUME NEW q \in tokens PROVE q \in Seq(Keys) /\ Above(v, q)
        <3>0. PICK l \in DOMAIN v : \E n \in 0..Len(l) : q = SubSeq(l, 1, n)
            OBVIOUS
        <3>1. PICK n \in 0..Len(l) : q = SubSeq(l, 1, n)
            BY <3>0
        <3>2. l \in Seq(Keys) /\ Len(l) \in Nat
            BY LenProperties DEF IsValue
        <3>3. \A i \in 1..n : i \in 1..Len(l) /\ l[i] \in Keys
            BY <3>2, ElementOfSeq
        <3>4. q \in Seq(Keys) /\ Len(q) = n
            BY <3>1, <3>2, <3>3, SubSeqProperties
        <3> QED
            BY <3>1, <3>2, <3>4 DEF Above, Prefix
    <2>2. ASSUME NEW q \in Seq(Keys), Above(v, q) PROVE q \in tokens
        <3>1. PICK l \in DOMAIN v : Prefix(q, l)
            BY <2>2 DEF Above
        <3>2. q = SubSeq(l, 1, Len(q)) /\ Len(q) \in 0..Len(l)
            BY <3>1, LenProperties DEF Prefix, IsValue
        <3>3. q \in {SubSeq(l, 1, n) : n \in 0..Len(l)}
            BY <3>2
        <3> QED
            BY <3>3
    <2> HIDE DEF tokens
    <2> QED
        BY <2>1, <2>2
<1> HIDE DEF tokens
<1>3. ASSUME NEW q \in Seq(Keys), Above(v, q) PROVE at(Steps(q)) = q
    <2>1. q \in tokens
        BY <1>2, <1>3
    <2>2. at(Steps(q)) \in tokens /\ Steps(at(Steps(q))) = Steps(q)
        BY <2>1
    <2> QED
        BY <1>2, <2>2, StepsPrefix
<1>4. DOMAIN Json(v) = {Steps(q) : q \in {q \in Seq(Keys) : Above(v, q)}}
    BY <1>1, <1>2
<1>5. ASSUME NEW q \in Seq(Keys), Above(v, q) PROVE Json(v)[Steps(q)] = IF q \in DOMAIN v THEN v[q] ELSE Obj
    <2>1. Steps(q) \in {Steps(r) : r \in tokens}
        BY <1>2, <1>5
    <2>2. Json(v)[Steps(q)] = IF at(Steps(q)) \in DOMAIN v THEN v[at(Steps(q))] ELSE Obj
        BY <1>1, <2>1
    <2> QED
        BY <1>3, <1>5, <2>2
<1> QED
    BY <1>1, <1>4, <1>5

\* The text of the null value.
LEMMA NullJson ==
    ASSUME NEW v, DOMAIN v = {}
    PROVE  Json(v) = [p \in {<<>>} |-> Null]
BY DEF Json

\* The tokens of a value's text: its leaves, and objects above them.
LEMMA JsonLeaves ==
    ASSUME NEW v, IsValue(v), DOMAIN v # {}
    PROVE  /\ \A q \in DOMAIN v : Steps(q) \in DOMAIN Json(v) /\ Json(v)[Steps(q)] = v[q]
           /\ \A p \in DOMAIN Json(v) : \E l \in DOMAIN v : Prefix(p, Steps(l))
           /\ \A p \in DOMAIN Json(v) : Json(v)[p] # Obj => \E q \in DOMAIN v : p = Steps(q)
<1>0. /\ DOMAIN Json(v) = {Steps(q) : q \in {q \in Seq(Keys) : Above(v, q)}}
      /\ \A q \in Seq(Keys) : Above(v, q) => Json(v)[Steps(q)] = IF q \in DOMAIN v THEN v[q] ELSE Obj
    BY JsonTokens
<1>1. \A q \in DOMAIN v : q \in Seq(Keys) /\ Above(v, q)
    BY PrefixOrder DEF IsValue, Above
<1>2. \A q \in DOMAIN v : Steps(q) \in DOMAIN Json(v) /\ Json(v)[Steps(q)] = v[q]
    BY <1>0, <1>1
<1>3. ASSUME NEW p \in DOMAIN Json(v)
      PROVE  /\ \E l \in DOMAIN v : Prefix(p, Steps(l))
             /\ Json(v)[p] # Obj => \E q \in DOMAIN v : p = Steps(q)
    <2>1. PICK q \in Seq(Keys) : Above(v, q) /\ p = Steps(q)
        BY <1>0
    <2>2. PICK l \in DOMAIN v : Prefix(q, l)
        BY <2>1 DEF Above
    <2>3. Prefix(p, Steps(l))
        BY <1>1, <2>1, <2>2, StepsPrefix
    <2>4. Json(v)[p] = IF q \in DOMAIN v THEN v[q] ELSE Obj
        BY <1>0, <2>1
    <2> QED
        BY <2>1, <2>3, <2>4
<1> QED
    BY <1>2, <1>3

\* A value's text is a token tree.
LEMMA JsonBranch ==
    ASSUME NEW v, IsValue(v)
    PROVE  /\ Branch(Json(v))
           /\ Json(v)[<<>>] = Obj <=> DOMAIN v # {} /\ <<>> \notin DOMAIN v
           /\ \A p \in DOMAIN Json(v) : p # <<>> => p[1] # <<>>
<1>1. CASE DOMAIN v = {}
    <2>1. Json(v) = [p \in {<<>>} |-> Null]
        BY <1>1, NullJson
    <2>2. <<>> \in Paths /\ \A q \in Paths : Prefix(q, <<>>) => q = <<>>
        BY EmptySeq, PrefixOrder DEF Paths
    <2>3. Null # Obj
        BY TokensDiffer
    <2> QED
        BY <1>1, <2>1, <2>2, <2>3 DEF Branch
<1>2. CASE DOMAIN v # {}
    <2> DEFINE t == Json(v)
    <2>1. /\ t = [p \in DOMAIN t |-> t[p]]
          /\ DOMAIN t = {Steps(q) : q \in {q \in Seq(Keys) : Above(v, q)}}
          /\ \A q \in Seq(Keys) : Above(v, q) => t[Steps(q)] = IF q \in DOMAIN v THEN v[q] ELSE Obj
        BY <1>2, JsonTokens
    <2> HIDE DEF t
    <2>2. DOMAIN t \subseteq Paths
        BY <2>1, StepsPath
    <2>3. DOMAIN v \subseteq Seq(Keys)
        BY DEF IsValue
    <2>4. Above(v, <<>>) /\ <<>> \in Seq(Keys) /\ Steps(<<>>) = <<>>
        BY <1>2, <2>3, PrefixOrder, EmptySeq, StepsPath DEF Above
    <2>5. <<>> \in DOMAIN t /\ t[<<>>] = IF <<>> \in DOMAIN v THEN v[<<>>] ELSE Obj
        BY <2>1, <2>4
    <2>6. ASSUME NEW p \in DOMAIN t, NEW q \in Paths, Prefix(q, p), q # p PROVE q \in DOMAIN t /\ t[q] = Obj
        <3>1. PICK x \in Seq(Keys) : Above(v, x) /\ p = Steps(x)
            BY <2>1
        <3>2. PICK y \in Seq(Keys) : Prefix(y, x) /\ q = Steps(y)
            BY <2>6, <3>1, PrefixOfSteps
        <3>3. PICK l \in DOMAIN v : Prefix(x, l)
            BY <3>1 DEF Above
        <3>4. Prefix(y, l) /\ l \in Seq(Keys)
            BY <2>3, <3>2, <3>3, PrefixOrder
        <3>5. y \notin DOMAIN v
            <4>1. SUFFICES ASSUME y \in DOMAIN v PROVE FALSE
                OBVIOUS
            <4>2. y = l
                BY <3>4, <4>1 DEF IsValue
            <4>3. y = x
                BY <3>2, <3>3, <4>2, PrefixOrder
            <4> QED
                BY <2>6, <3>1, <3>2, <4>3
        <3>6. Above(v, y)
            BY <3>4 DEF Above
        <3> QED
            BY <2>1, <3>2, <3>5, <3>6
    <2>7. ASSUME NEW p \in DOMAIN t, p # <<>> PROVE p[1] # <<>>
        <3>1. PICK x \in Seq(Keys) : p = Steps(x)
            BY <2>1
        <3>2. x # <<>>
            BY <2>7, <3>1, StepsPath
        <3>3. 1 \in 1..Len(x)
            BY <3>2, EmptySeq, LenProperties
        <3>4. p[1] = <<x[1]>>
            BY <3>1, <3>3, StepsPath
        <3> QED
            BY <3>4
    <2>8. <<>> \in DOMAIN v => v[<<>>] # Obj
        BY TokensDiffer DEF IsValue
    <2>9. Branch(t)
        BY <2>1, <2>2, <2>5, <2>6 DEF Branch
    <2> QED
        BY <1>2, <2>5, <2>7, <2>8, <2>9 DEF t
<1> QED
    BY <1>1, <1>2

\* So is the empty object.
LEMMA EmptyTree == Tree(EmptyObject)
<1>1. <<>> \in Paths /\ \A q \in Paths : Prefix(q, <<>>) => q = <<>>
    BY EmptySeq, PrefixOrder DEF Paths
<1> QED
    BY <1>1 DEF Tree, Branch, EmptyObject

-----------------------------------------------------------------------------
(* What the client does to a tree *)

\* Something may be put at p: what is above it are objects.
Room(t, p) == \A q \in Paths : Prefix(q, p) /\ q # p => q \in DOMAIN t /\ t[q] = Obj

\* What is below a prefix of a path.
LEMMA PrefixBelow ==
    ASSUME NEW S, NEW p \in Seq(S), NEW q \in Seq(S), NEW r \in Seq(S), Prefix(p, q), Prefix(q, r)
    PROVE  Prefix(Below(p, q), Below(p, r))
<1> DEFINE a == Below(p, q)
           b == Below(q, r)
<1>1. a \in Seq(S) /\ q = p \o a /\ b \in Seq(S) /\ r = q \o b
    BY PrefixSplit
<1> HIDE DEF a, b
<1>2. r = p \o (a \o b) /\ a \o b \in Seq(S)
    <2>1. (p \o a) \o b = p \o (a \o b)
        BY <1>1, ConcatAssociative
    <2>2. a \o b \in Seq(S)
        BY <1>1, ConcatProperties
    <2> QED
        BY <1>1, <2>1, <2>2
<1>3. Below(p, r) = a \o b
    BY <1>2, PrefixConcat
<1>4. Prefix(a, a \o b)
    BY <1>1, PrefixConcat
<1> QED
    BY <1>3, <1>4 DEF a

\* The tokens after one was set.
LEMMA AssignedTokens ==
    ASSUME NEW t, NEW s, NEW p \in Paths, DOMAIN t \subseteq Paths, DOMAIN s \subseteq Paths
    PROVE  LET r == Assigned(t, p, s) IN
           /\ r = [x \in DOMAIN r |-> r[x]] /\ DOMAIN r \subseteq Paths
           /\ \A x \in Paths : x \in DOMAIN r <=> IF Prefix(p, x) THEN Below(p, x) \in DOMAIN s ELSE x \in DOMAIN t
           /\ \A x \in DOMAIN r : r[x] = IF Prefix(p, x) THEN s[Below(p, x)] ELSE t[x]
<1> DEFINE r == Assigned(t, p, s)
           kept == {q \in DOMAIN t : ~Prefix(p, q)}
           new == {p \o x : x \in DOMAIN s}
<1>1. r = [q \in kept \cup new |-> IF q \in kept THEN t[q] ELSE s[Below(p, q)]]
    BY DEF Assigned
<1>2. \A x \in new : x \in Paths /\ Prefix(p, x) /\ Below(p, x) \in DOMAIN s
    BY PrefixConcat DEF Paths
<1>3. ASSUME NEW x \in Paths, Prefix(p, x), Below(p, x) \in DOMAIN s PROVE x \in new
    <2>1. x = p \o Below(p, x)
        BY <1>3, PrefixSplit DEF Paths
    <2> QED
        BY <1>3, <2>1
<1>4. \A x \in kept : x \in Paths /\ ~Prefix(p, x) /\ x \in DOMAIN t
    OBVIOUS
<1>5. \A x \in Paths : x \in DOMAIN t /\ ~Prefix(p, x) => x \in kept
    OBVIOUS
<1> HIDE DEF r, kept, new
<1>6. DOMAIN r = kept \cup new
    BY <1>1
<1>7. \A x \in DOMAIN r : r[x] = IF Prefix(p, x) THEN s[Below(p, x)] ELSE t[x]
    BY <1>1, <1>2, <1>4
<1>8. \A x \in Paths : x \in DOMAIN r <=> IF Prefix(p, x) THEN Below(p, x) \in DOMAIN s ELSE x \in DOMAIN t
    BY <1>2, <1>3, <1>4, <1>5, <1>6
<1>9. r = [x \in DOMAIN r |-> r[x]] /\ DOMAIN r \subseteq Paths
    BY <1>1, <1>2, <1>4, <1>6
<1> QED
    BY <1>7, <1>8, <1>9 DEF r

\* Setting a token under an object leaves a tree.
LEMMA AssignedTree ==
    ASSUME NEW t, Tree(t), NEW s, Branch(s), NEW p \in Paths, p # <<>>, p[1] # <<>>, Room(t, p)
    PROVE  Tree(Assigned(t, p, s))
<1> DEFINE r == Assigned(t, p, s)
<1>1. DOMAIN t \subseteq Paths /\ DOMAIN s \subseteq Paths /\ <<>> \in DOMAIN t /\ t[<<>>] = Obj
    BY DEF Tree, Branch
<1>2. /\ r = [x \in DOMAIN r |-> r[x]] /\ DOMAIN r \subseteq Paths
      /\ \A x \in Paths : x \in DOMAIN r <=> IF Prefix(p, x) THEN Below(p, x) \in DOMAIN s ELSE x \in DOMAIN t
      /\ \A x \in DOMAIN r : r[x] = IF Prefix(p, x) THEN s[Below(p, x)] ELSE t[x]
    BY <1>1, AssignedTokens
<1> HIDE DEF r
<1>3. <<>> \in Paths /\ ~Prefix(p, <<>>)
    BY EmptySeq, PrefixOrder DEF Paths
<1>4. <<>> \in DOMAIN r /\ r[<<>>] = Obj
    BY <1>1, <1>2, <1>3
<1>5. ASSUME NEW x \in DOMAIN r, NEW y \in Paths, Prefix(y, x), y # x PROVE y \in DOMAIN r /\ r[y] = Obj
    <2>1. x \in Paths
        BY <1>2
    <2>2. CASE Prefix(p, y)
        <3>1. Prefix(p, x)
            BY <1>5, <2>1, <2>2, PrefixOrder DEF Paths
        <3>2. Below(p, x) \in DOMAIN s /\ Below(p, y) \in Paths /\ y = p \o Below(p, y) /\ x = p \o Below(p, x)
            BY <1>2, <2>1, <2>2, <3>1, PrefixSplit DEF Paths
        <3>3. Prefix(Below(p, y), Below(p, x)) /\ Below(p, y) # Below(p, x)
            <4>1. Below(p, y) # Below(p, x)
                BY <1>5, <3>2
            <4> QED
                BY <1>5, <2>1, <2>2, <4>1, PrefixBelow DEF Paths
        <3>4. Below(p, y) \in DOMAIN s /\ s[Below(p, y)] = Obj
            BY <3>2, <3>3 DEF Branch
        <3> QED
            BY <1>2, <2>2, <3>4
    <2>3. CASE ~Prefix(p, y)
        <3>1. y \in DOMAIN t /\ t[y] = Obj
            <4>1. CASE Prefix(p, x)
                <5>1. Prefix(y, p) /\ y # p
                    BY <1>5, <2>1, <2>3, <4>1, PrefixOrder DEF Paths
                <5> QED
                    BY <5>1 DEF Room
            <4>2. CASE ~Prefix(p, x)
                <5>1. x \in DOMAIN t
                    BY <1>2, <2>1, <4>2
                <5> QED
                    BY <1>5, <5>1 DEF Tree, Branch
            <4> QED
                BY <4>1, <4>2
        <3> QED
            BY <1>2, <2>3, <3>1
    <2> QED
        BY <2>2, <2>3
<1>6. ASSUME NEW x \in DOMAIN r, x # <<>> PROVE x[1] # <<>>
    <2>1. CASE Prefix(p, x)
        BY <1>2, <2>1, PrefixFirst DEF Paths
    <2>2. CASE ~Prefix(p, x)
        BY <1>2, <1>6, <2>2 DEF Tree
    <2> QED
        BY <2>1, <2>2
<1>7. Branch(r)
    BY <1>2, <1>4, <1>5 DEF Branch
<1> QED
    BY <1>4, <1>6, <1>7 DEF Tree, r

\* Removing a token leaves a tree.
LEMMA RemovedTree ==
    ASSUME NEW t, Tree(t), NEW p \in Paths, p # <<>>
    PROVE  Tree(Removed(t, p))
<1> DEFINE r == Removed(t, p)
<1>1. /\ r = [x \in DOMAIN r |-> r[x]] /\ DOMAIN r = {q \in DOMAIN t : ~Prefix(p, q)}
      /\ \A x \in DOMAIN r : r[x] = t[x]
    BY DEF Removed
<1> HIDE DEF r
<1>2. <<>> \in Paths /\ ~Prefix(p, <<>>)
    BY EmptySeq, PrefixOrder DEF Paths
<1>3. <<>> \in DOMAIN r /\ r[<<>>] = Obj
    BY <1>1, <1>2 DEF Tree, Branch
<1>4. ASSUME NEW x \in DOMAIN r, NEW y \in Paths, Prefix(y, x), y # x PROVE y \in DOMAIN r /\ r[y] = Obj
    <2>1. x \in DOMAIN t /\ x \in Paths /\ ~Prefix(p, x)
        BY <1>1 DEF Tree, Branch
    <2>2. y \in DOMAIN t /\ t[y] = Obj
        BY <1>4, <2>1 DEF Tree, Branch
    <2>3. ~Prefix(p, y)
        BY <1>4, <2>1, PrefixOrder DEF Paths
    <2> QED
        BY <1>1, <2>2, <2>3
<1>5. Branch(r)
    BY <1>1, <1>3, <1>4 DEF Branch, Tree
<1> QED
    BY <1>1, <1>3, <1>5 DEF Tree, r

\* A path one step longer.
LEMMA OneLonger ==
    ASSUME NEW S, NEW p \in Seq(S), NEW n \in S
    PROVE  /\ p \o <<n>> \in Seq(S) /\ p \o <<n>> # <<>> /\ Prefix(p, p \o <<n>>)
           /\ p # <<>> => (p \o <<n>>)[1] = p[1]
           /\ \A x \in Seq(S) : Prefix(p \o <<n>>, x) => Prefix(p, x) /\ x # p /\ x[Len(p) + 1] = n
           /\ \A y \in Seq(S) : Prefix(y, p \o <<n>>) /\ y # p \o <<n>> => Prefix(y, p)
<1> DEFINE q == p \o <<n>>
<1>1. <<n>> \in Seq(S) /\ Len(<<n>>) = 1 /\ <<n>>[1] = n /\ Len(p) \in Nat
    BY LenProperties
<1>2. q \in Seq(S) /\ Len(q) = Len(p) + 1 /\ \A i \in 1..Len(p) + 1 : q[i] = IF i <= Len(p) THEN p[i] ELSE <<n>>[i - Len(p)]
    BY <1>1, ConcatProperties
<1>3. Prefix(p, q)
    BY <1>1, PrefixConcat
<1>4. q[Len(p) + 1] = n
    BY <1>1, <1>2
<1> HIDE DEF q
<1>5. q # <<>>
    BY <1>1, <1>2, EmptySeq
<1>6. p # <<>> => q[1] = p[1]
    BY <1>2, <1>3, PrefixFirst
<1>7. ASSUME NEW x \in Seq(S), Prefix(q, x) PROVE Prefix(p, x) /\ x # p /\ x[Len(p) + 1] = n
    <2>1. Prefix(p, x)
        BY <1>2, <1>3, <1>7, PrefixOrder
    <2>2. Len(q) <= Len(x) /\ \A i \in 1..Len(q) : x[i] = q[i]
        BY <1>2, <1>7, PrefixIsPointwise
    <2>3. Len(p) + 1 \in 1..Len(q)
        BY <1>1, <1>2
    <2>4. x # p
        BY <1>1, <1>2, <2>2
    <2> QED
        BY <1>4, <2>1, <2>2, <2>3, <2>4
<1>8. ASSUME NEW y \in Seq(S), Prefix(y, q), y # q PROVE Prefix(y, p)
    <2>1. Len(y) < Len(q) /\ Len(y) \in Nat
        BY <1>2, <1>8, PrefixOrder, LenProperties
    <2>2. Prefix(y, p) \/ Prefix(p, y)
        BY <1>2, <1>3, <1>8, PrefixOrder
    <2>3. ASSUME Prefix(p, y) PROVE y = p
        <3>1. Len(p) <= Len(y)
            BY <2>3 DEF Prefix
        <3>2. Len(p) = Len(y)
            BY <1>1, <1>2, <2>1, <3>1
        <3> QED
            BY <2>3, <3>2, PrefixOrder
    <2> QED
        BY <2>2, <2>3, PrefixOrder
<1> QED
    BY <1>2, <1>3, <1>5, <1>6, <1>7, <1>8 DEF q

\* Where a patch puts a field, in the copy
Field(dest, f) == dest \o <<<<f>>>>

\* The tokens after an object was patched.
LEMMA PatchedTokens ==
    ASSUME NEW t, NEW dest \in Paths, NEW fields, DOMAIN t \subseteq Paths, DOMAIN fields \subseteq Keys,
           \A f \in DOMAIN fields : IsValue(fields[f])
    PROVE  LET r == Patched(t, dest, fields) IN
           /\ r = [x \in DOMAIN r |-> r[x]] /\ DOMAIN r \subseteq Paths
           /\ \A x \in Paths : \A f \in DOMAIN fields : Prefix(Field(dest, f), x) =>
                 /\ x \in DOMAIN r <=> DOMAIN fields[f] # {} /\ Below(Field(dest, f), x) \in DOMAIN Json(fields[f])
                 /\ x \in DOMAIN r => r[x] = Json(fields[f])[Below(Field(dest, f), x)]
           /\ \A x \in Paths : (\A f \in DOMAIN fields : ~Prefix(Field(dest, f), x)) =>
                 (x \in DOMAIN r <=> x \in DOMAIN t) /\ (x \in DOMAIN r => r[x] = t[x])
<1> DEFINE r == Patched(t, dest, fields)
           kept == {q \in DOMAIN t : \A f \in DOMAIN fields : ~Prefix(Field(dest, f), q)}
           set == {f \in DOMAIN fields : DOMAIN fields[f] # {}}
           new == UNION {{Field(dest, f) \o x : x \in DOMAIN Json(fields[f])} : f \in set}
           name(q) == q[Len(dest) + 1][1]
           put(q) == Json(fields[name(q)])[Below(Field(dest, name(q)), q)]
<1>1. r = [q \in kept \cup new |-> IF q \in kept THEN t[q] ELSE put(q)]
    BY DEF Patched, Field
<1>2. ASSUME NEW f \in DOMAIN fields
      PROVE  Field(dest, f) \in Paths /\ \A x \in Paths : Prefix(Field(dest, f), x) => name(x) = f
    <2>1. <<f>> \in Names0 /\ <<f>>[1] = f
        BY DEF Names0
    <2> QED
        BY <2>1, OneLonger DEF Paths, Field
<1>3. ASSUME NEW x \in new
      PROVE  \E f \in set : x \in Paths /\ Prefix(Field(dest, f), x) /\ Below(Field(dest, f), x) \in DOMAIN Json(fields[f])
    <2>1. PICK f \in set : x \in {Field(dest, f) \o y : y \in DOMAIN Json(fields[f])}
        BY <1>3
    <2>2. PICK y \in DOMAIN Json(fields[f]) : x = Field(dest, f) \o y
        BY <2>1
    <2>3. y \in Paths
        BY JsonBranch DEF Branch
    <2>4. Prefix(Field(dest, f), x) /\ Below(Field(dest, f), x) = y /\ x \in Paths
        BY <1>2, <2>2, <2>3, PrefixConcat DEF Paths
    <2> QED
        BY <2>4
<1>4. ASSUME NEW x \in Paths, NEW f \in set, Prefix(Field(dest, f), x), Below(Field(dest, f), x) \in DOMAIN Json(fields[f])
      PROVE  x \in new
    <2>1. x = Field(dest, f) \o Below(Field(dest, f), x)
        BY <1>2, <1>4, PrefixSplit DEF Paths
    <2>2. x \in {Field(dest, f) \o y : y \in DOMAIN Json(fields[f])}
        BY <1>4, <2>1
    <2> QED
        BY <2>2
<1>5. DOMAIN r = kept \cup new /\ kept \subseteq Paths /\ new \subseteq Paths
    BY <1>1, <1>3
<1>6. \A x \in kept : x \in DOMAIN t /\ \A f \in DOMAIN fields : ~Prefix(Field(dest, f), x)
    OBVIOUS
<1>7. \A x \in Paths : x \in DOMAIN t /\ (\A f \in DOMAIN fields : ~Prefix(Field(dest, f), x)) => x \in kept
    OBVIOUS
<1>8. \A f : f \in set <=> f \in DOMAIN fields /\ DOMAIN fields[f] # {}
    OBVIOUS
<1>9. ASSUME NEW x \in Paths, NEW f \in DOMAIN fields, Prefix(Field(dest, f), x)
      PROVE  /\ x \in DOMAIN r <=> DOMAIN fields[f] # {} /\ Below(Field(dest, f), x) \in DOMAIN Json(fields[f])
             /\ x \in DOMAIN r => r[x] = Json(fields[f])[Below(Field(dest, f), x)]
    <2>1. x \notin kept
        BY <1>6, <1>9
    <2>2. \A g \in set : Prefix(Field(dest, g), x) => g = f
        BY <1>2, <1>8, <1>9
    <2>3. x \in new <=> f \in set /\ Below(Field(dest, f), x) \in DOMAIN Json(fields[f])
        BY <1>3, <1>4, <1>9, <2>2
    <2>4. x \in DOMAIN r => r[x] = put(x)
        BY <1>1, <1>5, <2>1
    <2>5. name(x) = f
        BY <1>2, <1>9
    <2> HIDE DEF r, kept, set, new, name
    <2> QED
        BY <1>5, <1>8, <2>1, <2>3, <2>4, <2>5
<1>10. ASSUME NEW x \in Paths, \A f \in DOMAIN fields : ~Prefix(Field(dest, f), x)
       PROVE  (x \in DOMAIN r <=> x \in DOMAIN t) /\ (x \in DOMAIN r => r[x] = t[x])
    <2>1. x \notin new
        BY <1>3, <1>8, <1>10
    <2>2. x \in kept <=> x \in DOMAIN t
        BY <1>6, <1>7, <1>10
    <2>3. x \in kept => r[x] = t[x]
        BY <1>1
    <2> HIDE DEF r, kept, set, new, put
    <2> QED
        BY <1>5, <2>1, <2>2, <2>3
<1>11. r = [x \in DOMAIN r |-> r[x]] /\ DOMAIN r \subseteq Paths
    BY <1>1, <1>5
<1> HIDE DEF r
<1> QED
    BY <1>9, <1>10, <1>11 DEF r

\* Patching an object leaves a tree.
LEMMA PatchedTree ==
    ASSUME NEW t, Tree(t), NEW dest \in DOMAIN t, t[dest] = Obj, NEW fields, DOMAIN fields \subseteq Keys,
           \A f \in DOMAIN fields : IsValue(fields[f])
    PROVE  Tree(Patched(t, dest, fields))
<1> DEFINE r == Patched(t, dest, fields)
<1>1. DOMAIN t \subseteq Paths /\ dest \in Paths /\ <<>> \in DOMAIN t /\ t[<<>>] = Obj
    BY DEF Tree, Branch
<1>2. /\ r = [x \in DOMAIN r |-> r[x]] /\ DOMAIN r \subseteq Paths
      /\ \A x \in Paths : \A f \in DOMAIN fields : Prefix(Field(dest, f), x) =>
            /\ x \in DOMAIN r <=> DOMAIN fields[f] # {} /\ Below(Field(dest, f), x) \in DOMAIN Json(fields[f])
            /\ x \in DOMAIN r => r[x] = Json(fields[f])[Below(Field(dest, f), x)]
      /\ \A x \in Paths : (\A f \in DOMAIN fields : ~Prefix(Field(dest, f), x)) =>
            (x \in DOMAIN r <=> x \in DOMAIN t) /\ (x \in DOMAIN r => r[x] = t[x])
    BY <1>1, PatchedTokens
<1> HIDE DEF r
<1>3. ASSUME NEW f \in DOMAIN fields
      PROVE  /\ Field(dest, f) \in Paths /\ ~Prefix(Field(dest, f), <<>>)
             /\ \A y \in Paths : Prefix(y, Field(dest, f)) /\ y # Field(dest, f) => Prefix(y, dest)
             /\ \A x \in Paths : Prefix(Field(dest, f), x) => x # <<>> /\ x[1] # <<>>
    <2>1. <<f>> \in Names0 /\ <<f>> # <<>> /\ <<>> \in Paths
        BY EmptySeq DEF Names0, Paths
    <2>2. /\ Field(dest, f) \in Paths /\ Field(dest, f) # <<>>
          /\ dest # <<>> => Field(dest, f)[1] = dest[1]
          /\ \A y \in Paths : Prefix(y, Field(dest, f)) /\ y # Field(dest, f) => Prefix(y, dest)
        <3> DEFINE n == <<f>>
        <3>1. dest \in Seq(Names0) /\ n \in Names0 /\ Field(dest, f) = dest \o <<n>>
            BY <1>1, <2>1 DEF Paths, Field
        <3> HIDE DEF n
        <3>2. /\ dest \o <<n>> \in Seq(Names0) /\ dest \o <<n>> # <<>>
              /\ dest # <<>> => (dest \o <<n>>)[1] = dest[1]
              /\ \A y \in Seq(Names0) : Prefix(y, dest \o <<n>>) /\ y # dest \o <<n>> => Prefix(y, dest)
            BY <3>1, OneLonger
        <3> QED
            BY <3>1, <3>2 DEF Paths
    <2>3. Field(dest, f)[1] # <<>>
        <3>1. dest # <<>> => dest[1] # <<>>
            BY DEF Tree
        <3>2. dest = <<>> => Field(dest, f) = <<<<f>>>>
            BY <2>1, ConcatEmptySeq DEF Field
        <3> QED
            BY <2>1, <2>2, <3>1, <3>2
    <2> QED
        BY <2>1, <2>2, <2>3, PrefixFirst, PrefixOrder DEF Paths
<1>4. <<>> \in DOMAIN r /\ r[<<>>] = Obj
    BY <1>1, <1>2, <1>3
<1>5. ASSUME NEW x \in DOMAIN r, NEW y \in Paths, Prefix(y, x), y # x PROVE y \in DOMAIN r /\ r[y] = Obj
    <2>1. x \in Paths
        BY <1>2
    <2>2. ASSUME NEW f \in DOMAIN fields, Prefix(Field(dest, f), y) PROVE y \in DOMAIN r /\ r[y] = Obj
        <3>1. Prefix(Field(dest, f), x)
            BY <1>3, <1>5, <2>1, <2>2, PrefixOrder DEF Paths
        <3>2. DOMAIN fields[f] # {} /\ Below(Field(dest, f), x) \in DOMAIN Json(fields[f])
            BY <1>2, <2>1, <3>1
        <3>3. Prefix(Below(Field(dest, f), y), Below(Field(dest, f), x))
            BY <1>3, <1>5, <2>1, <2>2, PrefixBelow DEF Paths
        <3>4. Below(Field(dest, f), y) # Below(Field(dest, f), x)
            BY <1>3, <1>5, <2>1, <2>2, <3>1, PrefixSplit DEF Paths
        <3>5. Below(Field(dest, f), y) \in Paths
            BY <1>3, <2>2, PrefixSplit DEF Paths
        <3>6. Branch(Json(fields[f]))
            BY JsonBranch
        <3>7. Below(Field(dest, f), y) \in DOMAIN Json(fields[f]) /\ Json(fields[f])[Below(Field(dest, f), y)] = Obj
            BY <3>2, <3>3, <3>4, <3>5, <3>6 DEF Branch
        <3> QED
            BY <1>2, <2>2, <3>2, <3>7
    <2>3. ASSUME \A f \in DOMAIN fields : ~Prefix(Field(dest, f), y) PROVE y \in DOMAIN r /\ r[y] = Obj
        <3>1. y \in DOMAIN t /\ t[y] = Obj
            <4>1. ASSUME NEW f \in DOMAIN fields, Prefix(Field(dest, f), x) PROVE y \in DOMAIN t /\ t[y] = Obj
                <5>1. Prefix(y, Field(dest, f)) /\ y # Field(dest, f)
                    BY <1>3, <1>5, <2>1, <2>3, <4>1, PrefixOrder DEF Paths
                <5>2. Prefix(y, dest)
                    BY <1>3, <5>1
                <5> QED
                    BY <1>1, <5>2 DEF Tree, Branch
            <4>2. ASSUME \A f \in DOMAIN fields : ~Prefix(Field(dest, f), x) PROVE y \in DOMAIN t /\ t[y] = Obj
                <5>1. x \in DOMAIN t
                    BY <1>2, <2>1, <4>2
                <5> QED
                    BY <1>5, <5>1 DEF Tree, Branch
            <4> QED
                BY <4>1, <4>2
        <3> QED
            BY <1>2, <2>3, <3>1
    <2> QED
        BY <2>2, <2>3
<1>6. ASSUME NEW x \in DOMAIN r, x # <<>> PROVE x[1] # <<>>
    BY <1>2, <1>3, <1>6 DEF Tree
<1>7. Branch(r)
    BY <1>2, <1>4, <1>5 DEF Branch
<1> QED
    BY <1>4, <1>6, <1>7 DEF Tree, r

-----------------------------------------------------------------------------
(* What the database does to a value *)

\* The leaves after a put.
LEMMA OverwrittenLeaves ==
    ASSUME NEW v, IsValue(v), NEW p \in Seq(Keys), NEW d, IsValue(d)
    PROVE  LET w == Overwritten(v, p, d) IN
           /\ w = [x \in DOMAIN w |-> w[x]] /\ DOMAIN w \subseteq Seq(Keys)
           /\ \A x \in Seq(Keys) :
                x \in DOMAIN w <=> IF Prefix(p, x) THEN Below(p, x) \in DOMAIN d
                                   ELSE x \in DOMAIN v /\ (DOMAIN d = {} \/ ~Prefix(x, p))
           /\ \A x \in DOMAIN w : w[x] = IF Prefix(p, x) THEN d[Below(p, x)] ELSE v[x]
<1> DEFINE w == Overwritten(v, p, d)
           kept == {q \in DOMAIN v : ~Prefix(p, q) /\ (DOMAIN d = {} \/ ~Prefix(q, p))}
           new == {p \o r : r \in DOMAIN d}
<1>1. w = [q \in kept \cup new |-> IF q \in kept THEN v[q] ELSE d[Below(p, q)]]
    BY DEF Overwritten
<1>2. DOMAIN v \subseteq Seq(Keys) /\ DOMAIN d \subseteq Seq(Keys)
    BY DEF IsValue
<1>3. \A x \in new : x \in Seq(Keys) /\ Prefix(p, x) /\ Below(p, x) \in DOMAIN d
    BY <1>2, PrefixConcat
<1>4. ASSUME NEW x \in Seq(Keys), Prefix(p, x), Below(p, x) \in DOMAIN d PROVE x \in new
    <2>1. x = p \o Below(p, x)
        BY <1>4, PrefixSplit
    <2> QED
        BY <1>4, <2>1
<1>5. \A x \in kept : x \in Seq(Keys) /\ ~Prefix(p, x) /\ x \in DOMAIN v /\ (DOMAIN d = {} \/ ~Prefix(x, p))
    BY <1>2
<1>6. \A x \in DOMAIN v : ~Prefix(p, x) /\ (DOMAIN d = {} \/ ~Prefix(x, p)) => x \in kept
    OBVIOUS
<1> HIDE DEF w, kept, new
<1>7. DOMAIN w = kept \cup new
    BY <1>1
<1>8. \A x \in DOMAIN w : w[x] = IF Prefix(p, x) THEN d[Below(p, x)] ELSE v[x]
    BY <1>1, <1>3, <1>5
<1>9. ASSUME NEW x \in Seq(Keys)
      PROVE  x \in DOMAIN w <=> IF Prefix(p, x) THEN Below(p, x) \in DOMAIN d
                                ELSE x \in DOMAIN v /\ (DOMAIN d = {} \/ ~Prefix(x, p))
    BY <1>3, <1>4, <1>5, <1>6, <1>7
<1>10. w = [x \in DOMAIN w |-> w[x]] /\ DOMAIN w \subseteq Seq(Keys)
    BY <1>1, <1>3, <1>5, <1>7
<1> QED
    BY <1>8, <1>9, <1>10 DEF w

\* A put leaves a value.
LEMMA OverwrittenIsValue ==
    ASSUME NEW v, IsValue(v), NEW p \in Seq(Keys), NEW d, IsValue(d)
    PROVE  IsValue(Overwritten(v, p, d))
<1> DEFINE w == Overwritten(v, p, d)
<1>1. /\ w = [x \in DOMAIN w |-> w[x]] /\ DOMAIN w \subseteq Seq(Keys)
      /\ \A x \in Seq(Keys) :
            x \in DOMAIN w <=> IF Prefix(p, x) THEN Below(p, x) \in DOMAIN d
                               ELSE x \in DOMAIN v /\ (DOMAIN d = {} \/ ~Prefix(x, p))
      /\ \A x \in DOMAIN w : w[x] = IF Prefix(p, x) THEN d[Below(p, x)] ELSE v[x]
    BY OverwrittenLeaves
<1> HIDE DEF w
<1>2. ASSUME NEW x \in DOMAIN w PROVE w[x] \in Scalars
    BY <1>1 DEF IsValue
<1>3. ASSUME NEW x \in DOMAIN w, NEW y \in DOMAIN w, Prefix(x, y) PROVE x = y
    <2>1. x \in Seq(Keys) /\ y \in Seq(Keys)
        BY <1>1
    <2>2. CASE Prefix(p, x)
        <3>1. Prefix(p, y)
            BY <1>3, <2>1, <2>2, PrefixOrder
        <3>2. /\ Below(p, x) \in DOMAIN d /\ Below(p, y) \in DOMAIN d
              /\ x = p \o Below(p, x) /\ y = p \o Below(p, y)
            BY <1>1, <2>1, <2>2, <3>1, PrefixSplit
        <3>3. Prefix(Below(p, x), Below(p, y))
            BY <1>3, <2>1, <2>2, PrefixBelow
        <3> QED
            BY <3>2, <3>3 DEF IsValue
    <2>3. CASE ~Prefix(p, x) /\ Prefix(p, y)
        <3>1. x \in DOMAIN v /\ Below(p, y) \in DOMAIN d
            BY <1>1, <2>1, <2>3
        <3>2. ~Prefix(x, p)
            BY <1>1, <2>1, <2>3, <3>1
        <3> QED
            BY <1>3, <2>1, <2>3, <3>2, PrefixOrder
    <2>4. CASE ~Prefix(p, x) /\ ~Prefix(p, y)
        BY <1>1, <1>3, <2>1, <2>4 DEF IsValue
    <2> QED
        BY <2>2, <2>3, <2>4
<1> QED
    BY <1>1, <1>2, <1>3 DEF IsValue, w

\* and in the value.
FieldV(p, f) == p \o <<f>>

\* The leaves after a patch.
LEMMA MergedLeaves ==
    ASSUME NEW v, IsValue(v), NEW p \in Seq(Keys), NEW fields, DOMAIN fields \subseteq Keys,
           \A f \in DOMAIN fields : IsValue(fields[f])
    PROVE  LET w == Merged(v, p, fields) IN
           /\ w = [x \in DOMAIN w |-> w[x]] /\ DOMAIN w \subseteq Seq(Keys)
           /\ \A x \in Seq(Keys) : \A f \in DOMAIN fields : Prefix(FieldV(p, f), x) =>
                /\ x \in DOMAIN w <=> Below(FieldV(p, f), x) \in DOMAIN fields[f]
                /\ x \in DOMAIN w => w[x] = fields[f][Below(FieldV(p, f), x)]
           /\ \A x \in Seq(Keys) : (\A f \in DOMAIN fields : ~Prefix(FieldV(p, f), x)) =>
                /\ x \in DOMAIN w <=> x \in DOMAIN v /\ ((\A f \in DOMAIN fields : DOMAIN fields[f] = {}) \/ ~Prefix(x, p))
                /\ x \in DOMAIN w => w[x] = v[x]
<1> DEFINE w == Merged(v, p, fields)
           gone == \A f \in DOMAIN fields : DOMAIN fields[f] = {}
           kept == {q \in DOMAIN v : (gone \/ ~Prefix(q, p)) /\ \A f \in DOMAIN fields : ~Prefix(FieldV(p, f), q)}
           new == UNION {{FieldV(p, f) \o r : r \in DOMAIN fields[f]} : f \in DOMAIN fields}
           name(q) == q[Len(p) + 1]
           put(q) == fields[name(q)][Below(FieldV(p, name(q)), q)]
<1>1. w = [q \in kept \cup new |-> IF q \in kept THEN v[q] ELSE put(q)]
    BY DEF Merged, FieldV
<1>2. ASSUME NEW f \in DOMAIN fields
      PROVE  /\ FieldV(p, f) \in Seq(Keys) /\ DOMAIN fields[f] \subseteq Seq(Keys)
             /\ \A x \in Seq(Keys) : Prefix(FieldV(p, f), x) => name(x) = f
    BY OneLonger DEF FieldV, IsValue
<1>3. ASSUME NEW x \in new
      PROVE  \E f \in DOMAIN fields : x \in Seq(Keys) /\ Prefix(FieldV(p, f), x) /\ Below(FieldV(p, f), x) \in DOMAIN fields[f]
    <2>1. PICK f \in DOMAIN fields : x \in {FieldV(p, f) \o y : y \in DOMAIN fields[f]}
        BY <1>3
    <2>2. PICK y \in DOMAIN fields[f] : x = FieldV(p, f) \o y
        BY <2>1
    <2>3. y \in Seq(Keys)
        BY <1>2
    <2>4. Prefix(FieldV(p, f), x) /\ Below(FieldV(p, f), x) = y /\ x \in Seq(Keys)
        BY <1>2, <2>2, <2>3, PrefixConcat
    <2> QED
        BY <2>4
<1>4. ASSUME NEW x \in Seq(Keys), NEW f \in DOMAIN fields, Prefix(FieldV(p, f), x), Below(FieldV(p, f), x) \in DOMAIN fields[f]
      PROVE  x \in new
    <2>1. x = FieldV(p, f) \o Below(FieldV(p, f), x)
        BY <1>2, <1>4, PrefixSplit
    <2>2. x \in {FieldV(p, f) \o y : y \in DOMAIN fields[f]}
        BY <1>4, <2>1
    <2> QED
        BY <2>2
<1>5. kept \subseteq Seq(Keys) /\ DOMAIN w = kept \cup new /\ new \subseteq Seq(Keys)
    BY <1>1, <1>3 DEF IsValue
<1>6. \A x \in kept : x \in DOMAIN v /\ (gone \/ ~Prefix(x, p)) /\ \A f \in DOMAIN fields : ~Prefix(FieldV(p, f), x)
    OBVIOUS
<1>7. \A x \in DOMAIN v : (gone \/ ~Prefix(x, p)) /\ (\A f \in DOMAIN fields : ~Prefix(FieldV(p, f), x)) => x \in kept
    OBVIOUS
<1>8. ASSUME NEW x \in Seq(Keys), NEW f \in DOMAIN fields, Prefix(FieldV(p, f), x)
      PROVE  /\ x \in DOMAIN w <=> Below(FieldV(p, f), x) \in DOMAIN fields[f]
             /\ x \in DOMAIN w => w[x] = fields[f][Below(FieldV(p, f), x)]
    <2>1. x \notin kept
        BY <1>6, <1>8
    <2>2. \A g \in DOMAIN fields : Prefix(FieldV(p, g), x) => g = f
        BY <1>2, <1>8
    <2>3. x \in new <=> Below(FieldV(p, f), x) \in DOMAIN fields[f]
        BY <1>3, <1>4, <1>8, <2>2
    <2>4. x \in DOMAIN w => w[x] = put(x)
        BY <1>1, <1>5, <2>1
    <2>5. name(x) = f
        BY <1>2, <1>8
    <2> HIDE DEF w, kept, new, name
    <2> QED
        BY <1>5, <2>1, <2>3, <2>4, <2>5
<1>9. ASSUME NEW x \in Seq(Keys), \A f \in DOMAIN fields : ~Prefix(FieldV(p, f), x)
      PROVE  /\ x \in DOMAIN w <=> x \in DOMAIN v /\ (gone \/ ~Prefix(x, p))
             /\ x \in DOMAIN w => w[x] = v[x]
    <2>1. x \notin new
        BY <1>3, <1>9
    <2>2. x \in kept <=> x \in DOMAIN v /\ (gone \/ ~Prefix(x, p))
        BY <1>6, <1>7, <1>9
    <2>3. x \in kept => w[x] = v[x]
        BY <1>1
    <2> HIDE DEF w, kept, new, put, gone
    <2> QED
        BY <1>5, <2>1, <2>2, <2>3
<1>10. w = [x \in DOMAIN w |-> w[x]] /\ DOMAIN w \subseteq Seq(Keys)
    BY <1>1, <1>5
<1> HIDE DEF w
<1> QED
    BY <1>8, <1>9, <1>10 DEF w

\* A patch leaves a value.
LEMMA MergedIsValue ==
    ASSUME NEW v, IsValue(v), NEW p \in Seq(Keys), NEW fields, DOMAIN fields \subseteq Keys,
           \A f \in DOMAIN fields : IsValue(fields[f])
    PROVE  IsValue(Merged(v, p, fields))
<1> DEFINE w == Merged(v, p, fields)
           gone == \A f \in DOMAIN fields : DOMAIN fields[f] = {}
<1>1. /\ w = [x \in DOMAIN w |-> w[x]] /\ DOMAIN w \subseteq Seq(Keys)
      /\ \A x \in Seq(Keys) : \A f \in DOMAIN fields : Prefix(FieldV(p, f), x) =>
            /\ x \in DOMAIN w <=> Below(FieldV(p, f), x) \in DOMAIN fields[f]
            /\ x \in DOMAIN w => w[x] = fields[f][Below(FieldV(p, f), x)]
      /\ \A x \in Seq(Keys) : (\A f \in DOMAIN fields : ~Prefix(FieldV(p, f), x)) =>
            /\ x \in DOMAIN w <=> x \in DOMAIN v /\ (gone \/ ~Prefix(x, p))
            /\ x \in DOMAIN w => w[x] = v[x]
    BY MergedLeaves
<1> HIDE DEF w
<1>2. ASSUME NEW f \in DOMAIN fields
      PROVE  /\ FieldV(p, f) \in Seq(Keys)
             /\ \A y \in Seq(Keys) : Prefix(y, FieldV(p, f)) /\ y # FieldV(p, f) => Prefix(y, p)
    BY OneLonger DEF FieldV
<1>3. ASSUME NEW x \in DOMAIN w PROVE w[x] \in Scalars
    <2>1. CASE \E f \in DOMAIN fields : Prefix(FieldV(p, f), x)
        BY <1>1, <2>1 DEF IsValue
    <2>2. CASE \A f \in DOMAIN fields : ~Prefix(FieldV(p, f), x)
        BY <1>1, <2>2 DEF IsValue
    <2> QED
        BY <2>1, <2>2
<1>4. ASSUME NEW x \in DOMAIN w, NEW y \in DOMAIN w, Prefix(x, y) PROVE x = y
    <2>1. x \in Seq(Keys) /\ y \in Seq(Keys)
        BY <1>1
    <2>2. ASSUME NEW f \in DOMAIN fields, Prefix(FieldV(p, f), x) PROVE x = y
        <3>1. Prefix(FieldV(p, f), y)
            BY <1>2, <1>4, <2>1, <2>2, PrefixOrder
        <3>2. /\ Below(FieldV(p, f), x) \in DOMAIN fields[f] /\ Below(FieldV(p, f), y) \in DOMAIN fields[f]
              /\ x = FieldV(p, f) \o Below(FieldV(p, f), x) /\ y = FieldV(p, f) \o Below(FieldV(p, f), y)
            BY <1>1, <1>2, <2>1, <2>2, <3>1, PrefixSplit
        <3>3. Prefix(Below(FieldV(p, f), x), Below(FieldV(p, f), y))
            BY <1>2, <1>4, <2>1, <2>2, PrefixBelow
        <3> QED
            BY <3>2, <3>3 DEF IsValue
    <2>3. ASSUME \A f \in DOMAIN fields : ~Prefix(FieldV(p, f), x) PROVE x = y
        <3>1. x \in DOMAIN v /\ (gone \/ ~Prefix(x, p))
            BY <1>1, <2>1, <2>3
        <3>2. ASSUME NEW f \in DOMAIN fields, Prefix(FieldV(p, f), y) PROVE FALSE
            <4>1. Prefix(x, FieldV(p, f)) /\ x # FieldV(p, f)
                BY <1>2, <1>4, <2>1, <2>3, <3>2, PrefixOrder
            <4>2. Prefix(x, p)
                BY <1>2, <2>1, <4>1
            <4>3. DOMAIN fields[f] # {}
                BY <1>1, <2>1, <3>2
            <4> QED
                BY <3>1, <4>2, <4>3
        <3>3. y \in DOMAIN v
            BY <1>1, <2>1, <3>2
        <3> QED
            BY <1>4, <3>1, <3>3 DEF IsValue
    <2> QED
        BY <2>2, <2>3
<1> QED
    BY <1>1, <1>3, <1>4 DEF IsValue, w

\* A write, or the event that tells of it; nobody writes a scalar in place of the node.
WellFormed(w) ==
    /\ w.path \in Seq(Keys)
    /\ \/ w.type = "put" /\ IsValue(w.data) /\ (w.path = <<>> => <<>> \notin DOMAIN w.data)
       \/ w.type = "patch" /\ DOMAIN w.fields \subseteq Keys /\ \A f \in DOMAIN w.fields : IsValue(w.fields[f])

\* Whatever is written, the node has children and no scalar of its own.
LEMMA WrittenIsNode ==
    ASSUME NEW v, IsNode(v), NEW w, WellFormed(w)
    PROVE  IsNode(Written(v, w))
<1>1. IsValue(v) /\ <<>> \notin DOMAIN v /\ w.path \in Seq(Keys) /\ <<>> \in Seq(Keys)
    BY EmptySeq DEF IsNode, WellFormed
<1>2. CASE w.type = "put"
    <2>1. IsValue(w.data) /\ (w.path = <<>> => <<>> \notin DOMAIN w.data)
        BY <1>2 DEF WellFormed
    <2>2. IsValue(Overwritten(v, w.path, w.data))
        BY <1>1, <2>1, OverwrittenIsValue
    <2>3. <<>> \notin DOMAIN Overwritten(v, w.path, w.data)
        <3>1. <<>> \in DOMAIN Overwritten(v, w.path, w.data)
                <=> IF Prefix(w.path, <<>>) THEN Below(w.path, <<>>) \in DOMAIN w.data
                    ELSE <<>> \in DOMAIN v /\ (DOMAIN w.data = {} \/ ~Prefix(<<>>, w.path))
            BY <1>1, <2>1, OverwrittenLeaves
        <3>2. Prefix(w.path, <<>>) => w.path = <<>>
            BY <1>1, PrefixOrder
        <3>3. Below(<<>>, <<>>) = <<>>
            <4> DEFINE e == <<>>
            <4>1. e \in Seq(Keys) /\ e \o e = e
                BY <1>1
            <4> HIDE DEF e
            <4>2. Below(e, e \o e) = e
                BY <4>1, PrefixConcat
            <4> QED
                BY <4>1, <4>2 DEF e
        <3> QED
            BY <1>1, <2>1, <3>1, <3>2, <3>3
    <2> QED
        BY <1>2, <2>2, <2>3 DEF Written, IsNode
<1>3. CASE w.type = "patch"
    <2>1. DOMAIN w.fields \subseteq Keys /\ \A f \in DOMAIN w.fields : IsValue(w.fields[f])
        BY <1>3 DEF WellFormed
    <2>2. IsValue(Merged(v, w.path, w.fields))
        BY <1>1, <2>1, MergedIsValue
    <2>3. <<>> \notin DOMAIN Merged(v, w.path, w.fields)
        <3>1. ASSUME NEW f \in DOMAIN w.fields PROVE ~Prefix(FieldV(w.path, f), <<>>)
            <4>1. f \in Keys
                BY <2>1
            <4>2. FieldV(w.path, f) \in Seq(Keys) /\ FieldV(w.path, f) # <<>>
                BY <1>1, <4>1, OneLonger DEF FieldV
            <4> QED
                BY <1>1, <4>2, PrefixOrder
        <3>2. <<>> \in DOMAIN Merged(v, w.path, w.fields) => <<>> \in DOMAIN v
            BY <1>1, <2>1, <3>1, MergedLeaves
        <3> QED
            BY <1>1, <3>2
    <2> QED
        BY <1>3, <2>2, <2>3 DEF Written, IsNode
<1> QED
    BY <1>2, <1>3 DEF WellFormed

-----------------------------------------------------------------------------
(* A child of the copy and the same child of a value *)

\* A navigated path begins with the name of its first key.
LEMMA StepsFirst ==
    ASSUME NEW q \in Seq(Keys), q # <<>>
    PROVE  /\ Steps(q) # <<>> /\ Steps(q)[1] = <<q[1]>> /\ Steps(q)[1][1] = q[1] /\ q[1] \in Keys
           /\ Prefix(<<q[1]>>, q) /\ Prefix(Steps(<<q[1]>>), Steps(q))
<1>1. 1 \in 1..Len(q)
    BY EmptySeq, LenProperties
<1>2. Steps(q)[1] = <<q[1]>> /\ q[1] \in Keys /\ Steps(q) # <<>>
    BY <1>1, StepsPath
<1>3. Prefix(<<q[1]>>, q)
    BY <1>2, PrefixOfOne
<1> DEFINE h == <<q[1]>>
<1>4. h \in Seq(Keys) /\ Prefix(h, q)
    BY <1>2, <1>3, StepsOfOne
<1> HIDE DEF h
<1>5. Prefix(Steps(h), Steps(q))
    BY <1>4, StepsPrefix
<1> QED
    BY <1>2, <1>3, <1>5 DEF h

\* Below a prefix, paths are navigated alike.
LEMMA StepsBelow ==
    ASSUME NEW p \in Seq(Keys), NEW q \in Seq(Keys), Prefix(p, q)
    PROVE  Below(p, q) \in Seq(Keys) /\ Below(Steps(p), Steps(q)) = Steps(Below(p, q))
<1> DEFINE b == Below(p, q)
<1>1. b \in Seq(Keys) /\ q = p \o b
    BY PrefixSplit
<1> HIDE DEF b
<1>2. Steps(q) = Steps(p) \o Steps(b)
    BY <1>1, StepsConcat
<1>3. Steps(p) \in Seq(Names0) /\ Steps(b) \in Seq(Names0)
    BY <1>1, StepsPath DEF Paths
<1> DEFINE u == Steps(p)
           w == Steps(b)
<1> HIDE DEF u, w
<1>4. Below(u, u \o w) = w
    BY <1>3, PrefixConcat DEF u, w
<1> QED
    BY <1>1, <1>2, <1>4 DEF b, u, w

\* A value has a child when one of its leaves is under that key.
LEMMA ChildrenAre ==
    ASSUME NEW v, IsValue(v), NEW k \in Keys
    PROVE  k \in Children(v) <=> \E q \in DOMAIN v : Prefix(<<k>>, q)
<1>1. ASSUME k \in Children(v) PROVE \E q \in DOMAIN v : Prefix(<<k>>, q)
    <2>1. PICK q \in DOMAIN v \ {<<>>} : q[1] = k
        BY <1>1 DEF Children
    <2>2. q \in Seq(Keys)
        BY DEF IsValue
    <2> QED
        BY <2>1, <2>2, PrefixOfOne
<1>2. ASSUME NEW q \in DOMAIN v, Prefix(<<k>>, q) PROVE k \in Children(v)
    <2>1. q \in Seq(Keys) /\ <<k>> \in Seq(Keys) /\ <<k>> # <<>> /\ <<k>>[1] = k
        BY DEF IsValue
    <2>2. q # <<>> /\ q[1] = k
        BY <1>2, <2>1, PrefixFirst
    <2> QED
        BY <2>2 DEF Children
<1> QED
    BY <1>1, <1>2

\* Tree paths in child k, those under garbled names that start with k included.
In(x, k) == x # <<>> /\ x[1][1] = k

\* The leaves of child k are the same.
Agrees(t, v, k) ==
    /\ \A q \in DOMAIN v : Prefix(<<k>>, q) => Steps(q) \in DOMAIN t /\ t[Steps(q)] = v[q]
    /\ \A x \in DOMAIN t : In(x, k) /\ t[x] # Obj => \E q \in DOMAIN v : x = Steps(q)

\* A child that the copy has is one of the value, or was emptied.
Kept(t, v, E, k) == Agrees(t, v, k) /\ (Steps(<<k>>) \in DOMAIN t => k \in Children(v) \cup E)

\* Every child is right but those of M, which were mishandled.
Good(t, v, E, M) == Tree(t) /\ \A k \in Keys \ M : Kept(t, v, E, k)

\* A child of the value that agrees is one of the copy.
LEMMA AgreeingChild ==
    ASSUME NEW t, Tree(t), NEW v, IsNode(v), NEW k \in Keys, Agrees(t, v, k)
    PROVE  /\ k \in Children(v) => Steps(<<k>>) \in DOMAIN t
           /\ k \in Children(v) /\ <<k>> \notin DOMAIN v => t[Steps(<<k>>)] = Obj
           /\ \A p \in Seq(Keys) : p # <<>> /\ p[1] = k /\ IsObject(v, p) =>
                Steps(p) \in DOMAIN t /\ t[Steps(p)] = Obj
           /\ \A p \in Seq(Keys) : p # <<>> /\ p[1] = k /\ Steps(p) \in DOMAIN t /\ t[Steps(p)] = Obj =>
                \A q \in DOMAIN v : ~Prefix(q, p)
<1>0. IsValue(v) /\ DOMAIN v \subseteq Seq(Keys) /\ <<>> \notin DOMAIN v /\ DOMAIN t \subseteq Paths
    BY DEF IsNode, IsValue, Tree, Branch
<1>1. <<k>> \in Seq(Keys) /\ <<k>> # <<>> /\ <<k>>[1] = k
    OBVIOUS
<1>2. ASSUME NEW p \in Seq(Keys), p # <<>>, p[1] = k, NEW q \in DOMAIN v, Prefix(p, q)
      PROVE  Steps(p) \in DOMAIN t /\ (q # p => t[Steps(p)] = Obj)
    <2>1. q \in Seq(Keys) /\ Prefix(<<k>>, p)
        BY <1>0, <1>2, PrefixOfOne
    <2>2. Prefix(<<k>>, q)
        BY <1>1, <1>2, <2>1, PrefixOrder
    <2>3. Steps(q) \in DOMAIN t
        BY <2>2 DEF Agrees
    <2>4. Prefix(Steps(p), Steps(q)) /\ Steps(p) \in Paths /\ (q # p => Steps(q) # Steps(p))
        BY <1>2, <2>1, StepsPrefix, StepsPath
    <2> QED
        BY <2>3, <2>4 DEF Tree, Branch
<1>3. k \in Children(v) => \E q \in DOMAIN v : Prefix(<<k>>, q)
    BY <1>0, ChildrenAre
<1>4. k \in Children(v) => Steps(<<k>>) \in DOMAIN t /\ (<<k>> \notin DOMAIN v => t[Steps(<<k>>)] = Obj)
    BY <1>1, <1>2, <1>3
<1>5. \A p \in Seq(Keys) : p # <<>> /\ p[1] = k /\ IsObject(v, p) => Steps(p) \in DOMAIN t /\ t[Steps(p)] = Obj
    BY <1>2 DEF IsObject
<1>6. ASSUME NEW p \in Seq(Keys), p # <<>>, p[1] = k, Steps(p) \in DOMAIN t, t[Steps(p)] = Obj,
             NEW q \in DOMAIN v, Prefix(q, p)
      PROVE  FALSE
    <2>1. q \in Seq(Keys) /\ q # <<>>
        BY <1>0
    <2>2. p[1] = q[1]
        BY <1>6, <2>1, PrefixFirst
    <2>3. Prefix(<<k>>, q)
        BY <1>6, <2>1, <2>2, PrefixOfOne
    <2>4. Steps(q) \in DOMAIN t /\ t[Steps(q)] = v[q]
        BY <2>3 DEF Agrees
    <2>5. Prefix(Steps(q), Steps(p)) /\ Steps(q) \in Paths
        BY <1>6, <2>1, StepsPrefix, StepsPath
    <2>6. t[Steps(q)] = Obj
        BY <1>6, <2>5 DEF Tree, Branch
    <2>7. v[q] \in Scalars
        BY <1>0 DEF IsValue
    <2> QED
        BY <2>4, <2>6, <2>7, TokensDiffer
<1> QED
    BY <1>4, <1>5, <1>6

\* What does not change the children outside K.
SameOff(t, u, K) ==
    \A x \in Paths : x # <<>> /\ x[1][1] \notin K =>
        (x \in DOMAIN u <=> x \in DOMAIN t) /\ (x \in DOMAIN u => u[x] = t[x])
SameOffV(v, w, K) ==
    \A q \in Seq(Keys) : q # <<>> /\ q[1] \notin K =>
        (q \in DOMAIN w <=> q \in DOMAIN v) /\ (q \in DOMAIN w => w[q] = v[q])

\* A child agrees as before if neither the copy nor the value changes there.
LEMMA OthersKept ==
    ASSUME NEW t, NEW u, DOMAIN t \subseteq Paths, DOMAIN u \subseteq Paths, NEW v, IsNode(v), NEW w, IsNode(w),
           NEW K, SameOff(t, u, K), SameOffV(v, w, K), NEW E, NEW F, E \subseteq F,
           NEW k \in Keys \ K, Kept(t, v, E, k)
    PROVE  Kept(u, w, F, k)
<1>1. /\ IsValue(v) /\ DOMAIN v \subseteq Seq(Keys) /\ <<>> \notin DOMAIN v
      /\ IsValue(w) /\ DOMAIN w \subseteq Seq(Keys) /\ <<>> \notin DOMAIN w
    BY DEF IsNode, IsValue
<1>2. <<k>> \in Seq(Keys) /\ <<k>> # <<>> /\ <<k>>[1] = k
    OBVIOUS
<1>3. ASSUME NEW q \in Seq(Keys), Prefix(<<k>>, q)
      PROVE  /\ q # <<>> /\ q[1] = k /\ Steps(q) \in Paths /\ Steps(q) # <<>> /\ Steps(q)[1][1] = k
    <2>1. q # <<>> /\ q[1] = k
        BY <1>2, <1>3, PrefixFirst
    <2> QED
        BY <2>1, StepsFirst, StepsPath
<1>4. ASSUME NEW q \in DOMAIN w, Prefix(<<k>>, q)
      PROVE  Steps(q) \in DOMAIN u /\ u[Steps(q)] = w[q]
    <2>1. q \in Seq(Keys) /\ q # <<>> /\ q[1] = k /\ Steps(q) \in Paths /\ Steps(q) # <<>> /\ Steps(q)[1][1] = k
        BY <1>1, <1>3, <1>4
    <2>2. q \in DOMAIN v /\ w[q] = v[q]
        BY <2>1 DEF SameOffV
    <2>3. Steps(q) \in DOMAIN t /\ t[Steps(q)] = v[q]
        BY <1>4, <2>2 DEF Kept, Agrees
    <2> QED
        BY <2>1, <2>2, <2>3 DEF SameOff
<1>5. ASSUME NEW x \in DOMAIN u, In(x, k), u[x] # Obj PROVE \E q \in DOMAIN w : x = Steps(q)
    <2>1. x \in DOMAIN t /\ t[x] # Obj
        BY <1>5 DEF SameOff, In
    <2>2. PICK q \in DOMAIN v : x = Steps(q)
        BY <1>5, <2>1 DEF Kept, Agrees
    <2>3. q \in Seq(Keys) /\ q # <<>>
        BY <1>1
    <2>4. q[1] = k
        BY <1>5, <2>2, <2>3, StepsFirst DEF In
    <2> QED
        BY <2>2, <2>3, <2>4 DEF SameOffV
<1>6. ASSUME Steps(<<k>>) \in DOMAIN u PROVE k \in Children(w) \cup F
    <2>1. Steps(<<k>>) \in Paths /\ Steps(<<k>>) # <<>> /\ Steps(<<k>>)[1][1] = k
        BY <1>2, StepsFirst, StepsPath
    <2>2. Steps(<<k>>) \in DOMAIN t
        BY <1>6, <2>1 DEF SameOff
    <2>3. k \in Children(v) \cup E
        BY <2>2 DEF Kept
    <2>4. ASSUME k \in Children(v) PROVE k \in Children(w)
        <3>1. PICK q \in DOMAIN v \ {<<>>} : q[1] = k
            BY <2>4 DEF Children
        <3>2. q \in DOMAIN w \ {<<>>}
            BY <1>1, <3>1 DEF SameOffV
        <3> QED
            BY <3>1, <3>2 DEF Children
    <2> QED
        BY <2>3, <2>4
<1> QED
    BY <1>4, <1>5, <1>6 DEF Kept, Agrees

-----------------------------------------------------------------------------
(* What each handler makes of a child that agrees *)

\* A value put where its path leads.
LEMMA AssignAgrees ==
    ASSUME NEW t, Tree(t), NEW v, IsNode(v), NEW p \in Seq(Keys), p # <<>>, NEW d, IsValue(d), DOMAIN d # {},
           NEW k \in Keys, k = p[1], Agrees(t, v, k), \A q \in DOMAIN v : Prefix(q, p) => q = p
    PROVE  /\ Agrees(Assigned(t, Steps(p), Json(d)), Overwritten(v, p, d), k)
           /\ k \in Children(Overwritten(v, p, d))
<1> DEFINE u == Assigned(t, Steps(p), Json(d))
           w == Overwritten(v, p, d)
<1>1. /\ IsValue(v) /\ DOMAIN v \subseteq Seq(Keys) /\ DOMAIN d \subseteq Seq(Keys)
      /\ DOMAIN t \subseteq Paths /\ Steps(p) \in Paths /\ IsValue(w)
    BY StepsPath, OverwrittenIsValue DEF IsNode, IsValue, Tree, Branch
<1>2. Branch(Json(d)) /\ DOMAIN Json(d) \subseteq Paths
    BY JsonBranch DEF Branch
<1>3. /\ \A q \in DOMAIN d : Steps(q) \in DOMAIN Json(d) /\ Json(d)[Steps(q)] = d[q]
      /\ \A x \in DOMAIN Json(d) : Json(d)[x] # Obj => \E q \in DOMAIN d : x = Steps(q)
    BY JsonLeaves
<1>4. /\ DOMAIN u \subseteq Paths
      /\ \A x \in Paths : x \in DOMAIN u <=> IF Prefix(Steps(p), x) THEN Below(Steps(p), x) \in DOMAIN Json(d) ELSE x \in DOMAIN t
      /\ \A x \in DOMAIN u : u[x] = IF Prefix(Steps(p), x) THEN Json(d)[Below(Steps(p), x)] ELSE t[x]
    BY <1>1, <1>2, AssignedTokens
<1>5. /\ DOMAIN w \subseteq Seq(Keys)
      /\ \A x \in Seq(Keys) :
            x \in DOMAIN w <=> IF Prefix(p, x) THEN Below(p, x) \in DOMAIN d
                               ELSE x \in DOMAIN v /\ (DOMAIN d = {} \/ ~Prefix(x, p))
      /\ \A x \in DOMAIN w : w[x] = IF Prefix(p, x) THEN d[Below(p, x)] ELSE v[x]
    BY <1>1, OverwrittenLeaves
<1> HIDE DEF u, w
<1>6. ASSUME NEW q \in DOMAIN w, Prefix(<<k>>, q) PROVE Steps(q) \in DOMAIN u /\ u[Steps(q)] = w[q]
    <2>1. q \in Seq(Keys) /\ Steps(q) \in Paths /\ (Prefix(Steps(p), Steps(q)) <=> Prefix(p, q))
        BY <1>5, StepsPath, StepsPrefix
    <2>2. CASE Prefix(p, q)
        <3>1. Below(Steps(p), Steps(q)) = Steps(Below(p, q))
            BY <2>1, <2>2, StepsBelow
        <3>2. Below(p, q) \in DOMAIN d /\ w[q] = d[Below(p, q)]
            BY <1>5, <2>1, <2>2
        <3> QED
            BY <1>3, <1>4, <2>1, <2>2, <3>1, <3>2
    <2>3. CASE ~Prefix(p, q)
        <3>1. q \in DOMAIN v /\ w[q] = v[q]
            BY <1>5, <2>1, <2>3
        <3>2. Steps(q) \in DOMAIN t /\ t[Steps(q)] = v[q]
            BY <1>6, <3>1 DEF Agrees
        <3> QED
            BY <1>4, <2>1, <2>3, <3>1, <3>2
    <2> QED
        BY <2>2, <2>3
<1>7. ASSUME NEW r \in DOMAIN d PROVE p \o r \in DOMAIN w /\ Steps(p \o r) = Steps(p) \o Steps(r) /\ Prefix(p, p \o r)
    <2>1. r \in Seq(Keys)
        BY <1>1
    <2>2. p \o r \in Seq(Keys) /\ Prefix(p, p \o r) /\ Below(p, p \o r) = r
        BY <2>1, PrefixConcat
    <2> QED
        BY <1>5, <2>1, <2>2, StepsConcat
<1>8. ASSUME NEW x \in DOMAIN u, In(x, k), u[x] # Obj PROVE \E q \in DOMAIN w : x = Steps(q)
    <2>1. x \in Paths
        BY <1>4
    <2>2. CASE Prefix(Steps(p), x)
        <3>1. Below(Steps(p), x) \in DOMAIN Json(d) /\ Json(d)[Below(Steps(p), x)] # Obj
            BY <1>4, <1>8, <2>1, <2>2
        <3>2. PICK r \in DOMAIN d : Below(Steps(p), x) = Steps(r)
            BY <1>3, <3>1
        <3>3. x = Steps(p) \o Below(Steps(p), x)
            BY <1>1, <2>1, <2>2, PrefixSplit DEF Paths
        <3> QED
            BY <1>7, <3>2, <3>3
    <2>3. CASE ~Prefix(Steps(p), x)
        <3>1. x \in DOMAIN t /\ t[x] # Obj
            BY <1>4, <1>8, <2>1, <2>3
        <3>2. PICK q \in DOMAIN v : x = Steps(q)
            BY <1>8, <3>1 DEF Agrees
        <3>3. q \in Seq(Keys) /\ ~Prefix(p, q)
            BY <1>1, <2>3, <3>2, StepsPrefix
        <3>4. ~Prefix(q, p)
            BY <3>3, PrefixOrder
        <3> QED
            BY <1>5, <3>2, <3>3, <3>4
    <2> QED
        BY <2>2, <2>3
<1>9. k \in Children(w)
    <2>1. PICK r \in DOMAIN d : TRUE
        OBVIOUS
    <2>2. p \o r \in DOMAIN w /\ Prefix(p, p \o r) /\ p \o r \in Seq(Keys)
        BY <1>5, <1>7
    <2>3. Prefix(<<k>>, p) /\ <<k>> \in Seq(Keys)
        BY PrefixOfOne
    <2>4. Prefix(<<k>>, p \o r)
        <3> DEFINE y == p \o r
        <3>1. y \in Seq(Keys) /\ Prefix(p, y)
            BY <2>2
        <3> HIDE DEF y
        <3>2. Prefix(<<k>>, y)
            BY <2>3, <3>1, PrefixOrder
        <3> QED
            BY <3>2 DEF y
    <2> QED
        BY <1>1, <2>2, <2>4, ChildrenAre
<1> QED
    BY <1>6, <1>8, <1>9 DEF Agrees, u, w

\* A null put where its path leads, which leaves the scalars above alone.
LEMMA RemoveAgrees ==
    ASSUME NEW t, Tree(t), NEW v, IsNode(v), NEW p \in Seq(Keys), p # <<>>, NEW d, IsValue(d), DOMAIN d = {},
           NEW k \in Keys, Agrees(t, v, k)
    PROVE  Agrees(Removed(t, Steps(p)), Overwritten(v, p, d), k)
<1> DEFINE u == Removed(t, Steps(p))
           w == Overwritten(v, p, d)
<1>1. IsValue(v) /\ DOMAIN v \subseteq Seq(Keys) /\ DOMAIN t \subseteq Paths
    BY DEF IsNode, IsValue, Tree, Branch
<1>2. DOMAIN u = {x \in DOMAIN t : ~Prefix(Steps(p), x)} /\ \A x \in DOMAIN u : u[x] = t[x]
    BY DEF Removed
<1>3. /\ DOMAIN w \subseteq Seq(Keys)
      /\ \A x \in Seq(Keys) : x \in DOMAIN w <=> ~Prefix(p, x) /\ x \in DOMAIN v
      /\ \A x \in DOMAIN w : w[x] = v[x]
    BY <1>1, OverwrittenLeaves
<1> HIDE DEF u, w
<1>4. ASSUME NEW q \in DOMAIN w, Prefix(<<k>>, q) PROVE Steps(q) \in DOMAIN u /\ u[Steps(q)] = w[q]
    <2>1. q \in Seq(Keys) /\ q \in DOMAIN v /\ w[q] = v[q] /\ ~Prefix(Steps(p), Steps(q))
        BY <1>3, StepsPrefix
    <2>2. Steps(q) \in DOMAIN t /\ t[Steps(q)] = v[q]
        BY <1>4, <2>1 DEF Agrees
    <2> QED
        BY <1>2, <2>1, <2>2
<1>5. ASSUME NEW x \in DOMAIN u, In(x, k), u[x] # Obj PROVE \E q \in DOMAIN w : x = Steps(q)
    <2>1. x \in DOMAIN t /\ t[x] # Obj /\ ~Prefix(Steps(p), x)
        BY <1>2, <1>5
    <2>2. PICK q \in DOMAIN v : x = Steps(q)
        BY <1>5, <2>1 DEF Agrees
    <2>3. q \in Seq(Keys) /\ ~Prefix(p, q)
        BY <1>1, <2>1, <2>2, StepsPrefix
    <2> QED
        BY <1>3, <2>2, <2>3
<1> QED
    BY <1>4, <1>5 DEF Agrees, u, w

\* A patch of an object of the copy.
LEMMA PatchAgrees ==
    ASSUME NEW t, Tree(t), NEW v, IsNode(v), NEW p \in Seq(Keys), Steps(p) \in DOMAIN t, t[Steps(p)] = Obj,
           NEW fields, DOMAIN fields \subseteq Keys, \A f \in DOMAIN fields : IsValue(fields[f]),
           NEW k \in Keys, p # <<>> => p[1] = k, Agrees(t, v, k)
    PROVE  Agrees(Patched(t, Steps(p), fields), Merged(v, p, fields), k)
<1> DEFINE u == Patched(t, Steps(p), fields)
           w == Merged(v, p, fields)
<1>1. /\ IsValue(v) /\ DOMAIN v \subseteq Seq(Keys) /\ <<>> \notin DOMAIN v
      /\ DOMAIN t \subseteq Paths /\ Steps(p) \in Paths
    BY StepsPath DEF IsNode, IsValue, Tree, Branch
<1>2. /\ DOMAIN u \subseteq Paths
      /\ \A x \in Paths : \A f \in DOMAIN fields : Prefix(Field(Steps(p), f), x) =>
            /\ x \in DOMAIN u <=> DOMAIN fields[f] # {} /\ Below(Field(Steps(p), f), x) \in DOMAIN Json(fields[f])
            /\ x \in DOMAIN u => u[x] = Json(fields[f])[Below(Field(Steps(p), f), x)]
      /\ \A x \in Paths : (\A f \in DOMAIN fields : ~Prefix(Field(Steps(p), f), x)) =>
            (x \in DOMAIN u <=> x \in DOMAIN t) /\ (x \in DOMAIN u => u[x] = t[x])
    BY <1>1, PatchedTokens
<1>3. /\ DOMAIN w \subseteq Seq(Keys)
      /\ \A x \in Seq(Keys) : \A f \in DOMAIN fields : Prefix(FieldV(p, f), x) =>
            /\ x \in DOMAIN w <=> Below(FieldV(p, f), x) \in DOMAIN fields[f]
            /\ x \in DOMAIN w => w[x] = fields[f][Below(FieldV(p, f), x)]
      /\ \A x \in Seq(Keys) : (\A f \in DOMAIN fields : ~Prefix(FieldV(p, f), x)) =>
            /\ x \in DOMAIN w <=> x \in DOMAIN v /\ ((\A f \in DOMAIN fields : DOMAIN fields[f] = {}) \/ ~Prefix(x, p))
            /\ x \in DOMAIN w => w[x] = v[x]
    BY <1>1, MergedLeaves
<1> HIDE DEF u, w
<1>4. ASSUME NEW f \in DOMAIN fields
      PROVE  FieldV(p, f) \in Seq(Keys) /\ Steps(FieldV(p, f)) = Field(Steps(p), f) /\ Field(Steps(p), f) \in Paths
    <2>1. f \in Keys /\ <<f>> \in Seq(Keys) /\ Steps(<<f>>) = <<<<f>>>>
        BY StepsOfOne
    <2>2. FieldV(p, f) \in Seq(Keys)
        BY <2>1, OneLonger DEF FieldV
    <2>3. Steps(FieldV(p, f)) = Steps(p) \o Steps(<<f>>)
        BY <2>1, StepsConcat DEF FieldV
    <2> QED
        BY <2>1, <2>2, <2>3, StepsPath DEF Field
<1>5. ASSUME NEW q \in Seq(Keys), NEW f \in DOMAIN fields
      PROVE  Prefix(Field(Steps(p), f), Steps(q)) <=> Prefix(FieldV(p, f), q)
    <2>1. Prefix(Steps(FieldV(p, f)), Steps(q)) <=> Prefix(FieldV(p, f), q)
        BY <1>4, StepsPrefix
    <2> QED
        BY <1>4, <2>1
<1>6. ASSUME NEW q \in DOMAIN w, Prefix(<<k>>, q) PROVE Steps(q) \in DOMAIN u /\ u[Steps(q)] = w[q]
    <2>1. q \in Seq(Keys) /\ Steps(q) \in Paths
        BY <1>3, StepsPath
    <2>2. ASSUME NEW f \in DOMAIN fields, Prefix(FieldV(p, f), q) PROVE Steps(q) \in DOMAIN u /\ u[Steps(q)] = w[q]
        <3>1. Below(FieldV(p, f), q) \in DOMAIN fields[f] /\ w[q] = fields[f][Below(FieldV(p, f), q)]
            BY <1>3, <2>1, <2>2
        <3>2. Prefix(Field(Steps(p), f), Steps(q))
            BY <1>5, <2>1, <2>2
        <3>3. Below(Steps(FieldV(p, f)), Steps(q)) = Steps(Below(FieldV(p, f), q))
            BY <1>4, <2>1, <2>2, StepsBelow
        <3>4. Below(Field(Steps(p), f), Steps(q)) = Steps(Below(FieldV(p, f), q))
            BY <1>4, <3>3
        <3>5. /\ Steps(Below(FieldV(p, f), q)) \in DOMAIN Json(fields[f])
              /\ Json(fields[f])[Steps(Below(FieldV(p, f), q))] = fields[f][Below(FieldV(p, f), q)]
            <4>1. IsValue(fields[f]) /\ DOMAIN fields[f] # {}
                BY <3>1
            <4> QED
                BY <3>1, <4>1, JsonLeaves
        <3>6. DOMAIN fields[f] # {}
            BY <3>1
        <3> QED
            BY <1>2, <2>1, <3>1, <3>2, <3>4, <3>5, <3>6
    <2>3. ASSUME \A f \in DOMAIN fields : ~Prefix(FieldV(p, f), q) PROVE Steps(q) \in DOMAIN u /\ u[Steps(q)] = w[q]
        <3>1. q \in DOMAIN v /\ w[q] = v[q]
            BY <1>3, <2>1, <2>3
        <3>2. Steps(q) \in DOMAIN t /\ t[Steps(q)] = v[q]
            BY <1>6, <3>1 DEF Agrees
        <3>3. \A f \in DOMAIN fields : ~Prefix(Field(Steps(p), f), Steps(q))
            BY <1>5, <2>1, <2>3
        <3> QED
            BY <1>2, <2>1, <3>1, <3>2, <3>3
    <2> QED
        BY <2>2, <2>3
<1>7. ASSUME NEW x \in DOMAIN u, In(x, k), u[x] # Obj PROVE \E q \in DOMAIN w : x = Steps(q)
    <2>1. x \in Paths
        BY <1>2
    <2>2. ASSUME NEW f \in DOMAIN fields, Prefix(Field(Steps(p), f), x) PROVE \E q \in DOMAIN w : x = Steps(q)
        <3>1. /\ DOMAIN fields[f] # {} /\ Below(Field(Steps(p), f), x) \in DOMAIN Json(fields[f])
              /\ Json(fields[f])[Below(Field(Steps(p), f), x)] # Obj
            BY <1>2, <1>7, <2>1, <2>2
        <3>2. PICK r \in DOMAIN fields[f] : Below(Field(Steps(p), f), x) = Steps(r)
            BY <3>1, JsonLeaves
        <3>3. x = Field(Steps(p), f) \o Below(Field(Steps(p), f), x)
            BY <1>4, <2>1, <2>2, PrefixSplit DEF Paths
        <3>4. r \in Seq(Keys)
            BY DEF IsValue
        <3>5. Steps(FieldV(p, f) \o r) = Steps(FieldV(p, f)) \o Steps(r)
            BY <1>4, <3>4, StepsConcat
        <3>6. /\ FieldV(p, f) \o r \in Seq(Keys) /\ Prefix(FieldV(p, f), FieldV(p, f) \o r)
              /\ Below(FieldV(p, f), FieldV(p, f) \o r) = r
            <4> DEFINE a == FieldV(p, f)
            <4>1. a \in Seq(Keys)
                BY <1>4
            <4> HIDE DEF a
            <4>2. a \o r \in Seq(Keys) /\ Prefix(a, a \o r) /\ Below(a, a \o r) = r
                BY <3>4, <4>1, PrefixConcat
            <4> QED
                BY <4>2 DEF a
        <3>7. FieldV(p, f) \o r \in DOMAIN w
            <4> DEFINE a == FieldV(p, f)
                       b == a \o r
            <4>1. b \in Seq(Keys) /\ Prefix(a, b) /\ Below(a, b) = r
                BY <3>6
            <4>2. \A y \in Seq(Keys) : Prefix(a, y) => (y \in DOMAIN w <=> Below(a, y) \in DOMAIN fields[f])
                BY <1>3
            <4> HIDE DEF a, b
            <4>3. b \in DOMAIN w
                BY <4>1, <4>2
            <4> QED
                BY <4>3 DEF a, b
        <3> QED
            BY <1>4, <3>2, <3>3, <3>5, <3>7
    <2>3. ASSUME \A f \in DOMAIN fields : ~Prefix(Field(Steps(p), f), x) PROVE \E q \in DOMAIN w : x = Steps(q)
        <3>1. x \in DOMAIN t /\ t[x] # Obj
            BY <1>2, <1>7, <2>1, <2>3
        <3>2. PICK q \in DOMAIN v : x = Steps(q)
            BY <1>7, <3>1 DEF Agrees
        <3>3. q \in Seq(Keys) /\ q # <<>> /\ \A f \in DOMAIN fields : ~Prefix(FieldV(p, f), q)
            BY <1>1, <1>5, <2>3, <3>2
        <3>4. ~Prefix(q, p)
            <4>1. p = <<>> => ~Prefix(q, p)
                BY <3>3, PrefixOrder
            <4>2. p # <<>> => ~Prefix(q, p)
                BY AgreeingChild
            <4> QED
                BY <4>1, <4>2
        <3> QED
            BY <1>3, <3>2, <3>3, <3>4
    <2> QED
        BY <2>2, <2>3
<1> QED
    BY <1>6, <1>7 DEF Agrees, u, w

-----------------------------------------------------------------------------
(* What the handlers leave alone *)

\* What is set or removed below a child is not in another.
LEMMA FirstKey ==
    ASSUME NEW p \in Seq(Keys), p # <<>>
    PROVE  /\ SubSeq(p, 1, 1) = <<p[1]>> /\ <<p[1]>> \in Seq(Keys) /\ p[1] \in Keys
           /\ Joined(p) \in Paths /\ Joined(p) # <<>> /\ Joined(p)[1] # <<>> /\ Joined(p)[1][1] = p[1]
           /\ Steps(<<p[1]>>) \in Paths /\ Steps(<<p[1]>>) # <<>>
           /\ Steps(<<p[1]>>)[1] # <<>> /\ Steps(<<p[1]>>)[1][1] = p[1]
           /\ Tail(p) \in Seq(Keys) /\ (Len(p) = 1 => p = <<p[1]>>)
           /\ Len(p) = 2 => Steps(p) = Steps(<<p[1]>>) \o Joined(Tail(p))
<1>1. Len(p) \in Nat \ {0} /\ 1 \in 1..Len(p)
    BY EmptySeq, LenProperties
<1>2. p[1] \in Keys
    BY <1>1, ElementOfSeq
<1> DEFINE k == p[1]
<1>3. k \in Keys /\ k = p[1]
    BY <1>2
<1> HIDE DEF k
<1>4. <<k>> \in Seq(Keys) /\ <<k>> # <<>> /\ Steps(<<k>>) = <<<<k>>>> /\ <<k>>[1] = k /\ Len(<<k>>) = 1
    BY <1>3, StepsOfOne
<1>5. SubSeq(p, 1, 1) = <<k>>
    <2>1. \A i \in 1..1 : p[i] \in Keys
        BY <1>2
    <2>2. SubSeq(p, 1, 1) \in Seq(Keys) /\ Len(SubSeq(p, 1, 1)) = 1 /\ SubSeq(p, 1, 1)[1] = p[1]
        BY <2>1, SubSeqProperties
    <2> DEFINE s == SubSeq(p, 1, 1)
    <2>3. s \in Seq(Keys) /\ Len(s) = 1 /\ s[1] = k
        BY <1>3, <2>2
    <2> HIDE DEF s
    <2>4. s = <<k>>
        BY <1>4, <2>3, SeqEqual
    <2> QED
        BY <2>4 DEF s
<1>6. Joined(p) \in Paths /\ Joined(p) # <<>> /\ Joined(p)[1] # <<>> /\ Joined(p)[1][1] = p[1]
    BY DEF Joined, Paths, Names0
<1>7. Steps(<<k>>) \in Paths /\ Steps(<<k>>) # <<>> /\ Steps(<<k>>)[1] # <<>> /\ Steps(<<k>>)[1][1] = k
    <2>1. <<<<k>>>> # <<>> /\ <<<<k>>>>[1] = <<k>>
        OBVIOUS
    <2> QED
        BY <1>4, <2>1, StepsPath
<1>8. Tail(p) \in Seq(Keys) /\ Len(Tail(p)) = Len(p) - 1
    BY <1>1, EmptySeq, HeadTailProperties
<1>9. Len(p) = 1 => p = <<k>>
    BY <1>3, StepsOfOne
<1>10. ASSUME Len(p) = 2 PROVE Steps(p) = Steps(<<k>>) \o Joined(Tail(p))
    <2>1. 2 \in 1..Len(p) /\ p[2] \in Keys
        BY <1>10, ElementOfSeq
    <2>2. Tail(p)[1] = p[2] /\ Len(Tail(p)) = 1
        BY <1>8, <1>10, HeadTailProperties
    <2>3. Tail(p) = <<p[2]>>
        BY <1>8, <2>1, <2>2, StepsOfOne
    <2>4. Steps(p) \in Seq(Names0) /\ Len(Steps(p)) = 2 /\ Steps(p)[1] = <<p[1]>> /\ Steps(p)[2] = <<p[2]>>
        BY <1>1, <1>10, <2>1, StepsPath DEF Paths
    <2> DEFINE a == <<k>>
               b == <<p[2]>>
               y == <<a>>
               z == <<b>>
    <2>5. /\ a \in Names0 /\ b \in Names0
          /\ y \in Seq(Names0) /\ z \in Seq(Names0) /\ Len(y) = 1 /\ Len(z) = 1 /\ y[1] = a /\ z[1] = b
        BY <1>3, <2>1 DEF Names0
    <2>6. y = Steps(<<k>>) /\ z = Joined(Tail(p)) /\ Steps(p)[1] = a /\ Steps(p)[2] = b
        BY <1>3, <1>4, <2>3, <2>4 DEF Joined
    <2> HIDE DEF a, b, y, z
    <2>7. /\ y \o z \in Seq(Names0) /\ Len(y \o z) = Len(y) + Len(z)
          /\ \A i \in 1..Len(y) + Len(z) : (y \o z)[i] = IF i <= Len(y) THEN y[i] ELSE z[i - Len(y)]
        BY <2>5, ConcatProperties
    <2>8. \A i \in 1..2 : Steps(p)[i] = (y \o z)[i]
        <3>1. \A i \in 1..2 : i = 1 \/ i = 2
            OBVIOUS
        <3> QED
            BY <2>5, <2>6, <2>7, <3>1
    <2>9. Steps(p) = y \o z
        BY <2>4, <2>5, <2>7, <2>8, SeqEqual
    <2> QED
        BY <2>6, <2>9
<1> QED
    BY <1>2, <1>4, <1>5, <1>6, <1>7, <1>8, <1>9, <1>10 DEF k

\* A token set in one child leaves the others as they are.
LEMMA AssignedElsewhere ==
    ASSUME NEW t, NEW s, NEW p \in Paths, p # <<>>, DOMAIN t \subseteq Paths, DOMAIN s \subseteq Paths
    PROVE  SameOff(t, Assigned(t, p, s), {p[1][1]})
<1> DEFINE r == Assigned(t, p, s)
<1>1. /\ \A x \in Paths : x \in DOMAIN r <=> IF Prefix(p, x) THEN Below(p, x) \in DOMAIN s ELSE x \in DOMAIN t
      /\ \A x \in DOMAIN r : r[x] = IF Prefix(p, x) THEN s[Below(p, x)] ELSE t[x]
    BY AssignedTokens
<1> HIDE DEF r
<1>2. \A x \in Paths : Prefix(p, x) => x[1] = p[1]
    BY PrefixFirst DEF Paths
<1> QED
    BY <1>1, <1>2 DEF SameOff, r

\* So does a removal,
LEMMA RemovedElsewhere ==
    ASSUME NEW t, NEW p \in Paths, p # <<>>
    PROVE  SameOff(t, Removed(t, p), {p[1][1]})
<1>1. \A x \in Paths : Prefix(p, x) => x[1] = p[1]
    BY PrefixFirst DEF Paths
<1> QED
    BY <1>1 DEF SameOff, Removed

\* The children that a patch changes.
Patches(p, fields) == IF p = <<>> THEN DOMAIN fields ELSE {p[1]}

\* and a patch.
LEMMA PatchedElsewhere ==
    ASSUME NEW t, NEW dest \in Paths, NEW fields, DOMAIN t \subseteq Paths, DOMAIN fields \subseteq Keys,
           \A f \in DOMAIN fields : IsValue(fields[f])
    PROVE  SameOff(t, Patched(t, dest, fields), IF dest = <<>> THEN DOMAIN fields ELSE {dest[1][1]})
<1> DEFINE r == Patched(t, dest, fields)
<1>1. \A x \in Paths : (\A f \in DOMAIN fields : ~Prefix(Field(dest, f), x)) =>
            (x \in DOMAIN r <=> x \in DOMAIN t) /\ (x \in DOMAIN r => r[x] = t[x])
    BY PatchedTokens
<1> HIDE DEF r
<1>2. ASSUME NEW x \in Paths, NEW f \in DOMAIN fields, Prefix(Field(dest, f), x)
      PROVE  x[1][1] \in IF dest = <<>> THEN DOMAIN fields ELSE {dest[1][1]}
    <2> DEFINE n == <<f>>
    <2>1. n \in Names0 /\ n[1] = f /\ Field(dest, f) = dest \o <<n>>
        BY DEF Names0, Field
    <2> HIDE DEF n
    <2>2. dest \in Seq(Names0) /\ x \in Seq(Names0) /\ Prefix(dest \o <<n>>, x)
        BY <1>2, <2>1 DEF Paths
    <2>3. Prefix(dest, x) /\ x[Len(dest) + 1] = n
        BY <2>1, <2>2, OneLonger
    <2>4. dest # <<>> => x[1] = dest[1]
        BY <2>2, <2>3, PrefixFirst
    <2>5. dest = <<>> => x[1] = n
        BY <2>3
    <2> QED
        BY <2>1, <2>4, <2>5
<1> QED
    BY <1>1, <1>2 DEF SameOff, r

\* A put leaves the children of the value that it is not for as they are;
LEMMA OverwrittenElsewhere ==
    ASSUME NEW v, IsValue(v), NEW p \in Seq(Keys), p # <<>>, NEW d, IsValue(d)
    PROVE  SameOffV(v, Overwritten(v, p, d), {p[1]})
<1> DEFINE w == Overwritten(v, p, d)
<1>1. /\ \A x \in Seq(Keys) :
            x \in DOMAIN w <=> IF Prefix(p, x) THEN Below(p, x) \in DOMAIN d
                               ELSE x \in DOMAIN v /\ (DOMAIN d = {} \/ ~Prefix(x, p))
      /\ \A x \in DOMAIN w : w[x] = IF Prefix(p, x) THEN d[Below(p, x)] ELSE v[x]
    BY OverwrittenLeaves
<1> HIDE DEF w
<1>2. \A x \in Seq(Keys) : Prefix(p, x) => x[1] = p[1]
    BY PrefixFirst
<1>3. \A x \in Seq(Keys) : x # <<>> /\ Prefix(x, p) => x[1] = p[1]
    BY PrefixFirst
<1> QED
    BY <1>1, <1>2, <1>3 DEF SameOffV, w

\* so does a patch.
LEMMA MergedElsewhere ==
    ASSUME NEW v, IsValue(v), NEW p \in Seq(Keys), NEW fields, DOMAIN fields \subseteq Keys,
           \A f \in DOMAIN fields : IsValue(fields[f])
    PROVE  SameOffV(v, Merged(v, p, fields), Patches(p, fields))
<1> DEFINE w == Merged(v, p, fields)
<1>1. \A x \in Seq(Keys) : (\A f \in DOMAIN fields : ~Prefix(FieldV(p, f), x)) =>
            /\ x \in DOMAIN w <=> x \in DOMAIN v /\ ((\A f \in DOMAIN fields : DOMAIN fields[f] = {}) \/ ~Prefix(x, p))
            /\ x \in DOMAIN w => w[x] = v[x]
    BY MergedLeaves
<1> HIDE DEF w
<1>2. ASSUME NEW x \in Seq(Keys), NEW f \in DOMAIN fields, Prefix(FieldV(p, f), x)
      PROVE  x[1] \in Patches(p, fields)
    <2>1. f \in Keys /\ Prefix(p, x) /\ x[Len(p) + 1] = f
        BY <1>2, OneLonger DEF FieldV
    <2>2. p # <<>> => x[1] = p[1]
        BY <2>1, PrefixFirst
    <2>3. p = <<>> => x[1] = f
        BY <2>1
    <2> QED
        BY <2>2, <2>3 DEF Patches
<1>3. ASSUME NEW x \in Seq(Keys), x # <<>>, Prefix(x, p) PROVE x[1] \in Patches(p, fields)
    <2>1. p # <<>> /\ p[1] = x[1]
        BY <1>3, PrefixFirst
    <2> QED
        BY <2>1 DEF Patches
<1> QED
    BY <1>1, <1>2, <1>3 DEF SameOffV, w

-----------------------------------------------------------------------------
(* The handling of one event, as the copy and the value it tells of *)

\* Empties and Mangles of a write to value v, of which children E were emptied before.
EmptiedBy(w, v) ==
    /\ IF w.type = "put" THEN Len(w.path) > 1 ELSE w.path # <<>>
    /\ w.path[1] \in Children(v) \ Children(Written(v, w))

MangledBy(w, v, E) ==
    LET k == w.path[1]
        absent == k \notin Children(v)
        scalar == <<k>> \in DOMAIN v
    IN  /\ w.path # <<>>
        /\ CASE w.type = "patch" -> scalar \/ (Len(w.path) > 1 /\ ~IsObject(v, w.path))
             [] w.type = "put" /\ DOMAIN w.data = {} -> FALSE
             [] OTHER -> IF Len(w.path) > 1 THEN absent \/ scalar \/ Len(w.path) > 2 ELSE ~absent \/ k \in E

\* The copy after a put, and after a patch.
PutResult(t, w, u) ==
    \/ w.path = <<>> /\ u = IF Json(w.data)[<<>>] = Obj THEN Json(w.data) ELSE EmptyObject
    \/ /\ w.path # <<>> /\ ChildKey(w) \notin DOMAIN t
       /\ u = Assigned(t, Joined(w.path), Json(w.data))
    \/ /\ w.path # <<>> /\ ChildKey(w) \in DOMAIN t /\ DOMAIN w.data = {}
       /\ u = Removed(t, Steps(w.path))
    \/ /\ w.path # <<>> /\ ChildKey(w) \in DOMAIN t /\ DOMAIN w.data # {} /\ t[ChildKey(w)] = Obj
       /\ u = Assigned(t, ChildKey(w) \o Joined(Tail(w.path)), Json(w.data))

\* Dest, base and Cache' of HandlePatch for copy t.
PatchDest(t, w) == IF Steps(w.path) \in DOMAIN t THEN Steps(w.path) ELSE Joined(w.path)
PatchBase(t, w) == IF PatchDest(t, w) \in DOMAIN t THEN t ELSE Assigned(t, PatchDest(t, w), EmptyObject)
PatchResult(t, w, u) ==
    /\ PatchBase(t, w)[PatchDest(t, w)] = Obj
    /\ u = Patched(PatchBase(t, w), PatchDest(t, w), w.fields)

\* The copy after either.
Result(t, w, u) == IF w.type = "put" THEN PutResult(t, w, u) ELSE PatchResult(t, w, u)

\* A node's text, and the copy that shows it.
LEMMA NodeJson ==
    ASSUME NEW d, IsNode(d)
    PROVE  /\ DOMAIN d # {} => Json(d)[<<>>] = Obj
           /\ DOMAIN d = {} => Json(d)[<<>>] # Obj
           /\ Tree(View(d)) /\ View(d) = IF Json(d)[<<>>] = Obj THEN Json(d) ELSE EmptyObject
           /\ \A E, M : Good(View(d), d, E, M)
<1>1. IsValue(d) /\ <<>> \notin DOMAIN d /\ DOMAIN d \subseteq Seq(Keys)
    BY DEF IsNode, IsValue
<1>2. /\ DOMAIN d # {} => Json(d)[<<>>] = Obj
      /\ DOMAIN d = {} => Json(d)[<<>>] # Obj
      /\ Branch(Json(d))
      /\ \A p \in DOMAIN Json(d) : p # <<>> => p[1] # <<>>
    BY <1>1, JsonBranch
<1>3. View(d) = IF Json(d)[<<>>] = Obj THEN Json(d) ELSE EmptyObject
    BY <1>2 DEF View
<1>4. Tree(View(d))
    BY <1>2, <1>3, EmptyTree DEF Tree
<1>5. ASSUME NEW k \in Keys, NEW E PROVE Kept(View(d), d, E, k)
    <2>1. CASE DOMAIN d = {}
        <3>1. View(d) = EmptyObject
            BY <1>2, <1>3, <2>1
        <3>2. Steps(<<k>>) # <<>>
            BY StepsOfOne
        <3> QED
            BY <2>1, <3>1, <3>2 DEF Kept, Agrees, EmptyObject
    <2>2. CASE DOMAIN d # {}
        <3>1. View(d) = Json(d)
            BY <2>2 DEF View
        <3>2. /\ \A q \in DOMAIN d : Steps(q) \in DOMAIN Json(d) /\ Json(d)[Steps(q)] = d[q]
              /\ \A p \in DOMAIN Json(d) : \E l \in DOMAIN d : Prefix(p, Steps(l))
              /\ \A p \in DOMAIN Json(d) : Json(d)[p] # Obj => \E q \in DOMAIN d : p = Steps(q)
            BY <1>1, <2>2, JsonLeaves
        <3>3. ASSUME Steps(<<k>>) \in DOMAIN Json(d) PROVE k \in Children(d)
            <4>1. PICK l \in DOMAIN d : Prefix(Steps(<<k>>), Steps(l))
                BY <3>2, <3>3
            <4>2. l \in Seq(Keys) /\ <<k>> \in Seq(Keys)
                BY <1>1
            <4>3. Prefix(<<k>>, l)
                <5> DEFINE h == <<k>>
                <5>1. h \in Seq(Keys) /\ Prefix(Steps(h), Steps(l))
                    BY <4>1, <4>2
                <5> HIDE DEF h
                <5>2. Prefix(h, l)
                    BY <4>2, <5>1, StepsPrefix
                <5> QED
                    BY <5>2 DEF h
            <4> QED
                BY <1>1, <4>3, ChildrenAre
        <3> QED
            BY <3>1, <3>2, <3>3 DEF Kept, Agrees
    <2> QED
        BY <2>1, <2>2
<1> QED
    BY <1>2, <1>3, <1>4, <1>5 DEF Good

\* A put of the whole node makes the copy right, whatever it was.
LEMMA RootPut ==
    ASSUME NEW v, IsNode(v), NEW w, WellFormed(w), w.type = "put", w.path = <<>>, NEW t, NEW u, PutResult(t, w, u)
    PROVE  /\ Written(v, w) = w.data /\ IsNode(w.data) /\ u = View(w.data)
           /\ \A E, M : Good(u, Written(v, w), E, M)
<1>1. IsNode(w.data) /\ IsValue(w.data) /\ IsValue(v) /\ <<>> \in Seq(Keys)
    BY DEF WellFormed, IsNode
<1>2. Written(v, w) = w.data
    <2> DEFINE d == w.data
               e == <<>>
               x == Overwritten(v, e, d)
    <2>0. e \in Seq(Keys) /\ IsValue(d)
        BY <1>1
    <2> HIDE DEF e, d
    <2>1. /\ x = [q \in DOMAIN x |-> x[q]] /\ DOMAIN x \subseteq Seq(Keys)
          /\ \A q \in Seq(Keys) :
                q \in DOMAIN x <=> IF Prefix(e, q) THEN Below(e, q) \in DOMAIN d
                                   ELSE q \in DOMAIN v /\ (DOMAIN d = {} \/ ~Prefix(q, e))
          /\ \A q \in DOMAIN x : x[q] = IF Prefix(e, q) THEN d[Below(e, q)] ELSE v[q]
        BY <1>1, <2>0, OverwrittenLeaves
    <2> HIDE DEF x
    <2>2. ASSUME NEW q \in Seq(Keys) PROVE Prefix(e, q) /\ Below(e, q) = q
        <3>1. e \o q = q
            BY ConcatEmptySeq DEF e
        <3>2. Prefix(e, e \o q) /\ Below(e, e \o q) = q
            BY <2>0, PrefixConcat
        <3> QED
            BY <3>1, <3>2
    <2>3. d \in [DOMAIN d -> Scalars] /\ DOMAIN d \subseteq Seq(Keys)
        BY <2>0 DEF IsValue
    <2>4. DOMAIN x = DOMAIN d
        BY <2>1, <2>2, <2>3
    <2>5. x = d
        BY <2>1, <2>2, <2>3, <2>4
    <2> QED
        BY <2>5 DEF Written, x, d, e
<1>3. u = View(w.data)
    BY <1>1, NodeJson DEF PutResult
<1> QED
    BY <1>1, <1>2, <1>3, NodeJson

\* Whatever is written, the copy stays a tree, with nothing under the empty name.
LEMMA ResultTree ==
    ASSUME NEW t, Tree(t), NEW w, WellFormed(w), w.path # <<>> \/ w.type = "patch", NEW u, Result(t, w, u)
    PROVE  Tree(u) /\ SameOff(t, u, IF w.type = "put" THEN {w.path[1]} ELSE Patches(w.path, w.fields))
<1>1. w.path \in Seq(Keys) /\ DOMAIN t \subseteq Paths /\ <<>> \in DOMAIN t /\ t[<<>>] = Obj
    BY DEF WellFormed, Tree, Branch
<1> DEFINE p == w.path
           k == w.path[1]
<1>2. ASSUME p # <<>>
      PROVE  /\ ChildKey(w) = Steps(<<k>>) /\ k \in Keys
             /\ Joined(p) \in Paths /\ Joined(p) # <<>> /\ Joined(p)[1] # <<>> /\ Joined(p)[1][1] = k
             /\ Steps(<<k>>) \in Paths /\ Steps(<<k>>) # <<>> /\ Steps(<<k>>)[1] # <<>> /\ Steps(<<k>>)[1][1] = k
             /\ Steps(p) \in Paths /\ Steps(p) # <<>> /\ Steps(p)[1] # <<>> /\ Steps(p)[1][1] = k
             /\ Tail(p) \in Names0 /\ Room(t, Joined(p))
    <2>1. ChildKey(w) = Steps(<<k>>) /\ k \in Keys /\ Tail(p) \in Names0
        BY <1>1, <1>2, FirstKey DEF ChildKey, Names0
    <2>2. /\ Joined(p) \in Paths /\ Joined(p) # <<>> /\ Joined(p)[1] # <<>> /\ Joined(p)[1][1] = k
          /\ Steps(<<k>>) \in Paths /\ Steps(<<k>>) # <<>> /\ Steps(<<k>>)[1] # <<>> /\ Steps(<<k>>)[1][1] = k
        BY <1>1, <1>2, FirstKey
    <2>3. Steps(p) \in Paths /\ Steps(p) # <<>> /\ Steps(p)[1] = <<k>> /\ <<k>> # <<>> /\ <<k>>[1] = k
        BY <1>1, <1>2, StepsFirst, StepsPath
    <2>4. Room(t, Joined(p))
        <3>1. ASSUME NEW q \in Paths, Prefix(q, Joined(p)), q # Joined(p) PROVE q = <<>>
            <4>1. p \in Names0
                BY <1>1 DEF Names0
            <4> DEFINE e == <<>>
            <4>2. e \in Paths /\ e \o <<p>> = Joined(p)
                BY <2>2, ConcatEmptySeq DEF Joined, Paths
            <4> HIDE DEF e
            <4>3. q \in Seq(Names0) /\ e \in Seq(Names0) /\ Prefix(q, e \o <<p>>) /\ q # e \o <<p>>
                BY <3>1, <4>2 DEF Paths
            <4> HIDE DEF p
            <4>4. Prefix(q, e)
                BY <4>1, <4>3, OneLonger
            <4> QED
                BY <4>3, <4>4, PrefixOrder DEF e
        <3> QED
            BY <1>1, <3>1 DEF Room
    <2> QED
        BY <2>1, <2>2, <2>3, <2>4
<1>3. CASE w.type = "put"
    <2>0. p # <<>> /\ IsValue(w.data) /\ Branch(Json(w.data)) /\ DOMAIN Json(w.data) \subseteq Paths
        BY <1>3, JsonBranch DEF WellFormed, Branch
    <2>1. CASE u = Assigned(t, Joined(p), Json(w.data))
        <3>1. Tree(u)
            BY <1>2, <2>0, <2>1, AssignedTree
        <3>2. SameOff(t, u, {Joined(p)[1][1]})
            BY <1>1, <1>2, <2>0, <2>1, AssignedElsewhere
        <3> QED
            BY <1>2, <1>3, <2>0, <3>1, <3>2
    <2>2. CASE u = Removed(t, Steps(p))
        <3>1. Tree(u)
            BY <1>2, <2>0, <2>2, RemovedTree
        <3>2. SameOff(t, u, {Steps(p)[1][1]})
            BY <1>1, <1>2, <2>0, <2>2, RemovedElsewhere
        <3> QED
            BY <1>2, <1>3, <2>0, <3>1, <3>2
    <2>3. CASE ChildKey(w) \in DOMAIN t /\ t[ChildKey(w)] = Obj /\ u = Assigned(t, ChildKey(w) \o Joined(Tail(p)), Json(w.data))
        <3> DEFINE c == ChildKey(w)
                   n == Tail(p)
                   x == c \o Joined(n)
        <3>1. c \in Seq(Names0) /\ n \in Names0 /\ c # <<>> /\ c[1] # <<>> /\ c[1][1] = k
            BY <1>2, <2>0 DEF Paths
        <3>2. x = c \o <<n>>
            BY DEF Joined
        <3> HIDE DEF c, n, x
        <3>3. /\ x \in Seq(Names0) /\ x # <<>> /\ x[1] = c[1]
              /\ \A y \in Seq(Names0) : Prefix(y, x) /\ y # x => Prefix(y, c)
            BY <3>1, <3>2, OneLonger
        <3>4. Room(t, x)
            <4>1. c \in DOMAIN t /\ t[c] = Obj
                BY <2>3 DEF c
            <4> QED
                BY <3>1, <3>3, <4>1 DEF Room, Paths, Tree, Branch
        <3>5. u = Assigned(t, x, Json(w.data)) /\ x \in Paths /\ x[1] # <<>> /\ x[1][1] = k
            BY <2>3, <3>1, <3>3 DEF c, n, x, Paths
        <3>6. Tree(u)
            BY <2>0, <3>3, <3>4, <3>5, AssignedTree
        <3>7. SameOff(t, u, {x[1][1]})
            BY <1>1, <2>0, <3>3, <3>5, AssignedElsewhere
        <3> QED
            BY <1>3, <3>5, <3>6, <3>7
    <2> QED
        BY <1>3, <2>0, <2>1, <2>2, <2>3 DEF Result, PutResult
<1>4. CASE w.type = "patch"
    <2> DEFINE dest == PatchDest(t, w)
               base == PatchBase(t, w)
    <2>1. /\ DOMAIN w.fields \subseteq Keys /\ \A f \in DOMAIN w.fields : IsValue(w.fields[f])
          /\ base[dest] = Obj /\ u = Patched(base, dest, w.fields)
        BY <1>4 DEF WellFormed, Result, PatchResult
    <2>2. Steps(<<>>) = <<>>
        BY EmptySeq, StepsPath
    <2>3. /\ dest \in Paths
          /\ p = <<>> => dest = <<>>
          /\ p # <<>> => dest # <<>> /\ dest[1] # <<>> /\ dest[1][1] = k
          /\ dest \notin DOMAIN t => p # <<>> /\ dest = Joined(p)
        <3>1. CASE p = <<>>
            BY <1>1, <2>2, <3>1 DEF PatchDest
        <3>2. CASE p # <<>>
            BY <1>2, <3>2 DEF PatchDest
        <3> QED
            BY <3>1, <3>2
    <2>4. base = IF dest \in DOMAIN t THEN t ELSE Assigned(t, dest, EmptyObject)
        BY DEF PatchBase
    <2> HIDE DEF dest, base
    <2>5. Tree(base) /\ SameOff(t, base, {k}) /\ dest \in DOMAIN base /\ (p = <<>> => base = t)
        <3>1. CASE dest \in DOMAIN t
            BY <1>1, <2>3, <2>4, <3>1 DEF SameOff
        <3>2. CASE dest \notin DOMAIN t
            <4>1. Branch(EmptyObject) /\ DOMAIN EmptyObject = {<<>>} /\ <<>> \in Paths /\ DOMAIN EmptyObject \subseteq Paths
                BY EmptyTree, EmptySeq DEF Tree, EmptyObject, Paths
            <4>2. Tree(base)
                BY <1>2, <2>3, <2>4, <3>2, <4>1, AssignedTree
            <4>3. SameOff(t, base, {dest[1][1]})
                BY <1>1, <2>3, <2>4, <3>2, <4>1, AssignedElsewhere
            <4>4. dest \in DOMAIN base
                <5>1. Prefix(dest, dest) /\ Below(dest, dest) = <<>>
                    <6> DEFINE e == <<>>
                    <6>1. dest \in Seq(Names0) /\ e \in Seq(Names0) /\ dest \o e = dest
                        BY <2>3, <4>1, ConcatEmptySeq DEF Paths
                    <6> HIDE DEF e
                    <6>2. Prefix(dest, dest \o e) /\ Below(dest, dest \o e) = e
                        BY <6>1, PrefixConcat
                    <6> QED
                        BY <6>1, <6>2 DEF e
                <5>2. \A x \in Paths : x \in DOMAIN Assigned(t, dest, EmptyObject)
                        <=> IF Prefix(dest, x) THEN Below(dest, x) \in DOMAIN EmptyObject ELSE x \in DOMAIN t
                    BY <1>1, <2>3, <4>1, AssignedTokens
                <5> QED
                    BY <2>3, <2>4, <3>2, <4>1, <5>1, <5>2
            <4> QED
                BY <2>3, <3>2, <4>2, <4>3, <4>4
        <3> QED
            BY <3>1, <3>2
    <2>6. Tree(u)
        BY <2>1, <2>5, PatchedTree
    <2>7. SameOff(base, u, IF dest = <<>> THEN DOMAIN w.fields ELSE {dest[1][1]})
        <3>1. DOMAIN base \subseteq Paths
            BY <2>5 DEF Tree, Branch
        <3> QED
            BY <2>1, <2>3, <3>1, PatchedElsewhere
    <2>8. SameOff(t, u, Patches(p, w.fields))
        <3>1. CASE p = <<>>
            BY <2>3, <2>5, <2>7, <3>1 DEF Patches
        <3>2. CASE p # <<>>
            <4>1. SameOff(base, u, {k})
                BY <2>3, <2>7, <3>2
            <4>2. DOMAIN base \subseteq Paths
                BY <2>5 DEF Tree, Branch
            <4> QED
                BY <2>5, <3>2, <4>1, <4>2 DEF Patches, SameOff
        <3> QED
            BY <3>1, <3>2
    <2> QED
        BY <1>4, <2>6, <2>8
<1> QED
    BY <1>3, <1>4 DEF WellFormed

\* The lengths that Mangles tells apart.
LEMMA OneOrMore == \A n \in Nat \ {0} : n = 1 \/ (n > 1 /\ (n = 2 \/ n > 2))
OBVIOUS

\* A put keeps every child that agrees.
LEMMA PutKept ==
    ASSUME NEW t, Tree(t), NEW v, IsNode(v), NEW w, WellFormed(w), w.type = "put", w.path # <<>>,
           NEW u, PutResult(t, w, u), Written(v, w) # v, NEW k, k = w.path[1], NEW E, NEW F, E \subseteq F,
           Kept(t, v, E, k), ~MangledBy(w, v, E), EmptiedBy(w, v) => k \in F
    PROVE  Kept(u, Written(v, w), F, k)
<1> DEFINE p == w.path
           d == w.data
<1>1. /\ p \in Seq(Keys) /\ IsValue(d) /\ IsValue(v) /\ DOMAIN v \subseteq Seq(Keys) /\ <<>> \notin DOMAIN v
      /\ Written(v, w) = Overwritten(v, p, d)
    BY DEF WellFormed, IsNode, IsValue, Written
<1>2. k \in Keys /\ ChildKey(w) = Steps(<<k>>) /\ Len(p) \in Nat \ {0} /\ Prefix(<<k>>, p) /\ <<k>> \in Seq(Keys)
    <2>1. p # <<>> /\ k = p[1]
        OBVIOUS
    <2>2. k \in Keys /\ SubSeq(p, 1, 1) = <<k>> /\ <<k>> \in Seq(Keys)
        BY <1>1, <2>1, FirstKey
    <2>3. Len(p) \in Nat \ {0}
        BY <1>1, <2>1, EmptySeq, LenProperties
    <2>4. Prefix(<<k>>, p)
        BY <1>1, <2>1, <2>2, PrefixOfOne
    <2> QED
        BY <2>2, <2>3, <2>4 DEF ChildKey
<1>3. Agrees(t, v, k) /\ (Steps(<<k>>) \in DOMAIN t => k \in Children(v) \cup E)
    BY DEF Kept
<1>4. CASE DOMAIN d # {}
    <2>1. \A q \in DOMAIN v : Prefix(q, p) => q \in Seq(Keys) /\ q # <<>> /\ q[1] = k /\ k \in Children(v)
        <3> SUFFICES ASSUME NEW q \in DOMAIN v, Prefix(q, p) PROVE q \in Seq(Keys) /\ q # <<>> /\ q[1] = k /\ k \in Children(v)
            OBVIOUS
        <3>1. q \in Seq(Keys) /\ q # <<>>
            BY <1>1
        <3>2. q[1] = p[1]
            BY <1>1, <3>1, PrefixFirst
        <3> QED
            BY <3>1, <3>2 DEF Children
    <2>2. u = Assigned(t, Steps(p), Json(d)) /\ \A q \in DOMAIN v : Prefix(q, p) => q = p
        <3>1. CASE Len(p) = 1
            <4>1. k \notin Children(v) /\ k \notin E
                BY <1>4, <3>1 DEF MangledBy
            <4>2. Steps(<<k>>) \notin DOMAIN t
                BY <1>3, <4>1
            <4>3. Steps(p) = Joined(p)
                BY <1>1, <1>2, <3>1, StepsOfOne
            <4> QED
                BY <1>2, <2>1, <4>1, <4>2, <4>3 DEF PutResult
        <3>2. CASE Len(p) # 1
            <4>1. k \in Children(v) /\ <<k>> \notin DOMAIN v /\ Len(p) = 2
                <5>1. Len(p) > 1
                    BY <1>2, <3>2, OneOrMore
                <5>2. k \in Children(v) /\ <<k>> \notin DOMAIN v /\ ~(Len(p) > 2)
                    BY <1>4, <5>1 DEF MangledBy
                <5> QED
                    BY <1>2, <3>2, <5>2, OneOrMore
            <4>2. Steps(<<k>>) \in DOMAIN t /\ t[Steps(<<k>>)] = Obj
                BY <1>2, <1>3, <4>1, AgreeingChild
            <4>3. Steps(p) = ChildKey(w) \o Joined(Tail(p))
                BY <1>1, <1>2, <4>1, FirstKey
            <4>4. u = Assigned(t, Steps(p), Json(d))
                BY <1>2, <1>4, <4>2, <4>3 DEF PutResult
            <4>5. ASSUME NEW q \in DOMAIN v, Prefix(q, p), q # p PROVE FALSE
                <5>1. q \in Seq(Keys) /\ q # <<>> /\ q[1] = k
                    BY <2>1, <4>5
                <5>2. Len(q) < Len(p)
                    BY <1>1, <4>5, <5>1, PrefixOrder
                <5>3. Len(q) = 1
                    BY <4>1, <5>1, <5>2, EmptySeq, LenProperties
                <5>4. q = <<k>>
                    BY <5>1, <5>3, FirstKey
                <5> QED
                    BY <4>1, <5>4
            <4> QED
                BY <4>4, <4>5
        <3> QED
            BY <3>1, <3>2
    <2> HIDE DEF p, d
    <2>3. Agrees(Assigned(t, Steps(p), Json(d)), Overwritten(v, p, d), k) /\ k \in Children(Overwritten(v, p, d))
        <3>1. p # <<>> /\ k = p[1]
            BY DEF p
        <3> QED
            BY <1>1, <1>2, <1>3, <1>4, <2>2, <3>1, AssignAgrees
    <2> QED
        BY <1>1, <2>2, <2>3 DEF Kept
<1>5. CASE DOMAIN d = {}
    <2> DEFINE x == Overwritten(v, p, d)
    <2>1. /\ x = [q \in DOMAIN x |-> x[q]] /\ DOMAIN x \subseteq Seq(Keys)
          /\ \A q \in Seq(Keys) : q \in DOMAIN x <=> ~Prefix(p, q) /\ q \in DOMAIN v
          /\ \A q \in DOMAIN x : x[q] = v[q]
        <3>1. /\ x = [q \in DOMAIN x |-> x[q]] /\ DOMAIN x \subseteq Seq(Keys)
              /\ \A q \in Seq(Keys) :
                    q \in DOMAIN x <=> IF Prefix(p, q) THEN Below(p, q) \in DOMAIN d
                                       ELSE q \in DOMAIN v /\ (DOMAIN d = {} \/ ~Prefix(q, p))
              /\ \A q \in DOMAIN x : x[q] = IF Prefix(p, q) THEN d[Below(p, q)] ELSE v[q]
            BY <1>1, OverwrittenLeaves
        <3> QED
            BY <1>5, <3>1
    <2>2. k \in Children(v)
        <3>1. SUFFICES ASSUME k \notin Children(v) PROVE FALSE
            OBVIOUS
        <3>2. ASSUME NEW q \in DOMAIN v PROVE ~Prefix(p, q)
            <4>1. SUFFICES ASSUME Prefix(p, q) PROVE FALSE
                OBVIOUS
            <4>2. q \in Seq(Keys)
                BY <1>1
            <4>3. q # <<>> /\ q[1] = k
                BY <1>1, <4>1, <4>2, PrefixFirst
            <4> QED
                BY <3>1, <4>3 DEF Children
        <3>3. DOMAIN x = DOMAIN v
            BY <1>1, <2>1, <3>2
        <3>4. v \in [DOMAIN v -> Scalars]
            BY <1>1 DEF IsValue
        <3> HIDE DEF x
        <3>5. x = v
            BY <2>1, <3>3, <3>4
        <3> QED
            BY <1>1, <3>5 DEF x
    <2>3. Steps(<<k>>) \in DOMAIN t
        BY <1>2, <1>3, <2>2, AgreeingChild
    <2>4. u = Removed(t, Steps(p))
        BY <1>2, <1>5, <2>3 DEF PutResult
    <2>5. Agrees(u, x, k)
        BY <1>1, <1>2, <1>3, <1>5, <2>4, RemoveAgrees
    <2>6. ASSUME Steps(<<k>>) \in DOMAIN u PROVE k \in Children(x) \cup F
        <3>1. Len(p) # 1
            <4>1. SUFFICES ASSUME Len(p) = 1 PROVE FALSE
                OBVIOUS
            <4>2. p = <<k>>
                BY <1>1, <4>1, FirstKey
            <4>3. Prefix(Steps(p), Steps(p))
                BY <1>1, PrefixOrder, StepsPrefix
            <4>4. Steps(p) \notin DOMAIN u
                BY <2>4, <4>3 DEF Removed
            <4> QED
                BY <2>6, <4>2, <4>4
        <3>2. k \notin Children(x) => EmptiedBy(w, v)
            BY <1>1, <1>2, <2>2, <3>1 DEF EmptiedBy
        <3> QED
            BY <3>2
    <2> QED
        BY <1>1, <2>5, <2>6 DEF Kept
<1> QED
    BY <1>4, <1>5

\* A patch keeps every child that agrees.
LEMMA PatchKept ==
    ASSUME NEW t, Tree(t), NEW v, IsNode(v), NEW w, WellFormed(w), w.type = "patch",
           NEW u, PatchResult(t, w, u), Written(v, w) # v, NEW k \in Keys, NEW E, NEW F, E \subseteq F,
           IF w.path = <<>> THEN k \in DOMAIN w.fields ELSE k = w.path[1],
           Kept(t, v, E, k), w.path # <<>> => ~MangledBy(w, v, E), EmptiedBy(w, v) => k \in F
    PROVE  Kept(u, Written(v, w), F, k)
<1> DEFINE p == w.path
           fields == w.fields
           base == PatchBase(t, w)
           x == Merged(v, p, fields)
<1>1. /\ p \in Seq(Keys) /\ IsValue(v) /\ DOMAIN v \subseteq Seq(Keys) /\ <<>> \notin DOMAIN v
      /\ DOMAIN fields \subseteq Keys /\ \A f \in DOMAIN fields : IsValue(fields[f])
      /\ Written(v, w) = x /\ DOMAIN t \subseteq Paths /\ <<>> \in DOMAIN t
    BY DEF WellFormed, IsNode, IsValue, Written, Tree, Branch
<1>2. Agrees(t, v, k) /\ (Steps(<<k>>) \in DOMAIN t => k \in Children(v) \cup E) /\ <<k>> \in Seq(Keys)
    BY DEF Kept
<1>3. p # <<>> => p[1] = k /\ <<k>> \notin DOMAIN v /\ (Len(p) > 1 => IsObject(v, p))
    BY DEF MangledBy
<1>4. IsValue(x) /\ DOMAIN x \subseteq Seq(Keys)
    BY <1>1, MergedIsValue DEF IsValue
<1>5. ASSUME NEW f \in DOMAIN fields, NEW r \in DOMAIN fields[f] PROVE (p = <<>> => k = f) => k \in Children(x)
    <2> DEFINE a == FieldV(p, f)
               b == a \o r
    <2>1. f \in Keys /\ r \in Seq(Keys)
        BY <1>1 DEF IsValue
    <2>2. a \in Seq(Keys) /\ a # <<>> /\ Prefix(p, a) /\ \A y \in Seq(Keys) : Prefix(a, y) => y[Len(p) + 1] = f
        BY <1>1, <2>1, OneLonger DEF FieldV
    <2>3. \A y \in Seq(Keys) : Prefix(a, y) => (y \in DOMAIN x <=> Below(a, y) \in DOMAIN fields[f])
        BY <1>1, MergedLeaves
    <2> HIDE DEF a
    <2>4. b \in Seq(Keys) /\ Prefix(a, b) /\ Below(a, b) = r
        BY <2>1, <2>2, PrefixConcat
    <2> HIDE DEF b, x
    <2>5. b \in DOMAIN x
        BY <2>3, <2>4
    <2>6. b # <<>> /\ b[1] = a[1]
        BY <2>2, <2>4, PrefixFirst
    <2>7. p # <<>> => a[1] = p[1]
        BY <1>1, <2>2, PrefixFirst
    <2>8. p = <<>> => b[1] = f
        BY <2>2, <2>4
    <2> QED
        BY <1>3, <2>5, <2>6, <2>7, <2>8 DEF Children
<1>6. CASE Steps(p) \in DOMAIN t
    <2>1. base = t /\ t[Steps(p)] = Obj /\ u = Patched(t, Steps(p), fields)
        BY <1>6 DEF PatchResult, PatchBase, PatchDest
    <2>2. Agrees(u, x, k)
        BY <1>1, <1>2, <1>3, <1>6, <2>1, PatchAgrees
    <2>3. ASSUME Steps(<<k>>) \in DOMAIN u PROVE k \in Children(x) \cup F
        <3>1. CASE p = <<>>
            <4>1. k \in DOMAIN fields /\ Steps(p) = <<>> /\ Steps(<<k>>) = <<<<k>>>> /\ Steps(<<k>>) \in Paths
                <5>1. k \in DOMAIN fields
                    BY <3>1
                <5>2. Steps(p) = <<>>
                    BY <1>1, <3>1, StepsPath
                <5>3. Steps(<<k>>) = <<<<k>>>> /\ Steps(<<k>>) \in Paths
                    BY <1>2, StepsOfOne, StepsPath
                <5> QED
                    BY <5>1, <5>2, <5>3
            <4>2. Field(Steps(p), k) = Steps(<<k>>)
                BY <4>1, ConcatEmptySeq DEF Field, Paths
            <4>3. Prefix(Field(Steps(p), k), Steps(<<k>>))
                <5>1. Prefix(Steps(<<k>>), Steps(<<k>>))
                    BY <4>1, PrefixOrder DEF Paths
                <5> QED
                    BY <4>2, <5>1
            <4>4. Steps(<<k>>) \in DOMAIN u => DOMAIN fields[k] # {}
                <5>1. Steps(p) \in Paths
                    BY <1>1, StepsPath
                <5> QED
                    BY <1>1, <2>1, <4>1, <4>3, <5>1, PatchedTokens
            <4> QED
                BY <1>5, <2>3, <4>1, <4>4
        <3>2. CASE p # <<>>
            <4>1. Prefix(Steps(<<k>>), Steps(p)) /\ Steps(<<k>>) \in Paths
                BY <1>1, <1>2, <1>3, <3>2, StepsFirst, StepsPath
            <4>2. Steps(<<k>>) \in DOMAIN t
                BY <1>6, <4>1 DEF Tree, Branch
            <4>3. k \in Children(v) \ Children(x) => EmptiedBy(w, v)
                BY <1>1, <1>3, <3>2 DEF EmptiedBy
            <4> QED
                BY <1>2, <4>2, <4>3
        <3> QED
            BY <3>1, <3>2
    <2> QED
        BY <1>1, <2>2, <2>3 DEF Kept
<1>7. CASE Steps(p) \notin DOMAIN t
    <2>1. p # <<>>
        BY <1>1, <1>7, StepsPath
    <2>2. Len(p) = 1
        <3>1. Len(p) \in Nat \ {0}
            BY <1>1, <2>1, EmptySeq, LenProperties
        <3>2. ~IsObject(v, p)
            BY <1>1, <1>2, <1>3, <1>7, <2>1, AgreeingChild
        <3>3. ~(Len(p) > 1)
            BY <1>3, <2>1, <3>2
        <3> QED
            BY <3>1, <3>3, OneOrMore
    <2>3. p = <<k>> /\ Steps(p) = Joined(p) /\ Steps(p) \in Paths /\ Steps(p) # <<>> /\ Steps(p)[1][1] = k
        BY <1>1, <1>3, <2>1, <2>2, FirstKey, StepsOfOne, StepsFirst, StepsPath
    <2>4. base = Assigned(t, Steps(p), EmptyObject) /\ base[Steps(p)] = Obj /\ u = Patched(base, Steps(p), fields)
        BY <1>7, <2>3 DEF PatchResult, PatchBase, PatchDest
    <2>5. k \notin Children(v)
        BY <1>2, <1>7, <2>3, AgreeingChild
    <2>6. /\ DOMAIN base \subseteq Paths
          /\ \A y \in Paths : y \in DOMAIN base
                <=> IF Prefix(Steps(p), y) THEN Below(Steps(p), y) \in DOMAIN EmptyObject ELSE y \in DOMAIN t
          /\ \A y \in DOMAIN base : base[y] = IF Prefix(Steps(p), y) THEN EmptyObject[Below(Steps(p), y)] ELSE t[y]
        <3>1. <<>> \in Paths
            BY EmptySeq DEF Paths
        <3>2. DOMAIN EmptyObject \subseteq Paths
            BY <3>1 DEF EmptyObject
        <3> QED
            BY <1>1, <2>3, <2>4, <3>2, AssignedTokens
    <2>7. Steps(p) \in DOMAIN base
        <3> DEFINE s == Steps(p)
                   e == <<>>
        <3>1. s \in Seq(Names0) /\ e \in Seq(Names0) /\ s \o e = s
            BY <2>3, ConcatEmptySeq DEF Paths
        <3> HIDE DEF s, e
        <3>2. Prefix(s, s \o e) /\ Below(s, s \o e) = e
            BY <3>1, PrefixConcat
        <3>3. Prefix(s, s) /\ Below(s, s) \in DOMAIN EmptyObject
            BY <3>1, <3>2 DEF e, EmptyObject
        <3> QED
            BY <2>3, <2>6, <3>3 DEF s
    <2>8. Tree(base)
        <3>1. Branch(EmptyObject)
            BY EmptyTree DEF Tree
        <3>2. Steps(p)[1] # <<>>
            <4>1. Steps(p)[1] = <<p[1]>>
                BY <1>1, <2>1, StepsFirst
            <4> QED
                BY <4>1
        <3>3. Room(t, Steps(p))
            <4>1. ASSUME NEW q \in Paths, Prefix(q, Steps(p)), q # Steps(p) PROVE q = <<>>
                <5>1. PICK y \in Seq(Keys) : Prefix(y, p) /\ q = Steps(y)
                    BY <1>1, <4>1, PrefixOfSteps
                <5>2. y # p
                    BY <4>1, <5>1
                <5>3. Len(y) < 1 /\ Len(y) \in Nat
                    BY <1>1, <2>2, <5>1, <5>2, PrefixOrder, LenProperties
                <5>4. y = <<>>
                    BY <5>3, EmptySeq
                <5> QED
                    BY <5>1, <5>4, StepsPath
            <4> QED
                BY <4>1 DEF Room, Tree, Branch
        <3> QED
            BY <2>3, <2>4, <3>1, <3>2, <3>3, AssignedTree
    <2>9. Agrees(base, v, k)
        <3>1. ASSUME NEW q \in DOMAIN v, Prefix(<<k>>, q) PROVE FALSE
            BY <1>1, <2>5, <3>1, ChildrenAre
        <3>2. ASSUME NEW y \in DOMAIN base, In(y, k), base[y] # Obj PROVE \E q \in DOMAIN v : y = Steps(q)
            <4>1. y \in Paths
                BY <2>6
            <4>2. ~Prefix(Steps(p), y)
                BY <2>6, <3>2, <4>1 DEF EmptyObject
            <4>3. y \in DOMAIN t /\ t[y] # Obj
                BY <2>6, <3>2, <4>1, <4>2
            <4> QED
                BY <1>2, <3>2, <4>3 DEF Agrees
        <3> QED
            BY <3>1, <3>2 DEF Agrees
    <2>10. Agrees(u, x, k)
        <3> HIDE DEF base
        <3> QED
            BY <1>1, <1>3, <2>4, <2>7, <2>8, <2>9, PatchAgrees
    <2>11. k \in Children(x)
        <3>1. SUFFICES ASSUME \A f \in DOMAIN fields : DOMAIN fields[f] = {} PROVE FALSE
            BY <1>5, <2>1
        <3>2. /\ x = [q \in DOMAIN x |-> x[q]]
              /\ \A q \in Seq(Keys) : \A f \in DOMAIN fields : Prefix(FieldV(p, f), q) => q \notin DOMAIN x
              /\ \A q \in Seq(Keys) : (\A f \in DOMAIN fields : ~Prefix(FieldV(p, f), q)) =>
                    /\ q \in DOMAIN x <=> q \in DOMAIN v
                    /\ q \in DOMAIN x => x[q] = v[q]
            <4>1. /\ x = [q \in DOMAIN x |-> x[q]]
                  /\ \A q \in Seq(Keys) : \A f \in DOMAIN fields : Prefix(FieldV(p, f), q) =>
                        /\ q \in DOMAIN x <=> Below(FieldV(p, f), q) \in DOMAIN fields[f]
                        /\ q \in DOMAIN x => x[q] = fields[f][Below(FieldV(p, f), q)]
                  /\ \A q \in Seq(Keys) : (\A f \in DOMAIN fields : ~Prefix(FieldV(p, f), q)) =>
                        /\ q \in DOMAIN x <=> q \in DOMAIN v /\ ((\A f \in DOMAIN fields : DOMAIN fields[f] = {}) \/ ~Prefix(q, p))
                        /\ q \in DOMAIN x => x[q] = v[q]
                <5> HIDE DEF fields
                <5> QED
                    BY <1>1, MergedLeaves
            <4> HIDE DEF x, fields
            <4> QED
                BY <3>1, <4>1
        <3>3. ASSUME NEW q \in DOMAIN v, NEW f \in DOMAIN fields, Prefix(FieldV(p, f), q) PROVE FALSE
            <4>1. f \in Keys /\ q \in Seq(Keys)
                BY <1>1
            <4>2. Prefix(p, q)
                BY <1>1, <3>3, <4>1, OneLonger DEF FieldV
            <4> QED
                BY <1>1, <2>3, <2>5, <4>2, ChildrenAre
        <3>4. v \in [DOMAIN v -> Scalars]
            BY <1>1 DEF IsValue
        <3> HIDE DEF x
        <3>5. DOMAIN x = DOMAIN v
            BY <1>1, <1>4, <3>2, <3>3
        <3>6. \A q \in DOMAIN v : x[q] = v[q]
            BY <1>1, <3>2, <3>3, <3>5
        <3>7. x = v
            BY <3>2, <3>4, <3>5, <3>6
        <3> QED
            BY <1>1, <3>7 DEF x
    <2> QED
        BY <1>1, <2>10, <2>11 DEF Kept
<1> QED
    BY <1>6, <1>7

\* A put of the whole node makes any copy right.
IsRootPut(w) == w.type = "put" /\ w.path = <<>>

\* One event keeps every child that agrees, and was not written in a way that is mishandled.
LEMMA EventKept ==
    ASSUME NEW t, NEW v, IsNode(v), NEW w, WellFormed(w), NEW E, NEW F, NEW M, E \subseteq F,
           NEW u, Result(t, w, u), Good(t, v, E, M) \/ IsRootPut(w), IsRootPut(w) \/ Written(v, w) # v,
           MangledBy(w, v, E) => w.path[1] \in M, EmptiedBy(w, v) => w.path[1] \in F
    PROVE  Good(u, Written(v, w), F, M)
<1>1. CASE IsRootPut(w)
    BY <1>1, RootPut DEF IsRootPut, Result
<1>2. CASE ~IsRootPut(w)
    <2> DEFINE K == IF w.type = "put" THEN {w.path[1]} ELSE Patches(w.path, w.fields)
               x == Written(v, w)
    <2>1. /\ w.path # <<>> \/ w.type = "patch"
          /\ w.type = "put" => w.path # <<>>
          /\ w.type = "put" \/ w.type = "patch"
        BY <1>2 DEF IsRootPut, WellFormed
    <2>2. Tree(t) /\ \A k \in Keys \ M : Kept(t, v, E, k)
        BY <1>2 DEF Good
    <2>3. Tree(u) /\ SameOff(t, u, K)
        BY <2>1, <2>2, ResultTree
    <2>4. SameOffV(v, x, K) /\ IsNode(x)
        <3>0. IsValue(v)
            BY DEF IsNode
        <3>1. IsNode(x)
            BY WrittenIsNode
        <3>2. CASE w.type = "put"
            <4>1. x = Overwritten(v, w.path, w.data) /\ IsValue(w.data) /\ w.path \in Seq(Keys)
                BY <3>2 DEF Written, WellFormed
            <4> QED
                BY <2>1, <3>0, <3>1, <3>2, <4>1, OverwrittenElsewhere
        <3>3. CASE w.type = "patch"
            <4>1. /\ x = Merged(v, w.path, w.fields) /\ w.path \in Seq(Keys)
                  /\ DOMAIN w.fields \subseteq Keys /\ \A f \in DOMAIN w.fields : IsValue(w.fields[f])
                BY <3>3 DEF Written, WellFormed
            <4> QED
                BY <3>0, <3>1, <3>3, <4>1, MergedElsewhere
        <3> QED
            BY <2>1, <3>2, <3>3
    <2>5. ASSUME NEW k \in Keys \ M, k \notin K PROVE Kept(u, x, F, k)
        <3>1. DOMAIN t \subseteq Paths /\ DOMAIN u \subseteq Paths /\ Kept(t, v, E, k) /\ k \in Keys \ K
            BY <2>2, <2>3, <2>5 DEF Tree, Branch
        <3> HIDE DEF K, x
        <3> QED
            BY <2>3, <2>4, <3>1, OthersKept
    <2>6. ASSUME NEW k \in Keys \ M, k \in K PROVE Kept(u, x, F, k)
        <3>1. Kept(t, v, E, k) /\ Written(v, w) # v /\ k \in Keys
            BY <1>2, <2>2
        <3>2. CASE w.type = "put"
            <4>1. k = w.path[1] /\ w.path # <<>> /\ PutResult(t, w, u)
                BY <2>1, <2>6, <3>2 DEF Result
            <4>2. ~MangledBy(w, v, E) /\ (EmptiedBy(w, v) => k \in F)
                BY <2>6, <4>1
            <4> QED
                BY <2>2, <3>1, <3>2, <4>1, <4>2, PutKept
        <3>3. CASE w.type = "patch"
            <4>1. PatchResult(t, w, u) /\ IF w.path = <<>> THEN k \in DOMAIN w.fields ELSE k = w.path[1]
                BY <2>6, <3>3 DEF Result, Patches
            <4>2. (w.path # <<>> => ~MangledBy(w, v, E)) /\ (EmptiedBy(w, v) => k \in F)
                <5>1. EmptiedBy(w, v) => w.path # <<>>
                    BY <3>3 DEF EmptiedBy
                <5> QED
                    BY <2>6, <4>1, <5>1
            <4> QED
                BY <2>2, <3>1, <3>3, <4>1, <4>2, PatchKept
        <3> QED
            BY <2>1, <3>2, <3>3
    <2> QED
        BY <2>3, <2>5, <2>6 DEF Good
<1> QED
    BY <1>1, <1>2

\* A write whose event the client fails to handle was one of the mishandled kinds.
LEMMA ThrowsIfMangled ==
    ASSUME NEW t, NEW v, IsNode(v), NEW w, WellFormed(w), NEW E, NEW M, Good(t, v, E, M),
           IsRootPut(w) \/ Written(v, w) # v, MangledBy(w, v, E) => w.path[1] \in M,
           IF w.type = "patch" THEN PatchDest(t, w) \in DOMAIN t /\ t[PatchDest(t, w)] # Obj
           ELSE /\ w.path # <<>> /\ ChildKey(w) \in DOMAIN t
                /\ IF DOMAIN w.data # {} THEN t[ChildKey(w)] # Obj ELSE Steps(w.path) \notin DOMAIN t
    PROVE  w.path # <<>> /\ w.path[1] \in M
<1> DEFINE p == w.path
           k == w.path[1]
<1>1. /\ p \in Seq(Keys) /\ IsValue(v) /\ DOMAIN v \subseteq Seq(Keys) /\ <<>> \notin DOMAIN v
      /\ Tree(t) /\ <<>> \in DOMAIN t /\ t[<<>>] = Obj /\ DOMAIN t \subseteq Paths
    BY DEF WellFormed, IsNode, IsValue, Good, Tree, Branch
<1>2. p # <<>>
    <2>1. p = <<>> => Steps(p) = <<>>
        BY <1>1, StepsPath
    <2> QED
        BY <1>1, <2>1 DEF PatchDest, WellFormed
<1>3. /\ k \in Keys /\ ChildKey(w) = Steps(<<k>>) /\ <<k>> \in Seq(Keys)
      /\ Len(p) \in Nat \ {0} /\ (Len(p) = 1 => p = <<k>> /\ Joined(p) = Steps(p))
    <2>1. k \in Keys /\ SubSeq(p, 1, 1) = <<k>> /\ <<k>> \in Seq(Keys) /\ (Len(p) = 1 => p = <<k>>)
        BY <1>1, <1>2, FirstKey
    <2>2. Len(p) = 1 => Steps(p) = Joined(p)
        BY <1>1, <2>1, StepsOfOne
    <2>3. Len(p) \in Nat \ {0}
        BY <1>1, <1>2, EmptySeq, LenProperties
    <2> QED
        BY <2>1, <2>2, <2>3 DEF ChildKey
<1>4. SUFFICES ASSUME k \notin M PROVE FALSE
    BY <1>2
<1>5. Agrees(t, v, k) /\ ~MangledBy(w, v, E) /\ Kept(t, v, E, k)
    BY <1>3, <1>4 DEF Good, Kept
<1>6. ASSUME NEW q \in Seq(Keys), q # <<>>, q[1] = k, Steps(q) \in DOMAIN t, t[Steps(q)] # Obj
      PROVE  q \in DOMAIN v
    <2>1. In(Steps(q), k)
        BY <1>6, StepsFirst DEF In
    <2>2. PICK l \in DOMAIN v : Steps(q) = Steps(l)
        BY <1>5, <1>6, <2>1 DEF Agrees
    <2>3. l \in Seq(Keys)
        BY <1>1
    <2> QED
        BY <1>6, <2>2, <2>3, StepsPrefix
<1>7. CASE w.type = "patch"
    <2>1. <<k>> \notin DOMAIN v /\ (Len(p) > 1 => IsObject(v, p))
        BY <1>2, <1>5, <1>7 DEF MangledBy
    <2>2. Len(p) > 1 => Steps(p) \in DOMAIN t /\ t[Steps(p)] = Obj
        BY <1>1, <1>2, <1>3, <1>5, <2>1, AgreeingChild
    <2>3. Len(p) = 1 => p = <<k>> /\ Steps(p) \in DOMAIN t /\ t[Steps(p)] # Obj
        BY <1>3, <1>7 DEF PatchDest
    <2>4. ~(Len(p) > 1)
        BY <1>7, <2>2 DEF PatchDest
    <2>5. Len(p) = 1
        BY <1>3, <2>4, OneOrMore
    <2> QED
        BY <1>1, <1>2, <1>6, <2>1, <2>3, <2>5
<1>8. CASE w.type = "put"
    <2>1. Steps(<<k>>) \in DOMAIN t /\ IF DOMAIN w.data # {} THEN t[Steps(<<k>>)] # Obj ELSE Steps(p) \notin DOMAIN t
        BY <1>3, <1>8
    <2>2. CASE DOMAIN w.data # {}
        <3>1. <<k>> \in DOMAIN v
            <4> DEFINE h == <<k>>
            <4>1. h \in Seq(Keys) /\ h # <<>> /\ h[1] = k /\ Steps(h) \in DOMAIN t /\ t[Steps(h)] # Obj
                BY <1>3, <2>1, <2>2
            <4> HIDE DEF h
            <4>2. h \in DOMAIN v
                BY <1>6, <4>1
            <4> QED
                BY <4>2 DEF h
        <3>2. k \in Children(v)
            <4>1. <<k>> # <<>> /\ <<k>>[1] = k
                OBVIOUS
            <4> QED
                BY <3>1, <4>1 DEF Children
        <3>3. CASE Len(p) = 1
            BY <1>2, <1>5, <1>8, <2>2, <3>2, <3>3 DEF MangledBy
        <3>4. CASE Len(p) > 1
            BY <1>2, <1>5, <1>8, <2>2, <3>1, <3>4 DEF MangledBy
        <3> QED
            BY <1>3, <3>3, <3>4, OneOrMore
    <2>3. CASE DOMAIN w.data = {}
        <3> DEFINE d == w.data
                   x == Overwritten(v, p, d)
        <3>0. IsValue(d) /\ Written(v, w) = x
            BY <1>8 DEF WellFormed, Written
        <3>1. /\ x = [q \in DOMAIN x |-> x[q]] /\ DOMAIN x \subseteq Seq(Keys)
              /\ \A q \in Seq(Keys) :
                    q \in DOMAIN x <=> IF Prefix(p, q) THEN Below(p, q) \in DOMAIN d
                                       ELSE q \in DOMAIN v /\ (DOMAIN d = {} \/ ~Prefix(q, p))
              /\ \A q \in DOMAIN x : x[q] = IF Prefix(p, q) THEN d[Below(p, q)] ELSE v[q]
            BY <1>1, <3>0, OverwrittenLeaves
        <3>2. ASSUME NEW q \in DOMAIN v PROVE ~Prefix(p, q)
            <4>1. SUFFICES ASSUME Prefix(p, q) PROVE FALSE
                OBVIOUS
            <4>2. q \in Seq(Keys) /\ q # <<>> /\ q[1] = k
                BY <1>1, <1>2, <4>1, PrefixFirst
            <4>3. Prefix(<<k>>, q)
                BY <1>3, <4>2, PrefixOfOne
            <4>4. Steps(q) \in DOMAIN t
                BY <1>5, <4>3 DEF Agrees
            <4>5. Prefix(Steps(p), Steps(q)) /\ Steps(p) \in Paths
                BY <1>1, <4>1, <4>2, StepsPrefix, StepsPath
            <4>6. Steps(p) \in DOMAIN t
                BY <1>1, <4>4, <4>5 DEF Tree, Branch
            <4> QED
                BY <2>1, <2>3, <4>6
        <3>3. v \in [DOMAIN v -> Scalars]
            BY <1>1 DEF IsValue
        <3>4. Written(v, w) # v
            BY <1>2 DEF IsRootPut
        <3>5. DOMAIN d = {}
            BY <2>3
        <3> HIDE DEF x, d, p
        <3>6. DOMAIN x = DOMAIN v
            BY <1>1, <3>1, <3>2, <3>5
        <3>7. x = v
            BY <1>1, <3>1, <3>2, <3>3, <3>6
        <3> QED
            BY <3>0, <3>4, <3>7
    <2> QED
        BY <2>2, <2>3
<1> QED
    BY <1>7, <1>8 DEF WellFormed

-----------------------------------------------------------------------------
(* What the subscriber sees *)

\* Of a child that agrees, the copy shows what the value has.
LEMMA TrimmedChild ==
    ASSUME NEW t, Tree(t), NEW v, IsNode(v), NEW k \in Keys, Agrees(t, v, k), NEW x \in Paths, In(x, k)
    PROVE  /\ x \in DOMAIN Trimmed(t) <=> x \in DOMAIN View(v)
           /\ x \in DOMAIN Trimmed(t) => Trimmed(t)[x] = View(v)[x]
<1>1. IsValue(v) /\ DOMAIN v \subseteq Seq(Keys) /\ <<>> \notin DOMAIN v /\ x # <<>> /\ DOMAIN t \subseteq Paths
    BY DEF IsNode, IsValue, In, Tree, Branch
<1>2. x \in DOMAIN Trimmed(t) <=> x \in DOMAIN t /\ \E q \in DOMAIN t : Prefix(x, q) /\ t[q] # Obj
    BY <1>1 DEF Trimmed
<1>3. x \in DOMAIN Trimmed(t) => Trimmed(t)[x] = t[x]
    BY DEF Trimmed
<1>4. DOMAIN v # {} =>
        /\ View(v) = Json(v)
        /\ DOMAIN View(v) = {Steps(q) : q \in {q \in Seq(Keys) : Above(v, q)}}
        /\ \A q \in Seq(Keys) : Above(v, q) => View(v)[Steps(q)] = IF q \in DOMAIN v THEN v[q] ELSE Obj
    BY <1>1, JsonTokens DEF View
<1>5. DOMAIN v = {} => x \notin DOMAIN View(v)
    BY <1>1 DEF View, EmptyObject
<1>6. ASSUME x \in DOMAIN Trimmed(t) PROVE x \in DOMAIN View(v) /\ t[x] = View(v)[x]
    <2>1. PICK q \in DOMAIN t : Prefix(x, q) /\ t[q] # Obj
        BY <1>2, <1>6
    <2>2. q \in Paths /\ In(q, k)
        BY <1>1, <2>1, PrefixFirst DEF In, Paths
    <2>3. PICK l \in DOMAIN v : q = Steps(l)
        BY <2>1, <2>2 DEF Agrees
    <2>4. l \in Seq(Keys)
        BY <1>1
    <2>5. PICK y \in Seq(Keys) : Prefix(y, l) /\ x = Steps(y)
        BY <2>1, <2>3, <2>4, PrefixOfSteps
    <2>6. Above(v, y) /\ DOMAIN v # {}
        BY <2>5 DEF Above
    <2>7. x \in DOMAIN View(v) /\ View(v)[x] = IF y \in DOMAIN v THEN v[y] ELSE Obj
        BY <1>4, <2>5, <2>6
    <2>8. CASE y \in DOMAIN v
        <3>1. y = l
            BY <1>1, <2>5, <2>8 DEF IsValue
        <3>2. y # <<>> /\ y[1] = k
            BY <1>1, <2>5, <2>8, StepsFirst DEF In
        <3>3. Prefix(<<k>>, y)
            BY <3>2, PrefixOfOne
        <3>4. t[Steps(y)] = v[y]
            BY <2>8, <3>3 DEF Agrees
        <3> QED
            BY <2>5, <2>7, <2>8, <3>4
    <2>9. CASE y \notin DOMAIN v
        <3>1. x # q
            BY <2>3, <2>4, <2>5, <2>9, StepsPrefix
        <3>2. t[x] = Obj
            BY <2>1, <3>1 DEF Tree, Branch
        <3> QED
            BY <2>7, <2>9, <3>2
    <2> QED
        BY <2>8, <2>9
<1>7. ASSUME x \in DOMAIN View(v) PROVE x \in DOMAIN Trimmed(t)
    <2>1. DOMAIN v # {}
        BY <1>5, <1>7
    <2>2. PICK y \in Seq(Keys) : Above(v, y) /\ x = Steps(y)
        BY <1>4, <1>7, <2>1
    <2>3. PICK l \in DOMAIN v : Prefix(y, l)
        BY <2>2 DEF Above
    <2>4. l \in Seq(Keys) /\ v[l] \in Scalars
        BY <1>1 DEF IsValue
    <2>5. y # <<>>
        BY <1>1, <2>2, StepsPath
    <2>6. l # <<>> /\ l[1] = y[1] /\ y[1] = k
        <3>1. l # <<>> /\ l[1] = y[1]
            BY <2>2, <2>3, <2>4, <2>5, PrefixFirst
        <3>2. Steps(y)[1][1] = y[1]
            BY <2>2, <2>5, StepsFirst
        <3> QED
            BY <2>2, <3>1, <3>2 DEF In
    <2>7. Prefix(<<k>>, l)
        BY <2>4, <2>6, PrefixOfOne
    <2>8. Steps(l) \in DOMAIN t /\ t[Steps(l)] # Obj
        BY <2>4, <2>7, TokensDiffer DEF Agrees
    <2>9. Prefix(x, Steps(l))
        BY <2>2, <2>3, <2>4, StepsPrefix
    <2>10. x \in DOMAIN t
        BY <2>8, <2>9 DEF Tree, Branch
    <2> QED
        BY <1>2, <2>8, <2>9, <2>10
<1> QED
    BY <1>3, <1>6, <1>7

\* Trees with the same tokens in a child show the same child.
LEMMA SameSubTree ==
    ASSUME NEW a, NEW b, NEW s \in Paths, DOMAIN a \subseteq Paths, DOMAIN b \subseteq Paths,
           \A x \in Paths : Prefix(s, x) => (x \in DOMAIN a <=> x \in DOMAIN b) /\ (x \in DOMAIN a => a[x] = b[x])
    PROVE  SubTree(a, s) = SubTree(b, s)
<1> DEFINE at(t) == {q \in DOMAIN t : Prefix(s, q)}
           rest(t) == {Below(s, q) : q \in at(t)}
<1>1. SubTree(a, s) = [r \in rest(a) |-> a[s \o r]] /\ SubTree(b, s) = [r \in rest(b) |-> b[s \o r]]
    BY DEF SubTree
<1>2. at(a) = at(b)
    OBVIOUS
<1>3. rest(a) = rest(b)
    BY <1>2
<1>4. ASSUME NEW r \in rest(a) PROVE a[s \o r] = b[s \o r]
    <2>1. PICK q \in at(a) : r = Below(s, q)
        BY <1>4
    <2>2. q \in Paths /\ Prefix(s, q) /\ q \in DOMAIN a
        BY <2>1
    <2> HIDE DEF at, rest
    <2>3. q = s \o Below(s, q)
        BY <2>2, PrefixSplit DEF Paths
    <2>4. s \o r = q
        BY <2>1, <2>3
    <2> QED
        BY <2>2, <2>4
<1> HIDE DEF rest
<1> QED
    BY <1>1, <1>3, <1>4

\* What a subscriber should see is a tree.
LEMMA ViewTree ==
    ASSUME NEW v, IsNode(v)
    PROVE  /\ Tree(View(v)) /\ View(v) = [x \in DOMAIN View(v) |-> View(v)[x]] /\ DOMAIN View(v) \subseteq Paths
           /\ <<>> \in DOMAIN View(v) /\ View(v)[<<>>] = Obj
           /\ \A x \in DOMAIN View(v) : x # <<>> => x[1] \in Names0 /\ x[1] = <<x[1][1]>> /\ x[1][1] \in Keys
<1>1. Tree(View(v))
    BY NodeJson
<1>2. ASSUME NEW x \in DOMAIN View(v), x # <<>>
      PROVE  x[1] \in Names0 /\ x[1] = <<x[1][1]>> /\ x[1][1] \in Keys
    <2>1. IsValue(v) /\ DOMAIN v # {}
        BY <1>2 DEF IsNode, View, EmptyObject
    <2>2. DOMAIN View(v) = {Steps(q) : q \in {q \in Seq(Keys) : Above(v, q)}}
        BY <2>1, JsonTokens DEF View
    <2>3. PICK q \in Seq(Keys) : x = Steps(q)
        BY <1>2, <2>2
    <2>4. q # <<>>
        BY <1>2, <2>3, StepsPath
    <2>5. x[1] = <<q[1]>> /\ q[1] \in Keys
        BY <2>3, <2>4, StepsFirst
    <2>6. <<q[1]>>[1] = q[1] /\ <<q[1]>> \in Names0
        BY <2>5, StepsOfOne DEF Names0
    <2> QED
        BY <2>5, <2>6
<1> QED
    BY <1>1, <1>2 DEF Tree, Branch

\* What a subscriber sees is a tree, without the objects that hold nothing.
LEMMA TrimmedTree ==
    ASSUME NEW t, Tree(t)
    PROVE  /\ Trimmed(t) = [x \in DOMAIN Trimmed(t) |-> Trimmed(t)[x]] /\ DOMAIN Trimmed(t) \subseteq Paths
           /\ <<>> \in DOMAIN Trimmed(t) /\ Trimmed(t)[<<>>] = Obj
           /\ \A x \in DOMAIN Trimmed(t) : x # <<>> => x[1] \in Names0 /\ x[1] # <<>> /\ x[1][1] \in Keys
<1>1. DOMAIN Trimmed(t) \subseteq DOMAIN t /\ \A x \in DOMAIN Trimmed(t) : Trimmed(t)[x] = t[x]
    BY DEF Trimmed
<1>2. Trimmed(t) = [x \in DOMAIN Trimmed(t) |-> Trimmed(t)[x]] /\ <<>> \in DOMAIN Trimmed(t)
    BY DEF Trimmed, Tree, Branch
<1>3. DOMAIN t \subseteq Paths /\ <<>> \in DOMAIN t /\ t[<<>>] = Obj
    BY DEF Tree, Branch
<1>4. ASSUME NEW x \in DOMAIN t, x # <<>> PROVE x[1] \in Names0 /\ x[1] # <<>> /\ x[1][1] \in Keys
    <2>1. x \in Seq(Names0)
        BY <1>3 DEF Paths
    <2>2. 1 \in 1..Len(x)
        BY <1>4, <2>1, EmptySeq, LenProperties
    <2>3. x[1] \in Names0 /\ x[1] # <<>>
        BY <1>4, <2>1, <2>2, ElementOfSeq DEF Tree
    <2> DEFINE n == x[1]
    <2>4. n \in Seq(Keys) /\ n # <<>>
        BY <2>3 DEF Names0
    <2> HIDE DEF n
    <2>5. 1 \in 1..Len(n)
        BY <2>4, EmptySeq, LenProperties
    <2>6. n[1] \in Keys
        BY <2>4, <2>5, ElementOfSeq
    <2> QED
        BY <2>3, <2>6 DEF n
<1> QED
    BY <1>1, <1>2, <1>3, <1>4

\* Unless something was mishandled, the copy shows the node.
LEMMA CopyIsView ==
    ASSUME NEW t, NEW v, IsNode(v), NEW E, Good(t, v, E, {})
    PROVE  Trimmed(t) = View(v)
<1>1. Tree(t) /\ \A k \in Keys : Agrees(t, v, k)
    BY DEF Good, Kept
<1> DEFINE a == Trimmed(t)
           b == View(v)
<1>2. /\ a = [x \in DOMAIN a |-> a[x]] /\ DOMAIN a \subseteq Paths /\ <<>> \in DOMAIN a /\ a[<<>>] = Obj
      /\ \A x \in DOMAIN a : x # <<>> => x[1][1] \in Keys
    BY <1>1, TrimmedTree
<1>3. /\ b = [x \in DOMAIN b |-> b[x]] /\ DOMAIN b \subseteq Paths /\ <<>> \in DOMAIN b /\ b[<<>>] = Obj
      /\ \A x \in DOMAIN b : x # <<>> => x[1][1] \in Keys
    BY ViewTree
<1>4. ASSUME NEW x \in Paths, x # <<>>, x[1][1] \in Keys
      PROVE  (x \in DOMAIN a <=> x \in DOMAIN b) /\ (x \in DOMAIN a => a[x] = b[x])
    <2> DEFINE k == x[1][1]
    <2>1. k \in Keys /\ Agrees(t, v, k) /\ In(x, k)
        BY <1>1, <1>4 DEF In
    <2> HIDE DEF k
    <2> QED
        BY <1>1, <2>1, TrimmedChild
<1> HIDE DEF a, b
<1>5. DOMAIN a = DOMAIN b
    BY <1>2, <1>3, <1>4
<1>6. \A x \in DOMAIN a : a[x] = b[x]
    BY <1>2, <1>3, <1>4
<1>7. a = b
    BY <1>2, <1>3, <1>5, <1>6
<1> QED
    BY <1>7 DEF a, b

\* What was mishandled stays within the children concerned.
LEMMA ChildrenAgree ==
    ASSUME NEW t, NEW v, IsNode(v), NEW E, NEW M, Good(t, v, E, M),
           NEW n \in Names(Trimmed(t)) \cup Names(View(v))
    PROVE  n[1] \in M \/ SubTree(Trimmed(t), <<n>>) = SubTree(View(v), <<n>>)
<1>1. SUFFICES ASSUME n[1] \notin M PROVE SubTree(Trimmed(t), <<n>>) = SubTree(View(v), <<n>>)
    OBVIOUS
<1>2. Tree(t)
    BY DEF Good
<1>3. n \in Names0 /\ n[1] \in Keys
    <2>1. CASE n \in Names(Trimmed(t))
        <3>1. PICK x \in DOMAIN Trimmed(t) : x # <<>> /\ n = x[1]
            BY <2>1 DEF Names
        <3> QED
            BY <1>2, <3>1, TrimmedTree
    <2>2. CASE n \in Names(View(v))
        <3>1. PICK x \in DOMAIN View(v) : x # <<>> /\ n = x[1]
            BY <2>2 DEF Names
        <3> QED
            BY <3>1, ViewTree
    <2> QED
        BY <2>1, <2>2
<1>4. Agrees(t, v, n[1])
    BY <1>1, <1>3 DEF Good, Kept
<1>5. ASSUME NEW x \in Paths, Prefix(<<n>>, x)
      PROVE  /\ x \in DOMAIN Trimmed(t) <=> x \in DOMAIN View(v)
             /\ x \in DOMAIN Trimmed(t) => Trimmed(t)[x] = View(v)[x]
    <2> DEFINE s == <<n>>
    <2>1. s \in Seq(Names0) /\ s # <<>> /\ s[1] = n
        BY <1>3
    <2> HIDE DEF s
    <2>2. x # <<>> /\ x[1] = s[1]
        BY <1>5, <2>1, PrefixFirst DEF s, Paths
    <2>3. In(x, n[1])
        BY <2>1, <2>2 DEF In
    <2> QED
        BY <1>2, <1>3, <1>4, <2>3, TrimmedChild
<1>6. <<n>> \in Paths
    BY <1>3 DEF Paths
<1>7. DOMAIN Trimmed(t) \subseteq Paths /\ DOMAIN View(v) \subseteq Paths
    BY <1>2, TrimmedTree, ViewTree
<1> QED
    BY <1>5, <1>6, <1>7, SameSubTree

\* Children that are not written to are seen as before.
LEMMA ViewsElsewhere ==
    ASSUME NEW v, IsNode(v), NEW w, IsNode(w), NEW K, SameOffV(v, w, K), NEW k \in Keys \ K
    PROVE  /\ k \in Children(w) <=> k \in Children(v)
           /\ SubTree(View(w), <<<<k>>>>) = SubTree(View(v), <<<<k>>>>)
<1>1. DOMAIN v \subseteq Seq(Keys) /\ DOMAIN w \subseteq Seq(Keys)
    BY DEF IsNode, IsValue
<1>2. k \in Children(w) <=> k \in Children(v)
    BY <1>1 DEF SameOffV, Children
<1> DEFINE t == View(v)
<1>3. Tree(t) /\ Kept(t, v, {}, k) /\ DOMAIN t \subseteq Paths
    BY NodeJson, ViewTree DEF Good
<1>4. SameOff(t, t, K)
    BY DEF SameOff
<1>5. Agrees(t, v, k) /\ Agrees(t, w, k)
    <2> HIDE DEF t
    <2>1. Kept(t, w, {}, k)
        BY <1>3, <1>4, OthersKept
    <2> QED
        BY <1>3, <2>1 DEF Kept
<1>6. ASSUME NEW x \in Paths, In(x, k)
      PROVE  /\ x \in DOMAIN View(w) <=> x \in DOMAIN View(v)
             /\ x \in DOMAIN View(w) => View(w)[x] = View(v)[x]
    <2>1. /\ x \in DOMAIN Trimmed(t) <=> x \in DOMAIN View(v)
          /\ x \in DOMAIN Trimmed(t) => Trimmed(t)[x] = View(v)[x]
        BY <1>3, <1>5, <1>6, TrimmedChild
    <2>2. /\ x \in DOMAIN Trimmed(t) <=> x \in DOMAIN View(w)
          /\ x \in DOMAIN Trimmed(t) => Trimmed(t)[x] = View(w)[x]
        BY <1>3, <1>5, <1>6, TrimmedChild
    <2> QED
        BY <2>1, <2>2
<1> DEFINE s == <<<<k>>>>
<1>7. s \in Paths /\ s # <<>> /\ s[1][1] = k
    BY DEF Paths, Names0
<1> HIDE DEF s
<1>8. \A x \in Paths : Prefix(s, x) => In(x, k)
    BY <1>7, PrefixFirst DEF Paths, In
<1>9. SubTree(View(w), s) = SubTree(View(v), s)
    <2>1. DOMAIN View(w) \subseteq Paths /\ DOMAIN View(v) \subseteq Paths
        BY ViewTree
    <2> HIDE DEF t
    <2> QED
        BY <1>6, <1>7, <1>8, <2>1, SameSubTree
<1> QED
    BY <1>2, <1>9 DEF s

\* A put of a child makes it the value put.
LEMMA ViewOfPutChild ==
    ASSUME NEW v, IsNode(v), NEW k \in Keys, NEW d, IsValue(d), DOMAIN d # {}
    PROVE  SubTree(View(Overwritten(v, <<k>>, d)), <<<<k>>>>) = Json(d)
<1> DEFINE p == <<k>>
           w == Overwritten(v, p, d)
           s == Steps(p)
<1>1. p \in Seq(Keys) /\ p # <<>> /\ s \in Paths /\ s = <<<<k>>>> /\ IsValue(v) /\ <<>> \notin DOMAIN v
    BY StepsOfOne, StepsPath DEF IsNode
<1> HIDE DEF p
<1>2. /\ IsValue(w) /\ DOMAIN w \subseteq Seq(Keys)
      /\ \A x \in Seq(Keys) :
            x \in DOMAIN w <=> IF Prefix(p, x) THEN Below(p, x) \in DOMAIN d
                               ELSE x \in DOMAIN v /\ (DOMAIN d = {} \/ ~Prefix(x, p))
      /\ \A x \in DOMAIN w : w[x] = IF Prefix(p, x) THEN d[Below(p, x)] ELSE v[x]
    BY <1>1, OverwrittenLeaves, OverwrittenIsValue
<1> HIDE DEF w
<1>3. DOMAIN d \subseteq Seq(Keys)
    BY DEF IsValue
<1>4. ASSUME NEW r \in Seq(Keys)
      PROVE  p \o r \in Seq(Keys) /\ Prefix(p, p \o r) /\ Below(p, p \o r) = r /\ Steps(p \o r) = s \o Steps(r)
    BY <1>1, PrefixConcat, StepsConcat
<1>5. ASSUME NEW r \in Seq(Keys) PROVE Above(w, p \o r) <=> Above(d, r)
    <2> DEFINE q == p \o r
    <2>1. q \in Seq(Keys) /\ Prefix(p, q) /\ Below(p, q) = r
        BY <1>4
    <2>2. ASSUME NEW l \in DOMAIN w, Prefix(q, l) PROVE Above(d, r)
        <3> HIDE DEF q
        <3>1. l \in Seq(Keys) /\ Prefix(p, l)
            BY <1>1, <1>2, <2>1, <2>2, PrefixOrder
        <3>2. Below(p, l) \in DOMAIN d
            BY <1>2, <3>1
        <3>3. Prefix(r, Below(p, l))
            BY <1>1, <2>1, <2>2, <3>1, PrefixBelow
        <3> QED
            BY <3>2, <3>3 DEF Above
    <2>3. ASSUME NEW l \in DOMAIN d, Prefix(r, l) PROVE Above(w, q)
        <3>1. l \in Seq(Keys) /\ Below(r, l) \in Seq(Keys) /\ l = r \o Below(r, l)
            BY <1>3, <2>3, PrefixSplit
        <3> DEFINE b == Below(r, l)
                   m == p \o l
        <3>2. m \in Seq(Keys) /\ Prefix(p, m) /\ Below(p, m) = l
            BY <1>4, <3>1
        <3> HIDE DEF b
        <3>3. m = q \o b
            <4>1. p \in Seq(Keys) /\ r \in Seq(Keys) /\ b \in Seq(Keys)
                BY <1>1, <3>1 DEF b
            <4>2. (p \o r) \o b = p \o (r \o b)
                BY <4>1, ConcatAssociative
            <4> QED
                BY <3>1, <4>2 DEF b
        <3> HIDE DEF q, m
        <3>4. Prefix(q, m)
            BY <2>1, <3>1, <3>3, PrefixConcat DEF b
        <3>5. m \in DOMAIN w
            BY <1>2, <3>2
        <3> QED
            BY <3>4, <3>5 DEF Above
    <2> QED
        BY <2>2, <2>3 DEF Above
<1>6. DOMAIN w # {}
    <2>1. PICK r \in DOMAIN d : TRUE
        OBVIOUS
    <2>2. r \in Seq(Keys) /\ Above(d, r)
        BY <1>3, PrefixOrder DEF Above
    <2> QED
        BY <1>5, <2>2 DEF Above
<1>7. /\ DOMAIN View(w) = {Steps(q) : q \in {q \in Seq(Keys) : Above(w, q)}}
      /\ \A q \in Seq(Keys) : Above(w, q) => View(w)[Steps(q)] = IF q \in DOMAIN w THEN w[q] ELSE Obj
    BY <1>2, <1>6, JsonTokens DEF View
<1>8. /\ Json(d) = [x \in DOMAIN Json(d) |-> Json(d)[x]]
      /\ DOMAIN Json(d) = {Steps(q) : q \in {q \in Seq(Keys) : Above(d, q)}}
      /\ \A q \in Seq(Keys) : Above(d, q) => Json(d)[Steps(q)] = IF q \in DOMAIN d THEN d[q] ELSE Obj
    BY JsonTokens
<1> DEFINE a == SubTree(View(w), s)
<1>9. /\ a = [x \in DOMAIN a |-> a[x]] /\ DOMAIN a = {Below(s, q) : q \in {q \in DOMAIN View(w) : Prefix(s, q)}}
      /\ \A x \in DOMAIN a : a[x] = View(w)[s \o x]
    BY DEF SubTree
<1>10. ASSUME NEW x \in DOMAIN a PROVE x \in DOMAIN Json(d)
    <2>1. PICK q \in DOMAIN View(w) : Prefix(s, q) /\ x = Below(s, q)
        BY <1>9
    <2>2. PICK y \in Seq(Keys) : Above(w, y) /\ q = Steps(y)
        BY <1>7
    <2>3. Prefix(p, y)
        BY <1>1, <2>1, <2>2, StepsPrefix
    <2> DEFINE r == Below(p, y)
    <2>4. r \in Seq(Keys) /\ y = p \o r /\ x = Steps(r)
        BY <1>1, <2>1, <2>2, <2>3, StepsBelow, PrefixSplit
    <2> HIDE DEF r
    <2>5. Above(d, r)
        BY <1>5, <2>2, <2>4
    <2> QED
        BY <1>8, <2>4, <2>5
<1>11. ASSUME NEW r \in Seq(Keys), Above(d, r)
       PROVE  Steps(r) \in DOMAIN a /\ View(w)[s \o Steps(r)] = Json(d)[Steps(r)]
    <2> DEFINE q == p \o r
    <2>1. q \in Seq(Keys) /\ Prefix(p, q) /\ Below(p, q) = r /\ Steps(q) = s \o Steps(r) /\ Above(w, q)
        BY <1>4, <1>5, <1>11
    <2> HIDE DEF q, s
    <2>2. Steps(q) \in DOMAIN View(w) /\ View(w)[Steps(q)] = IF q \in DOMAIN w THEN w[q] ELSE Obj
        BY <1>7, <2>1
    <2>3. Prefix(s, Steps(q)) /\ Below(s, Steps(q)) = Steps(r)
        BY <1>1, <2>1, StepsPrefix, StepsBelow DEF s
    <2>4. q \in DOMAIN w <=> r \in DOMAIN d
        BY <1>2, <2>1
    <2>5. q \in DOMAIN w => w[q] = d[r]
        BY <1>2, <2>1
    <2> QED
        BY <1>8, <1>9, <1>11, <2>1, <2>2, <2>3, <2>4, <2>5
<1>12. DOMAIN a = DOMAIN Json(d)
    BY <1>8, <1>10, <1>11
<1>13. \A x \in DOMAIN a : a[x] = Json(d)[x]
    <2> SUFFICES ASSUME NEW x \in DOMAIN a PROVE a[x] = Json(d)[x]
        OBVIOUS
    <2>1. a[x] = View(w)[s \o x]
        BY <1>9
    <2>2. PICK r \in Seq(Keys) : Above(d, r) /\ x = Steps(r)
        BY <1>8, <1>10
    <2> HIDE DEF a, s
    <2> QED
        BY <1>11, <2>1, <2>2
<1> HIDE DEF a
<1>14. a = Json(d)
    BY <1>8, <1>9, <1>12, <1>13
<1> QED
    BY <1>1, <1>14 DEF a, w, p

\* The children of a value are among the tokens that a put of it tells.
LEMMA ChildrenTold ==
    ASSUME NEW d, IsNode(d), NEW k \in Children(d)
    PROVE  SubTree(View(d), <<<<k>>>>) \in ChildTokens(Json(d))
<1>1. PICK q \in DOMAIN d \ {<<>>} : k = q[1]
    BY DEF Children
<1>2. IsValue(d) /\ q \in Seq(Keys) /\ DOMAIN d # {}
    BY DEF IsNode, IsValue
<1>3. Steps(q) \in DOMAIN Json(d)
    BY <1>2, JsonLeaves
<1>4. Steps(q) # <<>> /\ Steps(q)[1] = <<k>>
    BY <1>1, <1>2, StepsFirst
<1>5. <<k>> \in Names(Json(d))
    BY <1>3, <1>4 DEF Names
<1>6. View(d) = Json(d)
    BY <1>2 DEF View
<1> QED
    BY <1>5, <1>6 DEF ChildTokens

\* A subscriber to added children is given every child that is put.
LEMMA ToldKept ==
    ASSUME NEW t, NEW v, IsNode(v), NEW w, WellFormed(w), NEW E, NEW M, NEW T, NEW old, NEW new,
           Good(t, v, E, M) \/ IsRootPut(w), MangledBy(w, v, E) => w.path[1] \in M, Touched(w) \subseteq T,
           IsRootPut(w) \/ \A k \in Children(v) \ (M \cup T) : SubTree(View(v), <<<<k>>>>) \in old,
           old \subseteq new, IsRootPut(w) => ChildTokens(Json(w.data)) \subseteq new,
           w.type = "put" /\ w.path # <<>> /\ ChildKey(w) \notin DOMAIN t => Json(w.data) \in new
    PROVE  \A k \in Children(Written(v, w)) \ (M \cup T) : SubTree(View(Written(v, w)), <<<<k>>>>) \in new
<1>1. CASE IsRootPut(w)
    <2>1. Written(v, w) = w.data /\ IsNode(w.data)
        <3>1. PutResult(t, w, IF Json(w.data)[<<>>] = Obj THEN Json(w.data) ELSE EmptyObject)
            BY <1>1 DEF PutResult, IsRootPut
        <3> QED
            BY <1>1, <3>1, RootPut DEF IsRootPut
    <2> QED
        BY <1>1, <2>1, ChildrenTold
<1>2. CASE ~IsRootPut(w)
    <2> DEFINE K == IF w.type = "put" THEN {w.path[1]} ELSE Patches(w.path, w.fields)
               x == Written(v, w)
    <2>0. /\ w.path \in Seq(Keys) /\ IsValue(v) /\ IsNode(x)
          /\ w.type = "put" => w.path # <<>>
          /\ w.type = "put" \/ w.type = "patch"
        BY <1>2, WrittenIsNode DEF IsRootPut, WellFormed, IsNode
    <2>1. SameOffV(v, x, K)
        <3>1. CASE w.type = "put"
            <4>1. x = Overwritten(v, w.path, w.data) /\ IsValue(w.data)
                BY <3>1 DEF Written, WellFormed
            <4> QED
                BY <2>0, <3>1, <4>1, OverwrittenElsewhere
        <3>2. CASE w.type = "patch"
            <4>1. /\ x = Merged(v, w.path, w.fields)
                  /\ DOMAIN w.fields \subseteq Keys /\ \A f \in DOMAIN w.fields : IsValue(w.fields[f])
                BY <3>2 DEF Written, WellFormed
            <4> QED
                BY <2>0, <3>2, <4>1, MergedElsewhere
        <3> QED
            BY <2>0, <3>1, <3>2
    <2>2. SUFFICES ASSUME NEW k \in Children(x), k \notin M, k \notin T
          PROVE SubTree(View(x), <<<<k>>>>) \in new
        OBVIOUS
    <2>3. k \in Keys
        <3>1. PICK q \in DOMAIN x \ {<<>>} : k = q[1]
            BY DEF Children
        <3>2. q \in Seq(Keys)
            BY <2>0 DEF IsNode, IsValue
        <3> QED
            BY <3>1, <3>2, StepsFirst
    <2>4. CASE k \notin K
        <3>1. (k \in Children(x) <=> k \in Children(v)) /\ SubTree(View(x), <<<<k>>>>) = SubTree(View(v), <<<<k>>>>)
            <4>1. k \in Keys \ K
                BY <2>3, <2>4
            <4> HIDE DEF x, K
            <4> QED
                BY <2>0, <2>1, <4>1, ViewsElsewhere
        <3> QED
            BY <1>2, <2>2, <3>1
    <2>5. CASE k \in K
        <3>1. w.type = "put" /\ k = w.path[1] /\ Len(w.path) = 1
            <4>1. CASE w.type = "patch"
                <5>1. K = Touched(w)
                    <6>1. w.path = <<>> => Touched(w) = DOMAIN w.fields
                        BY <4>1 DEF Touched
                    <6>2. w.path # <<>> => Touched(w) = {w.path[1]}
                        BY <4>1 DEF Touched, Target
                    <6>3. K = Patches(w.path, w.fields)
                        BY <4>1
                    <6> QED
                        BY <6>1, <6>2, <6>3 DEF Patches
                <5> QED
                    BY <2>2, <2>5, <5>1
            <4>2. CASE w.type = "put"
                <5>1. Len(w.path) \in Nat \ {0}
                    BY <2>0, <4>2, EmptySeq, LenProperties
                <5>2. Len(w.path) > 1 => Touched(w) = {w.path[1]}
                    BY <2>0, <4>2 DEF Touched, Target
                <5>3. k = w.path[1]
                    BY <2>5, <4>2
                <5> QED
                    BY <2>2, <4>2, <5>1, <5>2, <5>3, OneOrMore
            <4> QED
                BY <2>0, <4>1, <4>2
        <3>2. w.path = <<k>> /\ SubSeq(w.path, 1, 1) = <<k>> /\ w.path # <<>>
            BY <2>0, <3>1, FirstKey
        <3>3. x = Overwritten(v, <<k>>, w.data) /\ IsValue(w.data)
            BY <3>1, <3>2 DEF Written, WellFormed
        <3>4. DOMAIN w.data # {}
            <4>1. SUFFICES ASSUME DOMAIN w.data = {} PROVE FALSE
                OBVIOUS
            <4> DEFINE h == <<k>>
            <4>2. h \in Seq(Keys)
                BY <2>3
            <4> HIDE DEF h
            <4>3. PICK q \in DOMAIN x : Prefix(h, q)
                BY <2>0, <2>3, ChildrenAre DEF IsNode, h
            <4>4. q \in Seq(Keys)
                BY <2>0 DEF IsNode, IsValue
            <4>5. q \in DOMAIN Overwritten(v, h, w.data) => Below(h, q) \in DOMAIN w.data
                BY <2>0, <3>3, <4>2, <4>3, <4>4, OverwrittenLeaves
            <4> QED
                BY <3>3, <4>1, <4>3, <4>5 DEF h
        <3>5. ~MangledBy(w, v, E)
            BY <2>2, <3>1
        <3>6. k \notin Children(v) /\ k \notin E
            BY <3>1, <3>2, <3>4, <3>5 DEF MangledBy
        <3>7. ChildKey(w) \notin DOMAIN t
            <4>1. Kept(t, v, E, k) /\ ChildKey(w) = Steps(<<k>>)
                BY <1>2, <2>2, <2>3, <3>2 DEF Good, ChildKey
            <4> QED
                BY <3>6, <4>1 DEF Kept
        <3>8. Json(w.data) \in new
            BY <3>1, <3>2, <3>7
        <3>9. SubTree(View(Overwritten(v, <<k>>, w.data)), <<<<k>>>>) = Json(w.data)
            BY <2>3, <3>3, <3>4, ViewOfPutChild
        <3> QED
            BY <3>3, <3>8, <3>9
    <2> QED
        BY <2>4, <2>5
<1> QED
    BY <1>1, <1>2

-----------------------------------------------------------------------------
(* The events on their way *)

\* An event after value v; D and F are the children emptied before and after it.
EventOk(e, v, D, F, M, T) ==
    /\ IsNode(e.after) /\ D \subseteq F
    /\ \/ e.type \in Troubles /\ e.after = v
       \/ /\ WellFormed(e) /\ e.after = Written(v, e)
          /\ IsRootPut(e) \/ e.after # v
          /\ MangledBy(e, v, D) => e.path[1] \in M
          /\ EmptiedBy(e, v) => e.path[1] \in F
          /\ Touched(e) \subseteq T

\* The value before event i, and after all of them, if v was the first.
Before(evs, v, i) == IF i = 1 THEN v ELSE evs[i - 1].after
After(evs, v) == IF evs = <<>> THEN v ELSE evs[Len(evs)].after

\* Events that lead from value v on, one after the other.
Stream(evs, v, E, M, T) ==
    /\ IsNode(v)
    /\ \E S : evs \in Seq(S)
    /\ \A i \in 1..Len(evs) : EventOk(evs[i], Before(evs, v, i), E[i - 1], E[i], M, T)

\* The histories only grow.
LEMMA EventOkLater ==
    ASSUME NEW e, NEW v, NEW D, NEW F, NEW M, NEW T, EventOk(e, v, D, F, M, T),
           NEW N, NEW U, M \subseteq N, T \subseteq U
    PROVE  EventOk(e, v, D, F, N, U)
BY DEF EventOk

\* An event that follows from the last value extends the stream.
LEMMA StreamAppend ==
    ASSUME NEW evs, NEW v, NEW E, NEW M, NEW T, Stream(evs, v, E, M, T),
           NEW N, NEW U, M \subseteq N, T \subseteq U, NEW e, NEW F, EventOk(e, After(evs, v), E[Len(evs)], F, N, U)
    PROVE  LET G == [i \in 0..Len(evs) + 1 |-> IF i <= Len(evs) THEN E[i] ELSE F] IN
           /\ Stream(Append(evs, e), v, G, N, U)
           /\ After(Append(evs, e), v) = e.after /\ G[Len(Append(evs, e))] = F /\ G[0] = E[0]
           /\ Append(evs, e) # <<>> /\ (evs # <<>> => Append(evs, e)[1] = evs[1])
<1> DEFINE n == Len(evs)
           G == [i \in 0..n + 1 |-> IF i <= n THEN E[i] ELSE F]
           a == Append(evs, e)
<1>1. PICK S : evs \in Seq(S)
    BY DEF Stream
<1>2. n \in Nat /\ (evs = <<>> <=> n = 0)
    BY <1>1, LenProperties, EmptySeq
<1>3. evs \in Seq(S \cup {e})
    <2>1. \A i \in 1..n : evs[i] \in S \cup {e}
        BY <1>1, ElementOfSeq
    <2>2. evs = [i \in 1..n |-> evs[i]]
        BY <1>1, LenProperties
    <2>3. evs \in [1..n -> S \cup {e}]
        BY <2>1, <2>2
    <2> QED
        BY <1>2, <2>3, SeqDef
<1>4. /\ a \in Seq(S \cup {e}) /\ Len(a) = n + 1 /\ a[n + 1] = e /\ a # <<>>
      /\ \A i \in 1..n : a[i] = evs[i]
    <2> DEFINE R == S \cup {e}
    <2>1. evs \in Seq(R) /\ e \in R
        BY <1>3
    <2> HIDE DEF R
    <2>2. a \in Seq(R) /\ a # <<>> /\ Len(a) = n + 1 /\ a[n + 1] = e /\ \A i \in 1..n : a[i] = evs[i]
        BY <2>1, AppendProperties
    <2> QED
        BY <2>2 DEF R
<1> HIDE DEF a
<1>5. ASSUME NEW i \in 1..n PROVE EventOk(a[i], Before(a, v, i), G[i - 1], G[i], N, U)
    <2>1. EventOk(evs[i], Before(evs, v, i), E[i - 1], E[i], N, U)
        BY EventOkLater DEF Stream
    <2>2. G[i - 1] = E[i - 1] /\ G[i] = E[i] /\ a[i] = evs[i]
        BY <1>2, <1>4
    <2>3. Before(a, v, i) = Before(evs, v, i)
        <3>1. i # 1 => i - 1 \in 1..n
            BY <1>2
        <3> QED
            BY <1>4, <3>1 DEF Before
    <2> HIDE DEF G
    <2> QED
        BY <2>1, <2>2, <2>3
<1>6. EventOk(a[n + 1], Before(a, v, n + 1), G[n], G[n + 1], N, U)
    <2>1. G[n] = E[n] /\ G[n + 1] = F
        BY <1>2
    <2>2. Before(a, v, n + 1) = After(evs, v)
        <3>1. CASE n = 0
            BY <1>2, <3>1 DEF Before, After
        <3>2. CASE n # 0
            <4>1. n + 1 # 1 /\ n + 1 - 1 = n /\ n \in 1..n
                BY <1>2, <3>2
            <4> QED
                BY <1>2, <1>4, <3>2, <4>1 DEF Before, After
        <3> QED
            BY <3>1, <3>2
    <2> HIDE DEF G
    <2> QED
        BY <1>4, <2>1, <2>2
<1>7. \A i \in 1..Len(a) : EventOk(a[i], Before(a, v, i), G[i - 1], G[i], N, U)
    <2> SUFFICES ASSUME NEW i \in 1..Len(a) PROVE EventOk(a[i], Before(a, v, i), G[i - 1], G[i], N, U)
        OBVIOUS
    <2>1. i \in 1..n \/ i = n + 1
        BY <1>2, <1>4
    <2>2. n + 1 - 1 = n
        BY <1>2
    <2>3. CASE i \in 1..n
        BY <1>5, <2>3
    <2>4. CASE i = n + 1
        <3> HIDE DEF G
        <3>1. i - 1 = n
            BY <2>2, <2>4
        <3> QED
            BY <1>6, <2>4, <3>1
    <2> QED
        BY <2>1, <2>3, <2>4
<1>8. Stream(a, v, G, N, U)
    <2> HIDE DEF G
    <2> QED
        BY <1>4, <1>7 DEF Stream
<1>9. After(a, v) = e.after
    BY <1>4 DEF After
<1>10. G[Len(a)] = F /\ G[0] = E[0]
    BY <1>2, <1>4
<1>11. evs # <<>> => a[1] = evs[1]
    BY <1>2, <1>4
<1> QED
    BY <1>4, <1>8, <1>9, <1>10, <1>11 DEF a

\* Without its first event a stream leads from the next value on.
LEMMA StreamTail ==
    ASSUME NEW evs, NEW v, NEW E, NEW M, NEW T, Stream(evs, v, E, M, T), evs # <<>>
    PROVE  LET G == [i \in 0..Len(evs) - 1 |-> E[i + 1]] IN
           /\ Stream(Tail(evs), evs[1].after, G, M, T)
           /\ After(Tail(evs), evs[1].after) = After(evs, v)
           /\ G[Len(Tail(evs))] = E[Len(evs)] /\ G[0] = E[1]
           /\ EventOk(evs[1], v, E[0], E[1], M, T) /\ Head(evs) = evs[1]
           /\ Tail(evs) = [i \in 1..Len(evs) - 1 |-> evs[i + 1]]
<1> DEFINE n == Len(evs)
           G == [i \in 0..n - 1 |-> E[i + 1]]
           a == Tail(evs)
           x == evs[1].after
<1>1. PICK S : evs \in Seq(S)
    BY DEF Stream
<1>2. n \in Nat /\ n > 0
    BY <1>1, LenProperties, EmptySeq
<1>3. a \in Seq(S) /\ Len(a) = n - 1 /\ (\A i \in 1..n - 1 : a[i] = evs[i + 1]) /\ Head(evs) = evs[1]
    BY <1>1, HeadTailProperties
<1>4. a = [i \in 1..n - 1 |-> evs[i + 1]]
    <2>1. a = [i \in 1..Len(a) |-> a[i]]
        BY <1>3, LenProperties
    <2> QED
        BY <1>3, <2>1
<1> HIDE DEF a
<1>5. EventOk(evs[1], v, E[0], E[1], M, T)
    <2>1. 1 \in 1..n /\ 1 - 1 = 0 /\ Before(evs, v, 1) = v
        BY <1>2 DEF Before
    <2> HIDE DEF n
    <2>2. \A i \in 1..n : EventOk(evs[i], Before(evs, v, i), E[i - 1], E[i], M, T)
        BY DEF Stream, n
    <2>3. EventOk(evs[1], Before(evs, v, 1), E[1 - 1], E[1], M, T)
        BY <2>1, <2>2
    <2> QED
        BY <2>1, <2>3
<1>6. ASSUME NEW i \in 1..Len(a) PROVE EventOk(a[i], Before(a, x, i), G[i - 1], G[i], M, T)
    <2>1. i \in Nat /\ i >= 1 /\ i <= n - 1 /\ i + 1 \in 1..n /\ i + 1 # 1 /\ i + 1 - 1 = i
        BY <1>2, <1>3
    <2>2. EventOk(evs[i + 1], Before(evs, v, i + 1), E[i + 1 - 1], E[i + 1], M, T)
        <3> DEFINE j == i + 1
        <3>1. j \in 1..n
            BY <2>1
        <3> HIDE DEF j
        <3>2. EventOk(evs[j], Before(evs, v, j), E[j - 1], E[j], M, T)
            BY <3>1 DEF Stream
        <3> QED
            BY <3>2 DEF j
    <2>3. G[i - 1] = E[i] /\ G[i] = E[i + 1]
        BY <1>2, <2>1
    <2>4. Before(evs, v, i + 1) = evs[i].after
        BY <2>1 DEF Before
    <2>5. Before(a, x, i) = evs[i].after
        <3>1. CASE i = 1
            BY <3>1 DEF Before
        <3>2. CASE i # 1
            <4>1. i - 1 \in 1..n - 1 /\ i - 1 + 1 = i
                BY <2>1, <3>2
            <4>2. a[i - 1] = evs[i - 1 + 1]
                BY <1>3, <4>1
            <4> QED
                BY <3>2, <4>1, <4>2 DEF Before
        <3> QED
            BY <3>1, <3>2
    <2>6. a[i] = evs[i + 1]
        BY <1>3
    <2> HIDE DEF G, x
    <2> QED
        BY <2>1, <2>2, <2>3, <2>4, <2>5, <2>6
<1>7. IsNode(x)
    BY <1>5 DEF EventOk
<1>8. Stream(a, x, G, M, T)
    <2> HIDE DEF G, x
    <2> QED
        BY <1>3, <1>6, <1>7 DEF Stream
<1>9. After(a, x) = After(evs, v)
    <2>1. CASE n = 1
        <3>1. a = <<>>
            BY <1>3, <2>1, EmptySeq
        <3> QED
            BY <2>1, <3>1 DEF After
    <2>2. CASE n # 1
        <3>1. a # <<>> /\ n - 1 \in 1..n - 1 /\ n - 1 + 1 = n
            BY <1>2, <1>3, <2>2, EmptySeq
        <3>2. a[n - 1] = evs[n - 1 + 1]
            BY <1>3, <3>1
        <3> QED
            BY <1>3, <3>1, <3>2 DEF After
    <2> QED
        BY <2>1, <2>2
<1>10. G[Len(a)] = E[n] /\ G[0] = E[1]
    BY <1>2, <1>3
<1> QED
    BY <1>3, <1>4, <1>5, <1>8, <1>9, <1>10 DEF a

\* The event that tells of a write says what the write says.
LEMMA WriteEvent ==
    ASSUME NEW w, IsWrite(w), NEW x, NEW e, e = Event(w, x)
    PROVE  /\ e.type = w.type /\ e.path = w.path /\ e.after = x /\ WellFormed(e) /\ WellFormed(w)
           /\ w.type \in {"put", "patch"}
           /\ \A v : Written(v, e) = Written(v, w) /\ EmptiedBy(e, v) = EmptiedBy(w, v)
           /\ \A v, E : MangledBy(e, v, E) = MangledBy(w, v, E)
           /\ Touched(e) = Touched(w)
<1>1. /\ DOMAIN e = DOMAIN w \cup {"after"} /\ \A f \in DOMAIN w : f # "after" => e[f] = w[f]
      /\ e["after"] = x
    BY DEF Event
<1>2. CASE w.type = "put"
    <2>1. DOMAIN w = {"type", "path", "data"}
        BY <1>2 DEF IsWrite
    <2>2. e.type = w.type /\ e.path = w.path /\ e.data = w.data /\ e.after = x
        BY <1>1, <2>1
    <2>3. WellFormed(w) /\ WellFormed(e)
        BY <1>2, <2>2 DEF IsWrite, WellFormed
    <2>4. \A v : Written(v, e) = Written(v, w)
        BY <1>2, <2>2 DEF Written
    <2>5. \A v : EmptiedBy(e, v) = EmptiedBy(w, v)
        BY <1>2, <2>2, <2>4 DEF EmptiedBy
    <2>6. \A v, E : MangledBy(e, v, E) = MangledBy(w, v, E)
        BY <1>2, <2>2 DEF MangledBy
    <2>7. Touched(e) = Touched(w)
        BY <1>2, <2>2 DEF Touched, Target
    <2> QED
        BY <1>2, <2>2, <2>3, <2>4, <2>5, <2>6, <2>7
<1>3. CASE w.type = "patch"
    <2>1. DOMAIN w = {"type", "path", "fields"}
        BY <1>3 DEF IsWrite
    <2>2. e.type = w.type /\ e.path = w.path /\ e.fields = w.fields /\ e.after = x
        BY <1>1, <2>1
    <2>3. WellFormed(w) /\ WellFormed(e)
        BY <1>3, <2>2 DEF IsWrite, WellFormed
    <2>4. \A v : Written(v, e) = Written(v, w)
        BY <1>3, <2>2 DEF Written
    <2>5. \A v : EmptiedBy(e, v) = EmptiedBy(w, v)
        BY <1>3, <2>2, <2>4 DEF EmptiedBy
    <2>6. \A v, E : MangledBy(e, v, E) = MangledBy(w, v, E)
        BY <1>3, <2>2 DEF MangledBy
    <2>7. Touched(e) = Touched(w)
        BY <1>3, <2>2 DEF Touched, Target
    <2> QED
        BY <1>3, <2>2, <2>3, <2>4, <2>5, <2>6, <2>7
<1> QED
    BY <1>2, <1>3 DEF IsWrite

\* A copy that is right stays so when more was mishandled or emptied.
LEMMA GoodLater ==
    ASSUME NEW t, NEW v, NEW E, NEW M, Good(t, v, E, M), NEW F, NEW N, E \subseteq F, M \subseteq N
    PROVE  Good(t, v, F, N)
BY DEF Good, Kept

-----------------------------------------------------------------------------
(* The invariant *)

\* What a handler was told suits the value v that copy t has.
ToldRight(v, t, tl, M, T, h) ==
    /\ h = "ValueChanged" => tl = {t}
    /\ h = "ChildAdded" => \A k \in Children(v) \ (M \cup T) : SubTree(View(v), <<<<k>>>>) \in tl

\* The copy is right for some value v of the node, and the events lead from there to
\* the present one; or the whole value is about to be read, or nothing more comes.
Follows(v, E, evs, op, nd, em, M, T, t, tl, h) ==
    /\ Stream(evs, v, E, M, T)
    /\ op => After(evs, v) = nd /\ E[Len(evs)] = em
    /\ \/ evs # <<>> /\ IsRootPut(evs[1])
       \/ ~op /\ evs = <<>>
       \/ Good(t, v, E[0], M) /\ ToldRight(v, t, tl, M, T, h)

\* The inductive invariant.
StreamInv ==
    /\ IsNode(node) /\ (\A w \in writes : IsWrite(w)) /\ Tree(Cache)
    /\ \E v, E : Follows(v, E, events, open, node, emptied, mangled, touched, Cache, told, handler)

\* A closed stream without events promises nothing.
LEMMA NothingComing ==
    ASSUME NEW nd, IsNode(nd), NEW em, NEW M, NEW T, NEW t, NEW tl, NEW h, NEW op, op = FALSE
    PROVE  \E v, E : Follows(v, E, <<>>, op, nd, em, M, T, t, tl, h)
<1> DEFINE e == <<>>
<1>1. e \in Seq({}) /\ Len(e) = 0
    OBVIOUS
<1> HIDE DEF e
<1>2. 1..Len(e) = {}
    BY <1>1
<1>3. Stream(e, nd, {}, M, T)
    BY <1>1, <1>2 DEF Stream
<1>4. Follows(nd, {}, e, op, nd, em, M, T, t, tl, h)
    BY <1>3 DEF Follows, e
<1> QED
    BY <1>4 DEF e

\* No stream is open at first.
LEMMA StreamInit == Init => StreamInv
<1> SUFFICES ASSUME Init PROVE StreamInv
    OBVIOUS
<1>1. PICK s \in Scenarios :
        /\ node = s.node /\ handler = s.handler /\ writes = s.writes
        /\ open = FALSE /\ events = <<>> /\ Cache = EmptyObject
    BY DEF Init
<1>2. IsNode(node) /\ \A w \in writes : IsWrite(w)
    BY <1>1, ScenariosAreStates
<1>3. \E v, E : Follows(v, E, <<>>, open, node, emptied, mangled, touched, Cache, told, handler)
    BY <1>1, <1>2, NothingComing
<1> QED
    BY <1>1, <1>2, <1>3, EmptyTree DEF StreamInv

\* A new connection sends the whole value first.
LEMMA ConnectFollows == StreamInv /\ Connect => StreamInv'
<1> SUFFICES ASSUME StreamInv, Connect PROVE StreamInv'
    OBVIOUS
<1> DEFINE e == [type |-> "put", path |-> <<>>, data |-> node, after |-> node]
           E == [i \in 0..1 |-> {}]
           s == <<e>>
<1>1. /\ events' = s /\ mangled' = {} /\ emptied' = {} /\ touched' = {}
      /\ UNCHANGED <<node, Cache, told, writes, handler>>
    BY DEF Connect, env
<1>2. IsNode(node) /\ IsValue(node) /\ <<>> \notin DOMAIN node
    BY DEF StreamInv, IsNode
<1>3. e.type = "put" /\ e.path = <<>> /\ e.data = node /\ e.after = node /\ IsRootPut(e)
    BY DEF IsRootPut
<1> HIDE DEF e
<1>4. WellFormed(e)
    <2>1. <<>> \in Seq(Keys)
        BY EmptySeq
    <2> QED
        BY <1>2, <1>3, <2>1 DEF WellFormed
<1>5. Written(node, e) = node
    <2>1. PutResult(Cache, e, IF Json(e.data)[<<>>] = Obj THEN Json(e.data) ELSE EmptyObject)
        BY <1>3 DEF PutResult
    <2> QED
        BY <1>2, <1>3, <1>4, <2>1, RootPut
<1>6. EventOk(e, node, {}, {}, {}, {})
    <2>1. Len(e.path) = 0
        BY <1>3
    <2>2. ~MangledBy(e, node, {}) /\ ~EmptiedBy(e, node) /\ Touched(e) = {}
        BY <1>3, <2>1 DEF MangledBy, EmptiedBy, Touched
    <2> QED
        BY <1>2, <1>3, <1>4, <1>5, <2>2 DEF EventOk
<1>7. s \in Seq({e}) /\ Len(s) = 1 /\ s[1] = e /\ s # <<>>
    OBVIOUS
<1> HIDE DEF s
<1>8. E[0] = {} /\ E[1] = {}
    OBVIOUS
<1>9. Stream(s, node, E, {}, {})
    <2>1. ASSUME NEW i \in 1..Len(s) PROVE EventOk(s[i], Before(s, node, i), E[i - 1], E[i], {}, {})
        <3>1. i = 1 /\ i - 1 = 0
            BY <1>7
        <3> HIDE DEF E
        <3> QED
            BY <1>6, <1>7, <1>8, <3>1 DEF Before
    <2> HIDE DEF E
    <2> QED
        BY <1>2, <1>7, <2>1 DEF Stream
<1>10. After(s, node) = node
    BY <1>3, <1>7 DEF After
<1> HIDE DEF E
<1>11. Follows(node, E, s, open', node, {}, {}, {}, Cache, told, handler)
    BY <1>3, <1>7, <1>8, <1>9, <1>10 DEF Follows
<1>12. \E v, G : Follows(v, G, events', open', node', emptied', mangled', touched', Cache', told', handler')
    BY <1>1, <1>11
<1> QED
    BY <1>1, <1>12 DEF StreamInv

\* What is left of the stream after its first event.
LEMMA NextEvent ==
    ASSUME StreamInv, events # <<>>
    PROVE  /\ Head(events) = events[1]
           /\ \E v, E :
                /\ Follows(v, E, events, open, node, emptied, mangled, touched, Cache, told, handler)
                /\ IsNode(v) /\ EventOk(events[1], v, E[0], E[1], mangled, touched)
                /\ IsRootPut(events[1]) \/ (Good(Cache, v, E[0], mangled) /\ ToldRight(v, Cache, told, mangled, touched, handler))
                /\ \A t, tl : /\ Good(t, events[1].after, E[1], mangled)
                              /\ ToldRight(events[1].after, t, tl, mangled, touched, handler)
                        => \E G : Follows(events[1].after, G, Tail(events), open, node, emptied, mangled, touched, t, tl, handler)
<1>1. PICK v, E : Follows(v, E, events, open, node, emptied, mangled, touched, Cache, told, handler)
    BY DEF StreamInv
<1>2. /\ Stream(events, v, E, mangled, touched)
      /\ open => After(events, v) = node /\ E[Len(events)] = emptied
      /\ IsRootPut(events[1]) \/ (Good(Cache, v, E[0], mangled) /\ ToldRight(v, Cache, told, mangled, touched, handler))
    BY <1>1 DEF Follows
<1> DEFINE G == [i \in 0..Len(events) - 1 |-> E[i + 1]]
<1>3. /\ Stream(Tail(events), events[1].after, G, mangled, touched)
      /\ After(Tail(events), events[1].after) = After(events, v)
      /\ G[Len(Tail(events))] = E[Len(events)] /\ G[0] = E[1]
      /\ EventOk(events[1], v, E[0], E[1], mangled, touched) /\ Head(events) = events[1]
    BY <1>2, StreamTail
<1> HIDE DEF G
<1>4. ASSUME NEW t, NEW tl, Good(t, events[1].after, E[1], mangled),
             ToldRight(events[1].after, t, tl, mangled, touched, handler)
      PROVE  Follows(events[1].after, G, Tail(events), open, node, emptied, mangled, touched, t, tl, handler)
    BY <1>2, <1>3, <1>4 DEF Follows
<1>5. IsNode(v)
    BY <1>2 DEF Stream
<1> QED
    BY <1>1, <1>2, <1>3, <1>4, <1>5

\* A put or a patch brings the copy from one value of the node to the next.
LEMMA ReceiveFollows ==
    ASSUME StreamInv, events # <<>>, WellFormed(events[1]),
           Result(Cache, events[1], Cache'), events' = Tail(events),
           UNCHANGED <<node, open, mangled, emptied, touched, handler, writes>>,
           handler = "ValueChanged" => told' = {Cache'},
           handler = "ChildAdded" =>
                /\ told \subseteq told'
                /\ IsRootPut(events[1]) => ChildTokens(Json(events[1].data)) \subseteq told'
                /\ events[1].type = "put" /\ events[1].path # <<>> /\ ChildKey(events[1]) \notin DOMAIN Cache
                        => Json(events[1].data) \in told'
    PROVE  StreamInv'
<1> DEFINE e == events[1]
<1>1. PICK v, E :
        /\ IsNode(v) /\ EventOk(e, v, E[0], E[1], mangled, touched)
        /\ IsRootPut(e) \/ (Good(Cache, v, E[0], mangled) /\ ToldRight(v, Cache, told, mangled, touched, handler))
        /\ \A t, tl : /\ Good(t, e.after, E[1], mangled)
                      /\ ToldRight(e.after, t, tl, mangled, touched, handler)
                => \E G : Follows(e.after, G, Tail(events), open, node, emptied, mangled, touched, t, tl, handler)
    BY NextEvent
<1>2. WellFormed(e) /\ Result(Cache, e, Cache') /\ e.type \notin Troubles
    BY DEF WellFormed, Troubles
<1> HIDE DEF e
<1>3. /\ e.after = Written(v, e) /\ E[0] \subseteq E[1] /\ (IsRootPut(e) \/ Written(v, e) # v)
      /\ MangledBy(e, v, E[0]) => e.path[1] \in mangled
      /\ EmptiedBy(e, v) => e.path[1] \in E[1]
      /\ Touched(e) \subseteq touched
    BY <1>1, <1>2 DEF EventOk
<1>4. Good(Cache', e.after, E[1], mangled)
    <2>1. Good(Cache', Written(v, e), E[1], mangled)
        BY <1>1, <1>2, <1>3, EventKept
    <2> QED
        BY <1>3, <2>1
<1>5. ToldRight(e.after, Cache', told', mangled, touched, handler)
    <2>1. ASSUME handler = "ChildAdded"
          PROVE \A k \in Children(e.after) \ (mangled \cup touched) : SubTree(View(e.after), <<<<k>>>>) \in told'
        <3>1. IsRootPut(e) \/ \A k \in Children(v) \ (mangled \cup touched) : SubTree(View(v), <<<<k>>>>) \in told
            BY <1>1, <2>1 DEF ToldRight
        <3>2. /\ told \subseteq told' /\ (IsRootPut(e) => ChildTokens(Json(e.data)) \subseteq told')
              /\ e.type = "put" /\ e.path # <<>> /\ ChildKey(e) \notin DOMAIN Cache => Json(e.data) \in told'
            BY <2>1 DEF e
        <3>3. \A k \in Children(Written(v, e)) \ (mangled \cup touched) : SubTree(View(Written(v, e)), <<<<k>>>>) \in told'
            BY <1>1, <1>2, <1>3, <3>1, <3>2, ToldKept
        <3> QED
            BY <1>3, <3>3
    <2> QED
        BY <2>1 DEF ToldRight
<1>6. \E G : Follows(e.after, G, Tail(events), open, node, emptied, mangled, touched, Cache', told', handler)
    BY <1>1, <1>4, <1>5
<1>7. \E w, G : Follows(w, G, events', open', node', emptied', mangled', touched', Cache', told', handler')
    BY <1>6
<1>8. Tree(Cache')
    BY <1>4 DEF Good
<1> QED
    BY <1>7, <1>8 DEF StreamInv

\* An event that is not about the node leaves the copy right.
LEMMA SkipFollows ==
    ASSUME StreamInv, events # <<>>, events[1].type \in Troubles, events' = Tail(events),
           UNCHANGED <<node, open, Cache, told, mangled, emptied, touched, handler, writes>>
    PROVE  StreamInv'
<1> DEFINE e == events[1]
<1>1. PICK v, E :
        /\ IsNode(v) /\ EventOk(e, v, E[0], E[1], mangled, touched)
        /\ IsRootPut(e) \/ (Good(Cache, v, E[0], mangled) /\ ToldRight(v, Cache, told, mangled, touched, handler))
        /\ \A t, tl : /\ Good(t, e.after, E[1], mangled)
                      /\ ToldRight(e.after, t, tl, mangled, touched, handler)
                => \E G : Follows(e.after, G, Tail(events), open, node, emptied, mangled, touched, t, tl, handler)
    BY NextEvent
<1>2. e.type \in Troubles
    OBVIOUS
<1> HIDE DEF e
<1>3. ~IsRootPut(e) /\ e.after = v /\ E[0] \subseteq E[1]
    BY <1>1, <1>2 DEF EventOk, IsRootPut, Troubles, WellFormed
<1>4. Good(Cache, e.after, E[1], mangled) /\ ToldRight(e.after, Cache, told, mangled, touched, handler)
    BY <1>1, <1>3, GoodLater
<1>5. \E G : Follows(e.after, G, Tail(events), open, node, emptied, mangled, touched, Cache, told, handler)
    BY <1>1, <1>4
<1>6. \E w, G : Follows(w, G, events', open', node', emptied', mangled', touched', Cache', told', handler')
    BY <1>5
<1> QED
    BY <1>6 DEF StreamInv

\* Another event joins those on their way.
LEMMA EventFollows ==
    ASSUME StreamInv, open, NEW e, IsNode(node'), e.after = node',
           EventOk(e, node, emptied, emptied', mangled', touched'), events' = Append(events, e),
           mangled \subseteq mangled', touched \subseteq touched',
           UNCHANGED <<Cache, told, handler, writes>>
    PROVE  StreamInv'
<1>1. PICK v, E : Follows(v, E, events, open, node, emptied, mangled, touched, Cache, told, handler)
    BY DEF StreamInv
<1>2. /\ Stream(events, v, E, mangled, touched) /\ After(events, v) = node /\ E[Len(events)] = emptied
      /\ \/ events # <<>> /\ IsRootPut(events[1])
         \/ Good(Cache, v, E[0], mangled) /\ ToldRight(v, Cache, told, mangled, touched, handler)
    BY <1>1 DEF Follows
<1> DEFINE G == [i \in 0..Len(events) + 1 |-> IF i <= Len(events) THEN E[i] ELSE emptied']
<1>3. /\ Stream(Append(events, e), v, G, mangled', touched')
      /\ After(Append(events, e), v) = e.after /\ G[Len(Append(events, e))] = emptied' /\ G[0] = E[0]
      /\ Append(events, e) # <<>> /\ (events # <<>> => Append(events, e)[1] = events[1])
    BY <1>2, StreamAppend
<1> HIDE DEF G
<1>4. Good(Cache, v, E[0], mangled) => Good(Cache, v, G[0], mangled')
    BY <1>3, GoodLater
<1>5. ToldRight(v, Cache, told, mangled, touched, handler) => ToldRight(v, Cache, told, mangled', touched', handler)
    BY DEF ToldRight
<1>6. Follows(v, G, events', open', node', emptied', mangled', touched', Cache', told', handler')
    BY <1>2, <1>3, <1>4, <1>5 DEF Follows
<1>7. \E w, H : Follows(w, H, events', open', node', emptied', mangled', touched', Cache', told', handler')
    BY <1>6
<1> QED
    BY <1>7 DEF StreamInv

\* A write is told of while the stream is open.
LEMMA WriteFollows == ASSUME StreamInv, NEW w \in writes, Write(w) PROVE StreamInv'
<1>1. IsNode(node) /\ IsWrite(w) /\ node' = Written(node, w) /\ node' # node
      /\ UNCHANGED <<open, Cache, told, writes, handler>>
    BY DEF StreamInv, Write, env
<1>2. WellFormed(w) /\ IsNode(node')
    <2>1. WellFormed(w)
        BY <1>1, WriteEvent
    <2> QED
        BY <1>1, <2>1, WrittenIsNode
<1>3. CASE open
    <2> DEFINE e == Event(w, node')
    <2>1. /\ events' = Append(events, e) /\ touched' = touched \cup Touched(w)
          /\ mangled' = mangled \cup (IF Mangles(w) THEN Target(w) ELSE {})
          /\ emptied' = emptied \cup (IF Empties(w) THEN Target(w) ELSE {})
        BY <1>1, <1>3 DEF Write
    <2>2. /\ e.path = w.path /\ e.after = node' /\ WellFormed(e)
          /\ Written(node, e) = Written(node, w) /\ EmptiedBy(e, node) = EmptiedBy(w, node)
          /\ MangledBy(e, node, emptied) = MangledBy(w, node, emptied) /\ Touched(e) = Touched(w)
        BY <1>1, WriteEvent
    <2> HIDE DEF e
    <2>3. MangledBy(w, node, emptied) <=> Mangles(w)
        BY DEF MangledBy, Mangles
    <2>4. EmptiedBy(w, node) <=> Empties(w)
        BY DEF EmptiedBy, Empties
    <2>5. Mangles(w) => w.path[1] \in mangled'
        BY <2>1 DEF Mangles, Target
    <2>6. ASSUME Empties(w) PROVE w.path[1] \in emptied'
        <3>1. w.path # <<>>
            <4> DEFINE z == <<>>
            <4>1. Len(z) = 0
                OBVIOUS
            <4> HIDE DEF z
            <4>2. w.path # z
                BY <4>1, <2>6 DEF Empties, z
            <4> QED
                BY <4>2 DEF z
        <3> QED
            BY <2>1, <2>6, <3>1 DEF Target
    <2>7. EventOk(e, node, emptied, emptied', mangled', touched')
        BY <1>1, <1>2, <2>1, <2>2, <2>3, <2>4, <2>5, <2>6 DEF EventOk
    <2>8. mangled \subseteq mangled' /\ touched \subseteq touched'
        BY <2>1
    <2> QED
        BY <1>1, <1>2, <1>3, <2>1, <2>2, <2>7, <2>8, EventFollows
<1>4. CASE ~open
    <2>1. UNCHANGED <<events, mangled, emptied, touched>>
        BY <1>4 DEF Write, since
    <2>2. PICK v, E : Follows(v, E, events, open, node, emptied, mangled, touched, Cache, told, handler)
        BY DEF StreamInv
    <2>3. Follows(v, E, events', open', node', emptied', mangled', touched', Cache', told', handler')
        BY <1>1, <1>4, <2>1, <2>2 DEF Follows
    <2> QED
        BY <1>1, <1>2, <2>1, <2>3 DEF StreamInv
<1> QED
    BY <1>3, <1>4

\* So are the server's own events.
LEMMA TroubleFollows == ASSUME StreamInv, NEW type \in Troubles, Trouble(type) PROVE StreamInv'
<1> DEFINE e == [type |-> type, after |-> node]
<1>1. /\ open /\ events' = Append(events, e)
      /\ UNCHANGED <<node, Cache, told, mangled, emptied, touched, writes, handler>>
    BY DEF Trouble, since, env
<1>2. IsNode(node)
    BY DEF StreamInv
<1>3. e.type \in Troubles /\ e.after = node
    OBVIOUS
<1> HIDE DEF e
<1>4. EventOk(e, node, emptied, emptied', mangled', touched')
    BY <1>1, <1>2, <1>3 DEF EventOk
<1> QED
    BY <1>1, <1>2, <1>3, <1>4, EventFollows

\* What HandlePut and HandlePatch do to the copy and to the handler.
LEMMA PutDoes ==
    ASSUME NEW e, e.type = "put", HandlePut(e)
    PROVE  Result(Cache, e, Cache')
BY DEF Result, HandlePut, PutNode, PutNewChild, PutNull, PutInChild, PutResult

LEMMA PatchDoes ==
    ASSUME NEW e, e.type = "patch", HandlePatch(e)
    PROVE  Result(Cache, e, Cache')
<1>1. PatchDest(Cache, e) = Dest(e)
    BY DEF PatchDest, Dest
<1> QED
    BY <1>1 DEF Result, HandlePatch, PatchResult, PatchBase

\* A put is handled.
LEMMA PutFollows == ASSUME StreamInv, ReceivePut PROVE StreamInv'
<1> DEFINE e == events[1]
<1>1. events # <<>> /\ Head(events) = e /\ e.type = "put" /\ HandlePut(e) /\ events' = Tail(events)
      /\ UNCHANGED <<node, open, mangled, emptied, touched, writes, handler>>
    BY NextEvent DEF ReceivePut, Reads, Consume, since, env
<1>2. WellFormed(e)
    <2>1. PICK v, E : EventOk(e, v, E[0], E[1], mangled, touched)
        BY <1>1, NextEvent
    <2> HIDE DEF e
    <2> QED
        BY <1>1, <2>1 DEF EventOk, Troubles
<1> HIDE DEF e
<1>3. Result(Cache, e, Cache')
    BY <1>1, PutDoes
<1>4. handler = "ValueChanged" => told' = {Cache'}
    BY <1>1 DEF HandlePut, PutNode, PutNewChild, PutNull, PutInChild, TellValueOr
<1>5. ASSUME handler = "ChildAdded"
      PROVE  /\ told \subseteq told'
             /\ IsRootPut(e) => ChildTokens(Json(e.data)) \subseteq told'
             /\ e.type = "put" /\ e.path # <<>> /\ ChildKey(e) \notin DOMAIN Cache => Json(e.data) \in told'
    BY <1>1, <1>5 DEF HandlePut, PutNode, PutNewChild, PutNull, PutInChild, TellValueOr, Tell, IsRootPut
<1> QED
    BY <1>1, <1>2, <1>3, <1>4, <1>5, ReceiveFollows DEF e

\* A patch is handled.
LEMMA PatchFollows == ASSUME StreamInv, ReceivePatch PROVE StreamInv'
<1> DEFINE e == events[1]
<1>1. events # <<>> /\ Head(events) = e /\ e.type = "patch" /\ HandlePatch(e) /\ events' = Tail(events)
      /\ UNCHANGED <<node, open, mangled, emptied, touched, writes, handler>>
    BY NextEvent DEF ReceivePatch, Reads, Consume, since, env
<1>2. WellFormed(e)
    <2>1. PICK v, E : EventOk(e, v, E[0], E[1], mangled, touched)
        BY <1>1, NextEvent
    <2> HIDE DEF e
    <2> QED
        BY <1>1, <2>1 DEF EventOk, Troubles
<1> HIDE DEF e
<1>3. Result(Cache, e, Cache')
    BY <1>1, PatchDoes
<1>4. handler = "ValueChanged" => told' = {Cache'}
    BY <1>1 DEF HandlePatch, TellValueOr
<1>5. handler = "ChildAdded" => told \subseteq told' /\ ~IsRootPut(e)
    BY <1>1 DEF HandlePatch, TellValueOr, Tell, IsRootPut
<1> QED
    BY <1>1, <1>2, <1>3, <1>4, <1>5, ReceiveFollows DEF e

\* The stream is closed: nothing that is on its way will be applied.
LEMMA ClosedFollows ==
    ASSUME StreamInv, open' = FALSE, events' = <<>>,
           UNCHANGED <<node, Cache, told, mangled, emptied, touched, handler, writes>>
    PROVE  StreamInv'
<1>1. IsNode(node)
    BY DEF StreamInv
<1>2. \E v, E : Follows(v, E, <<>>, open', node, emptied, mangled, touched, Cache, told, handler)
    BY <1>1, NothingComing
<1>3. \E v, E : Follows(v, E, events', open', node', emptied', mangled', touched', Cache', told', handler')
    BY <1>2
<1> QED
    BY <1>3 DEF StreamInv

\* The task moves on, and perhaps closes the stream, without touching the copy.
LEMMA IdleFollows ==
    ASSUME StreamInv, open' \in {open, FALSE},
           UNCHANGED <<node, events, Cache, told, mangled, emptied, touched, handler, writes>>
    PROVE  StreamInv'
<1>1. PICK v, E : Follows(v, E, events, open, node, emptied, mangled, touched, Cache, told, handler)
    BY DEF StreamInv
<1>2. Follows(v, E, events', open', node', emptied', mangled', touched', Cache', told', handler')
    <2>1. CASE open' = open
        BY <1>1, <2>1
    <2>2. CASE open' = FALSE
        BY <1>1, <2>2 DEF Follows
    <2> QED
        BY <2>1, <2>2
<1> QED
    BY <1>2 DEF StreamInv

\* Every step keeps the invariant.
LEMMA StreamStep == StreamInv /\ [Next]_vars => StreamInv'
<1> SUFFICES ASSUME StreamInv, [Next]_vars PROVE StreamInv'
    OBVIOUS
<1>1. CASE Connect
    BY <1>1, ConnectFollows
<1>2. CASE ReceivePut
    BY <1>2, PutFollows
<1>3. CASE ReceivePatch
    BY <1>3, PatchFollows
<1>4. CASE ReceiveKeepAlive
    <2>1. events # <<>> /\ Head(events).type = "keep-alive" /\ events' = Tail(events)
          /\ UNCHANGED <<node, open, Cache, told, mangled, emptied, touched, handler, writes>>
        BY <1>4 DEF ReceiveKeepAlive, Reads, Consume, since, env
    <2>2. events[1].type \in Troubles
        BY <2>1, NextEvent DEF Troubles
    <2> QED
        BY <2>1, <2>2, SkipFollows
<1>5. CASE ReceiveEnd
    <2>1. events # <<>> /\ Head(events).type = "end" /\ events' = Tail(events)
          /\ UNCHANGED <<node, open, Cache, told, mangled, emptied, touched, handler, writes>>
        BY <1>5 DEF ReceiveEnd, Reads, Consume, since, env
    <2>2. events[1].type \in Troubles
        BY <2>1, NextEvent DEF Troubles
    <2> QED
        BY <2>1, <2>2, SkipFollows
<1>6. CASE Die \/ ReceiveAuthRevoked
    BY <1>6, ClosedFollows DEF Die, ReceiveAuthRevoked, since, env
<1>7. CASE TestLoop
    BY <1>7, IdleFollows DEF TestLoop, since, env
<1>8. CASE Refuse \/ SpinUntilStopped \/ Stop \/ UNCHANGED vars
    BY <1>8, IdleFollows DEF Refuse, SpinUntilStopped, Stop, vars, since, env
<1>9. ASSUME NEW w \in writes, Write(w) PROVE StreamInv'
    BY <1>9, WriteFollows
<1>10. ASSUME NEW type \in Troubles, Trouble(type) PROVE StreamInv'
    BY <1>10, TroubleFollows
<1> QED
    BY <1>1, <1>2, <1>3, <1>4, <1>5, <1>6, <1>7, <1>8, <1>9, <1>10 DEF Next, Task

\* The copy is always right for a value the node had, from which the events on their way
\* lead to the node's present value, or a put of the whole node is to come first
\* (RunAsync, HandlePut, HandlePatch).
THEOREM CopyFollows == Spec => []StreamInv
<1> QED
    BY StreamInit, StreamStep, PTL DEF Spec

-----------------------------------------------------------------------------
(* What follows of it *)

\* At rest the copy is right, and so is what the handler was told.
LEMMA AtRest ==
    ASSUME StreamInv, Quiet
    PROVE  /\ IsNode(node) /\ ToldRight(node, Cache, told, mangled, touched, handler)
           /\ \E E : Good(Cache, node, E, mangled)
<1>1. PICK v, E : Follows(v, E, events, open, node, emptied, mangled, touched, Cache, told, handler)
    BY DEF StreamInv
<1>2. open /\ events = <<>>
    BY DEF Quiet
<1>3. After(events, v) = v
    BY <1>2 DEF After
<1>4. v = node /\ Good(Cache, v, E[0], mangled) /\ ToldRight(v, Cache, told, mangled, touched, handler)
    BY <1>1, <1>2, <1>3 DEF Follows
<1> QED
    BY <1>4 DEF StreamInv

\* At rest every child of the copy is that of the node, unless a write that the
\* client mishandles was made to this very child (HandlePut, HandlePatch).
THEOREM CopyAgrees == Spec => []OthersAgree
<1>1. StreamInv => OthersAgree
    <2> SUFFICES ASSUME StreamInv, Quiet,
                        NEW n \in Names(Trimmed(Cache)) \cup Names(View(node))
                 PROVE  n[1] \in mangled \/ SubTree(Trimmed(Cache), <<n>>) = SubTree(View(node), <<n>>)
        BY DEF OthersAgree
    <2>1. PICK E : IsNode(node) /\ Good(Cache, node, E, mangled)
        BY AtRest
    <2> QED
        BY <2>1, ChildrenAgree
<1> QED
    BY <1>1, CopyFollows, PTL

\* Every child put into the node since the connection was given to a ChildAdded
\* handler, or it was there before and was given then (HandlePut).
THEOREM ChildrenAreTold == Spec => []AddedChildrenAreTold
<1>1. StreamInv => AddedChildrenAreTold
    BY AtRest DEF AddedChildrenAreTold, ToldRight
<1> QED
    BY <1>1, CopyFollows, PTL

\* At rest a ValueChanged handler was last given the value of the node (HandlePut,
\* HandlePatch), unless a write that the client mishandles was made to it.
THEOREM LatestValueIsTold == Spec => []ValueIsTold
<1>1. StreamInv => ValueIsTold
    <2> SUFFICES ASSUME StreamInv, Quiet, handler = "ValueChanged", mangled = {}
                 PROVE  {Trimmed(t) : t \in told} = {View(node)}
        BY DEF ValueIsTold
    <2>1. PICK E : IsNode(node) /\ Good(Cache, node, E, {})
        BY AtRest
    <2>2. Trimmed(Cache) = View(node)
        BY <2>1, CopyIsView
    <2>3. told = {Cache}
        BY AtRest DEF ToldRight
    <2> QED
        BY <2>2, <2>3
<1> QED
    BY <1>1, CopyFollows, PTL

\* An event whose handling throws tells of a write that the client mishandles.
LEMMA ThrowsOnlyIfMangled ==
    ASSUME StreamInv, events # <<>>, Head(events).type \in {"put", "patch"}, Throws(Head(events))
    PROVE  mangled # {}
<1> DEFINE e == events[1]
<1>1. Head(events) = e /\ e.type \in {"put", "patch"} /\ Throws(e)
    BY NextEvent
<1>2. PICK v, E :
        /\ IsNode(v) /\ EventOk(e, v, E[0], E[1], mangled, touched)
        /\ IsRootPut(e) \/ Good(Cache, v, E[0], mangled)
    BY NextEvent
<1> HIDE DEF e
<1>3. /\ WellFormed(e) /\ e.after = Written(v, e) /\ (IsRootPut(e) \/ Written(v, e) # v)
      /\ MangledBy(e, v, E[0]) => e.path[1] \in mangled
    BY <1>1, <1>2 DEF EventOk, Troubles
<1>4. ~IsRootPut(e)
    BY <1>1 DEF Throws, IsRootPut
<1>5. PatchDest(Cache, e) = Dest(e)
    BY DEF PatchDest, Dest
<1>6. IF e.type = "patch" THEN PatchDest(Cache, e) \in DOMAIN Cache /\ Cache[PatchDest(Cache, e)] # Obj
      ELSE /\ e.path # <<>> /\ ChildKey(e) \in DOMAIN Cache
           /\ IF DOMAIN e.data # {} THEN Cache[ChildKey(e)] # Obj ELSE Steps(e.path) \notin DOMAIN Cache
    BY <1>1, <1>5 DEF Throws
<1>7. e.path[1] \in mangled
    BY <1>2, <1>3, <1>4, <1>6, ThrowsIfMangled
<1> QED
    BY <1>7

\* The task dies of an event only if access is denied, the stream ends inside
\* an event, or a child was written in a way that the handlers do not expect.
THEOREM DiesForAReason == Spec => DiesOnlyOfMangling
<1>1. ASSUME StreamInv, [Next]_vars, phase = "reading", phase' = "failed"
      PROVE  Head(events).type \in {"cancel", "end"} \/ mangled # {}
    <2>1. CASE Die
        BY <1>1, <2>1, ThrowsOnlyIfMangled DEF Die
    <2>2. CASE ReceiveEnd
        BY <2>2 DEF ReceiveEnd, Reads
    <2>3. Die \/ ReceiveEnd
        BY <1>1 DEF Next, Task, Connect, TestLoop, ReceivePut, ReceivePatch, ReceiveKeepAlive,
                ReceiveAuthRevoked, SpinUntilStopped, Refuse, Stop, Write, Trouble, vars
    <2> QED
        BY <2>1, <2>2, <2>3
<1>2. StreamInv /\ [Next]_vars =>
        [phase = "reading" /\ phase' = "failed" =>
            Head(events).type \in {"cancel", "end"} \/ mangled # {}]_vars
    BY <1>1
<1> QED
    BY <1>2, CopyFollows, PTL DEF Spec, DiesOnlyOfMangling

-----------------------------------------------------------------------------
(* The copy takes the values of the node one after the other *)

\* The values that events tell of.
Values(evs) == [i \in DOMAIN evs |-> View(evs[i].after)]

\* The values that a sequence of events tells of.
LEMMA ValuesSeq ==
    ASSUME NEW S, NEW evs \in Seq(S)
    PROVE  LET W == {View(x.after) : x \in S} IN
           Values(evs) \in Seq(W) /\ Len(Values(evs)) = Len(evs)
           /\ \A i \in 1..Len(evs) : Values(evs)[i] = View(evs[i].after)
<1> DEFINE W == {View(x.after) : x \in S}
           n == Len(evs)
           f == [i \in 1..n |-> View(evs[i].after)]
<1>1. n \in Nat /\ DOMAIN evs = 1..n /\ \A i \in 1..n : evs[i] \in S
    BY LenProperties, ElementOfSeq
<1>2. Values(evs) = f
    BY <1>1 DEF Values
<1>3. \A i \in 1..n : f[i] = View(evs[i].after) /\ f[i] \in W
    BY <1>1
<1>4. f \in [1..n -> W]
    BY <1>3
<1> HIDE DEF f, W, n
<1>5. f \in Seq(W) /\ Len(f) = n
    BY <1>1, <1>4
<1> QED
    BY <1>2, <1>3, <1>5 DEF W, n

\* No events, no values.
LEMMA ValuesEmpty == Values(<<>>) = <<>>
<1> DEFINE z == <<>>
<1>1. z \in Seq({}) /\ Len(z) = 0
    OBVIOUS
<1> HIDE DEF z
<1> DEFINE W == {View(x.after) : x \in {}}
<1>2. Values(z) \in Seq(W) /\ Len(Values(z)) = 0
    BY <1>1, ValuesSeq
<1>3. Values(z) = <<>>
    BY <1>2, EmptySeq
<1> QED
    BY <1>3 DEF z

\* One event, one value.
LEMMA ValuesOne == ASSUME NEW e PROVE Values(<<e>>) = <<View(e.after)>>
<1> DEFINE s == <<e>>
           z == View(e.after)
           u == <<z>>
<1>1. s \in Seq({e}) /\ Len(s) = 1 /\ s[1] = e
    OBVIOUS
<1> HIDE DEF s
<1> DEFINE W == {View(x.after) : x \in {e}}
<1>2. Values(s) \in Seq(W) /\ Len(Values(s)) = 1 /\ Values(s)[1] = z
    BY <1>1, ValuesSeq
<1>3. W = {z}
    OBVIOUS
<1> HIDE DEF z, W
<1>4. u \in Seq({z}) /\ Len(u) = 1 /\ u[1] = z
    OBVIOUS
<1> HIDE DEF u
<1>5. \A i \in 1..1 : Values(s)[i] = u[i]
    BY <1>2, <1>4
<1>6. Values(s) = u
    BY <1>2, <1>3, <1>4, <1>5, SeqEqual
<1> QED
    BY <1>6 DEF s, u, z

\* An event more is a value more.
LEMMA ValuesAppend ==
    ASSUME NEW S, NEW evs \in Seq(S), NEW e
    PROVE  Values(Append(evs, e)) = Append(Values(evs), View(e.after))
<1> DEFINE R == S \cup {e}
           z == View(e.after)
           W == {View(x.after) : x \in R}
           a == Append(evs, e)
           b == Append(Values(evs), z)
           n == Len(evs)
<1>1. evs \in Seq(R) /\ e \in R /\ n \in Nat
    <2>1. \A i \in 1..n : evs[i] \in R
        BY ElementOfSeq
    <2>2. n \in Nat /\ evs \in [1..n -> R]
        BY <2>1, LenProperties
    <2> QED
        BY <2>2
<1> HIDE DEF R
<1>2. a \in Seq(R) /\ Len(a) = n + 1 /\ a[n + 1] = e /\ \A i \in 1..n : a[i] = evs[i]
    BY <1>1, AppendProperties
<1> HIDE DEF a
<1>3. Values(evs) \in Seq(W) /\ Len(Values(evs)) = n /\ \A i \in 1..n : Values(evs)[i] = View(evs[i].after)
    BY <1>1, ValuesSeq
<1>4. Values(a) \in Seq(W) /\ Len(Values(a)) = n + 1 /\ \A i \in 1..n + 1 : Values(a)[i] = View(a[i].after)
    BY <1>2, ValuesSeq
<1>5. z \in W
    BY <1>1
<1> HIDE DEF W, z
<1>6. b \in Seq(W) /\ Len(b) = n + 1 /\ b[n + 1] = z /\ \A i \in 1..n : b[i] = Values(evs)[i]
    BY <1>3, <1>5, AppendProperties
<1> HIDE DEF b
<1>7. ASSUME NEW i \in 1..n + 1 PROVE Values(a)[i] = b[i]
    <2>1. CASE i = n + 1
        BY <1>2, <1>4, <1>6, <2>1 DEF z
    <2>2. CASE i # n + 1
        <3>1. i \in 1..n
            BY <1>1, <2>2
        <3> QED
            BY <3>1, <1>2, <1>3, <1>4, <1>6
    <2> QED
        BY <2>1, <2>2
<1>8. Values(a) = b
    BY <1>4, <1>6, <1>7, SeqEqual
<1> QED
    BY <1>8 DEF a, b, z

\* An event less is a value less.
LEMMA ValuesTail ==
    ASSUME NEW S, NEW evs \in Seq(S), evs # <<>>
    PROVE  Values(evs) # <<>> /\ Head(Values(evs)) = View(evs[1].after) /\ Values(Tail(evs)) = Tail(Values(evs))
<1> DEFINE W == {View(x.after) : x \in S}
           n == Len(evs)
           a == Tail(evs)
           b == Tail(Values(evs))
<1>1. n \in Nat /\ n >= 1
    BY LenProperties, EmptySeq
<1>2. a \in Seq(S) /\ Len(a) = n - 1 /\ \A i \in 1..n - 1 : a[i] = evs[i + 1]
    BY HeadTailProperties
<1> HIDE DEF a
<1>3. Values(evs) \in Seq(W) /\ Len(Values(evs)) = n /\ \A i \in 1..n : Values(evs)[i] = View(evs[i].after)
    BY ValuesSeq
<1>4. Values(a) \in Seq(W) /\ Len(Values(a)) = n - 1 /\ \A i \in 1..n - 1 : Values(a)[i] = View(a[i].after)
    BY <1>2, ValuesSeq
<1> HIDE DEF W, n
<1>5. Values(evs) # <<>>
    BY <1>1, <1>3, EmptySeq
<1>6. /\ b \in Seq(W) /\ Len(b) = n - 1 /\ \A i \in 1..n - 1 : b[i] = Values(evs)[i + 1]
      /\ Head(Values(evs)) = Values(evs)[1]
    BY <1>3, <1>5, HeadTailProperties
<1> HIDE DEF b
<1>7. ASSUME NEW i \in 1..n - 1 PROVE Values(a)[i] = b[i]
    <2>1. i + 1 \in 1..n
        BY <1>1
    <2> QED
        BY <2>1, <1>2, <1>3, <1>4, <1>6
<1>8. n - 1 \in Nat
    BY <1>1
<1>9. Values(a) = b
    BY <1>4, <1>6, <1>7, SeqEqual
<1>10. Values(evs)[1] = View(evs[1].after)
    BY <1>1, <1>3
<1> QED
    BY <1>5, <1>6, <1>9, <1>10 DEF a, b

\* The copy after an event that was handled.
LEMMA Handled ==
    ASSUME StreamInv, events # <<>>, mangled = {},
           \/ events[1].type \in {"put", "patch"} /\ Result(Cache, events[1], Cache')
           \/ events[1].type \in Troubles /\ Cache' = Cache
    PROVE  Trimmed(Cache') = View(events[1].after)
<1> DEFINE e == events[1]
<1>1. PICK v, E :
        /\ IsNode(v) /\ EventOk(e, v, E[0], E[1], mangled, touched)
        /\ IsRootPut(e) \/ Good(Cache, v, E[0], mangled)
    BY NextEvent
<1>2. \/ e.type \in {"put", "patch"} /\ Result(Cache, e, Cache')
      \/ e.type \in Troubles /\ Cache' = Cache
    OBVIOUS
<1> HIDE DEF e
<1>3. CASE e.type \in {"put", "patch"}
    <2>1. /\ WellFormed(e) /\ e.after = Written(v, e) /\ (IsRootPut(e) \/ Written(v, e) # v)
          /\ MangledBy(e, v, E[0]) => e.path[1] \in mangled
          /\ EmptiedBy(e, v) => e.path[1] \in E[1]
          /\ E[0] \subseteq E[1] /\ IsNode(e.after) /\ Result(Cache, e, Cache')
        BY <1>1, <1>2, <1>3 DEF EventOk, Troubles
    <2>2. Good(Cache', Written(v, e), E[1], mangled)
        BY <1>1, <2>1, EventKept
    <2>3. Good(Cache', e.after, E[1], {})
        BY <2>1, <2>2
    <2>4. Trimmed(Cache') = View(e.after)
        BY <2>1, <2>3, CopyIsView
    <2> QED
        BY <2>4 DEF e
<1>4. CASE e.type \in Troubles
    <2>1. ~IsRootPut(e) /\ e.after = v /\ Cache' = Cache
        BY <1>1, <1>2, <1>4 DEF EventOk, IsRootPut, Troubles, WellFormed
    <2>2. Good(Cache, v, E[0], {})
        BY <1>1, <2>1
    <2>3. Trimmed(Cache) = View(v)
        BY <1>1, <2>2, CopyIsView
    <2> QED
        BY <2>1, <2>3 DEF e
<1> QED
    BY <1>2, <1>3, <1>4

\* Pending is the values of the events.
LEMMA PendingValues ==
    /\ Pending = Values(events) /\ Pending' = Values(events')
    /\ StreamInv => \E S : events \in Seq(S)
<1>1. Pending = Values(events) /\ Pending' = Values(events')
    BY DEF Pending, Values
<1>2. StreamInv => \E S : events \in Seq(S)
    BY DEF StreamInv, Follows, Stream
<1> QED
    BY <1>1, <1>2

\* The first state is one of NodeCopy.
LEMMA CopyInit == Init => Copy!Init
<1> SUFFICES ASSUME Init PROVE Copy!Init
    OBVIOUS
<1>1. events = <<>> /\ mangled = {}
    BY DEF Init
<1>2. Pending = <<>>
    BY <1>1, PendingValues, ValuesEmpty
<1> QED
    BY <1>1, <1>2 DEF Copy!Init

\* Handling an event is a step of the copy to the next value.
LEMMA FollowStep ==
    ASSUME StreamInv, events # <<>>, events' = Tail(events), UNCHANGED <<node, mangled>>,
           \/ events[1].type \in {"put", "patch"} /\ Result(Cache, events[1], Cache')
           \/ events[1].type \in Troubles /\ Cache' = Cache
    PROVE  Copy!Follow
<1>1. PICK S : events \in Seq(S)
    BY PendingValues
<1>2. /\ Values(events) # <<>> /\ Head(Values(events)) = View(events[1].after)
      /\ Values(Tail(events)) = Tail(Values(events))
    BY <1>1, ValuesTail
<1>3. Pending # <<>> /\ Head(Pending) = View(events[1].after) /\ Pending' = Tail(Pending)
    BY <1>2, PendingValues
<1>4. mangled # {} \/ Trimmed(Cache') = View(events[1].after)
    BY Handled
<1>5. UNCHANGED <<View(node), mangled # {}>>
    OBVIOUS
<1>6. Trimmed(Cache)' = Trimmed(Cache')
    OBVIOUS
<1> QED
    BY <1>3, <1>4, <1>5, <1>6 DEF Copy!Follow

\* An event that tells of the node's value joins those on their way.
LEMMA WriteStep ==
    ASSUME StreamInv, NEW e, events' = Append(events, e), e.after = node', Cache' = Cache,
           mangled \subseteq mangled'
    PROVE  Copy!Write
<1>1. PICK S : events \in Seq(S)
    BY PendingValues
<1>2. Values(Append(events, e)) = Append(Values(events), View(e.after))
    BY <1>1, ValuesAppend
<1>3. Pending' = Append(Pending, View(node'))
    BY <1>2, PendingValues
<1>4. View(node)' = View(node') /\ Trimmed(Cache)' = Trimmed(Cache)
    OBVIOUS
<1>5. mangled # {} => mangled' # {}
    OBVIOUS
<1> QED
    BY <1>3, <1>4, <1>5 DEF Copy!Write

\* Every step is one of NodeCopy, or changes nothing that it sees.
LEMMA CopyStep == StreamInv /\ [Next]_vars => [Copy!Next]_(Copy!vars)
<1> SUFFICES ASSUME StreamInv, [Next]_vars PROVE Copy!Next \/ UNCHANGED Copy!vars
    OBVIOUS
<1>1. CASE Connect
    <2> DEFINE e == [type |-> "put", path |-> <<>>, data |-> node, after |-> node]
    <2>1. events' = <<e>> /\ e.after = node /\ mangled' = {} /\ UNCHANGED <<node, Cache>>
        BY <1>1 DEF Connect
    <2> HIDE DEF e
    <2>2. Values(<<e>>) = <<View(e.after)>>
        BY ValuesOne
    <2>3. Pending' = <<View(node)>>
        BY <2>1, <2>2, PendingValues
    <2>4. Copy!Resync
        BY <2>1, <2>3 DEF Copy!Resync
    <2> QED
        BY <2>4 DEF Copy!Next
<1>2. CASE ReceivePut \/ ReceivePatch \/ ReceiveKeepAlive \/ ReceiveEnd
    <2>1. events # <<>> /\ events' = Tail(events) /\ UNCHANGED <<node, mangled>>
        BY <1>2 DEF ReceivePut, ReceivePatch, ReceiveKeepAlive, ReceiveEnd, Reads, Consume, since
    <2>2. Head(events) = events[1]
        BY <2>1, NextEvent
    <2>3. \/ events[1].type \in {"put", "patch"} /\ Result(Cache, events[1], Cache')
          \/ events[1].type \in Troubles /\ Cache' = Cache
        <3>1. CASE ReceivePut
            BY <3>1, <2>2, PutDoes DEF ReceivePut, Reads
        <3>2. CASE ReceivePatch
            BY <3>2, <2>2, PatchDoes DEF ReceivePatch, Reads
        <3>3. CASE ReceiveKeepAlive \/ ReceiveEnd
            BY <3>3, <2>2 DEF ReceiveKeepAlive, ReceiveEnd, Reads, Troubles
        <3> QED
            BY <1>2, <3>1, <3>2, <3>3
    <2>4. Copy!Follow
        BY <2>1, <2>3, FollowStep
    <2> QED
        BY <2>4 DEF Copy!Next
<1>3. CASE Die \/ ReceiveAuthRevoked
    <2>1. events' = <<>> /\ UNCHANGED <<node, Cache, mangled>>
        BY <1>3 DEF Die, ReceiveAuthRevoked, since
    <2>2. Pending' = <<>>
        BY <2>1, PendingValues, ValuesEmpty
    <2>3. Copy!Break
        BY <2>1, <2>2 DEF Copy!Break
    <2> QED
        BY <2>3 DEF Copy!Next
<1>4. CASE TestLoop \/ Refuse \/ SpinUntilStopped \/ Stop \/ UNCHANGED vars
    <2>1. UNCHANGED <<node, events, Cache, mangled>>
        BY <1>4 DEF TestLoop, Refuse, SpinUntilStopped, Stop, vars, since
    <2>2. Pending' = Pending
        BY <2>1, PendingValues
    <2> QED
        BY <2>1, <2>2 DEF Copy!vars
<1>5. ASSUME NEW w \in writes, Write(w) PROVE Copy!Next
    <2>1. IsWrite(w) /\ node' = Written(node, w) /\ Cache' = Cache
        BY <1>5 DEF StreamInv, Write
    <2>2. CASE open
        <3>1. events' = Append(events, Event(w, node')) /\ mangled \subseteq mangled'
            BY <1>5, <2>1, <2>2 DEF Write
        <3>2. Event(w, node').after = node'
            BY <2>1, WriteEvent
        <3>3. Copy!Write
            BY <2>1, <3>1, <3>2, WriteStep
        <3> QED
            BY <3>3 DEF Copy!Next
    <2>3. CASE ~open
        <3>1. UNCHANGED <<events, mangled, Cache>>
            BY <1>5, <2>3 DEF Write, since
        <3>2. Pending' = Pending
            BY <3>1, PendingValues
        <3>3. Copy!Write
            BY <3>1, <3>2 DEF Copy!Write
        <3> QED
            BY <3>3 DEF Copy!Next
    <2> QED
        BY <2>2, <2>3
<1>6. ASSUME NEW type \in Troubles, Trouble(type) PROVE Copy!Next
    <2> DEFINE e == [type |-> type, after |-> node]
    <2>1. events' = Append(events, e) /\ e.after = node' /\ Cache' = Cache /\ mangled \subseteq mangled'
        BY <1>6 DEF Trouble, since
    <2> HIDE DEF e
    <2>2. Copy!Write
        BY <2>1, WriteStep
    <2> QED
        BY <2>2 DEF Copy!Next
<1> QED
    BY <1>1, <1>2, <1>3, <1>4, <1>5, <1>6 DEF Next, Task

\* The subscription implements NodeCopy: the copy takes the values of the node in
\* their order (RunAsync, HandlePut, HandlePatch), until a write that the
\* client mishandles leads it astray or the connection ends.
THEOREM CopyRefines == Spec => FollowsTheNode
<1> QED
    BY CopyInit, CopyStep, CopyFollows, PTL DEF Spec, FollowsTheNode, Copy!Spec
=============================================================================
