------------------------- MODULE SyncedStrokesProofs -------------------------
(* Theorems about SyncedStrokes, for any clients, strokes, clocks and bounds. *)
EXTENDS SyncedStrokes, TLAPS

USE DEF Map, Entry

LEMMA EditType ==
    ASSUME NEW c \in Clients, NEW n \in Nat, NEW g \in BOOLEAN
    PROVE  [by |-> c, at |-> n, gone |-> g] \in Edit
BY DEF Edit

\* Changing one client's k-th thread keeps the type of a table of threads.
LEMMA TableUpdate ==
    ASSUME NEW S, NEW f \in [Clients -> [Starts -> S]],
           NEW c \in Clients, NEW k \in Starts, NEW v \in S
    PROVE  [f EXCEPT ![c][k] = v] \in [Clients -> [Starts -> S]]
OBVIOUS

LEMMA NoEntryType == NoEntry \in Map
BY DEF NoEntry

LEMMA MergedType ==
    ASSUME NEW map \in Map \cup {NoMap}, NEW override \in Map
    PROVE  Merged(map, override) \in Map
BY SentinelAssumption DEF Merged

LEMMA InitType == Init => TypeOK
<1> SUFFICES ASSUME Init PROVE TypeOK
  OBVIOUS
<1>1. db \in Map
  <2>1. [by |-> Creator, at |-> 0, gone |-> FALSE] \in Edit
    BY ClientsAssumption, EditType
  <2> QED BY <2>1 DEF Init
<1>2. written \in [Strokes -> SUBSET Edit]
  BY <1>1 DEF Init
<1>3. feed \in [Clients -> [Starts -> Seq(Map)]]
  BY DEF Init
<1> QED
  BY <1>1, <1>2, <1>3, NoEntryType DEF Init, TypeOK, WriterStates, ListenerStates

\* What UpdateStroke changes has its type afterwards.
LEMMA UpdateStrokeType ==
    ASSUME TypeOK, NEW c \in Clients, NEW touched \in SUBSET Strokes, NEW gone \in BOOLEAN,
           UpdateStroke(c, touched, gone), StrokesMap' \in [Clients -> Map \cup {NoMap}],
           inMap' \in [Clients -> SUBSET Strokes],
           snapshot' \in [Clients -> [Starts -> Map]],
           shared' \in [Clients -> [Starts -> SUBSET Strokes]],
           restamped' \in [Strokes -> SUBSET Edit]
    PROVE  TypeOK'
<1> DEFINE e == [by |-> c, at |-> clock[c] + 1, gone |-> gone]
<1>1. e \in Edit /\ clock' \in [Clients -> Nat]
  BY EditType DEF TypeOK, UpdateStroke
<1>2. ASSUME NEW f \in [Clients -> Map]
      PROVE  [f EXCEPT ![c] = [s \in Strokes |-> IF s \in touched THEN e ELSE f[c][s]]]
                \in [Clients -> Map]
  BY <1>1
<1>3. /\ StrokesToUpdate' \in [Clients -> Map]
      /\ StrokesMapOverride' \in [Clients -> Map]
      /\ own' \in [Clients -> Map]
  BY <1>2 DEF TypeOK, UpdateStroke
<1>4. UNCHANGED <<databaseVars, startVars, writer, tokenVars, listenVars, session, lost>>
  BY DEF UpdateStroke
<1> HIDE DEF e
<1> QED
  BY <1>1, <1>3, <1>4 DEF TypeOK, databaseVars, startVars, tokenVars, listenVars

\* The edit that UpdateStroke makes.
LEMMA OwnEdit ==
    ASSUME TypeOK, NEW c \in Clients, NEW s \in Strokes, NEW gone \in BOOLEAN,
           UpdateStroke(c, {s}, gone)
    PROVE  /\ own'[c][s] \in Edit
           /\ own'[c][s] = [by |-> c, at |-> clock[c] + 1, gone |-> gone]
<1>1. own'[c][s] = [by |-> c, at |-> clock[c] + 1, gone |-> gone]
  BY DEF UpdateStroke, TypeOK
<1>2. clock[c] + 1 \in Nat
  BY DEF TypeOK
<1> QED
  BY <1>1, <1>2, EditType

\* MergeInto keeps the types.
LEMMA MergeIntoType ==
    ASSUME TypeOK, NEW c \in Clients, MergeInto(c)
    PROVE  /\ StrokesMap' \in [Clients -> Map \cup {NoMap}]
           /\ inMap' \in [Clients -> SUBSET Strokes]
<1>1. View(c) \in Map
  BY MergedType DEF View, TypeOK
<1> QED
  BY <1>1 DEF MergeInto, TypeOK

\* A process that ends keeps the types.
LEMMA CrashType ==
    ASSUME TypeOK, NEW c \in Clients, Crash(c)
    PROVE  /\ session' \in [Clients -> {"open", "left", "crashed"}]
           /\ writer' \in [Clients -> [Starts -> WriterStates]]
           /\ snapshot' \in [Clients -> [Starts -> Map]]
           /\ shared' \in [Clients -> [Starts -> SUBSET Strokes]]
           /\ StrokesToUpdate' \in [Clients -> Map]
           /\ lost' \in [Strokes -> SUBSET Edit]
<1>1. /\ session' \in [Clients -> {"open", "left", "crashed"}]
      /\ writer' \in [Clients -> [Starts -> WriterStates]]
      /\ shared' \in [Clients -> [Starts -> SUBSET Strokes]]
  BY DEF Crash, TypeOK, WriterStates
<1>2. snapshot' \in [Clients -> [Starts -> Map]] /\ StrokesToUpdate' \in [Clients -> Map]
  BY NoEntryType DEF Crash, TypeOK
<1>3. ASSUME NEW s \in Strokes
      PROVE  ({StrokesToUpdate[c][s]} \cup {snapshot[c][k][s] : k \in Starts})
                 \ ({None} \cup written[s] \cup SentBodies(c, s)) \subseteq Edit
  <2>1. StrokesToUpdate[c][s] \in Entry /\ \A k \in Starts : snapshot[c][k][s] \in Entry
    BY DEF TypeOK
  <2> QED
    BY <2>1
<1>4. lost' \in [Strokes -> SUBSET Edit]
  BY <1>3 DEF Crash, TypeOK
<1> QED
  BY <1>1, <1>2, <1>4

\* Every step keeps the types.
LEMMA StepType == TypeOK /\ [Next]_vars => TypeOK'
<1> SUFFICES ASSUME TypeOK, [Next]_vars PROVE TypeOK'
  OBVIOUS
<1> USE DEF databaseVars, clientVars, startVars, writerVars, bodyVars, tokenVars, listenVars,
            WriterStates, ListenerStates
<1> NoEntry \in Map
  BY NoEntryType
<1>2. ASSUME NEW c \in Clients, NEW s \in Strokes, Draw(c, s) PROVE TypeOK'
  BY <1>2, UpdateStrokeType DEF Draw, TypeOK
<1>3. ASSUME NEW c \in Clients, NEW s \in Strokes, Transform(c, s) PROVE TypeOK'
  <2>1. UpdateStroke(c, {s}, FALSE) /\ own'[c][s] \in Edit
    BY <1>3, OwnEdit DEF Transform
  <2>2. /\ StrokesMap' \in [Clients -> Map \cup {NoMap}]
        /\ inMap' \in [Clients -> SUBSET Strokes]
    BY <1>3, <2>1 DEF Transform, TypeOK, Contains
  <2>3. snapshot' \in [Clients -> [Starts -> Map]]
    <3>1. ASSUME NEW k \in Starts
          PROVE  (IF k \in SharingWriters(c, s)
                  THEN [snapshot[c][k] EXCEPT ![s] = own'[c][s]] ELSE snapshot[c][k]) \in Map
      BY <2>1 DEF TypeOK
    <3> QED
      BY <1>3, <3>1 DEF Transform, TypeOK
  <2>4. shared' \in [Clients -> [Starts -> SUBSET Strokes]]
    <3>1. ASSUME NEW k \in Starts
          PROVE  (IF s \in inMap[c] THEN shared[c][k] ELSE shared[c][k] \ {s}) \in SUBSET Strokes
      BY DEF TypeOK
    <3> QED
      BY <1>3, <3>1 DEF Transform, TypeOK
  <2>5. restamped' \in [Strokes -> SUBSET Edit]
    BY <1>3, <2>1 DEF Transform, TypeOK
  <2> QED
    BY <2>1, <2>2, <2>3, <2>4, <2>5, UpdateStrokeType
<1>4. ASSUME NEW c \in Clients, NEW s \in Strokes, Erase(c, s) PROVE TypeOK'
  BY <1>4, UpdateStrokeType DEF Erase, TypeOK
<1>5. ASSUME NEW c \in Clients, NEW s \in Strokes, Undo(c, s) PROVE TypeOK'
  BY <1>5, MergeIntoType, UpdateStrokeType DEF Undo, TypeOK
<1>6. ASSUME NEW c \in Clients, Reset(c) PROVE TypeOK'
  <2> DEFINE touched == {s \in Strokes : Present(View(c)[s])}
  <2>1. /\ touched \in SUBSET Strokes /\ UpdateStroke(c, touched, TRUE)
        /\ MergeInto(c) /\ UNCHANGED bodyVars
    BY <1>6 DEF Reset
  <2> HIDE DEF touched
  <2> QED
    BY <2>1, MergeIntoType, UpdateStrokeType DEF TypeOK
<1>7. ASSUME NEW c \in Clients, CrashOnNullMap(c) PROVE TypeOK'
  BY <1>7, CrashType DEF CrashOnNullMap, TypeOK
<1>8. ASSUME NEW c \in Clients, StopSync(c) PROVE TypeOK'
  BY <1>8 DEF StopSync, TypeOK
<1>9. ASSUME NEW c \in Clients, NEW k \in Starts, StartOnlineSync(c, k) PROVE TypeOK'
  BY <1>9 DEF StartOnlineSync, TypeOK
<1>10. ASSUME NEW c \in Clients, NEW k \in Starts, ContinueStart(c, k) PROVE TypeOK'
  <2>1. pulled[c][k] \in Map
    BY DEF TypeOK
  <2>2. /\ StrokesMap' \in [Clients -> Map \cup {NoMap}]
        /\ inMap' \in [Clients -> SUBSET Strokes]
    BY <1>10, <2>1 DEF ContinueStart, TypeOK
  <2>3. /\ start' \in [Clients -> [Starts -> {"idle", "pulling", "done"}]]
        /\ pulled' \in [Clients -> [Starts -> Map]]
        /\ token' \in [Clients -> Starts \cup {0}]
    BY <1>10 DEF ContinueStart, TypeOK
  <2>4. UNCHANGED <<databaseVars, StrokesMapOverride, restamped, watched, cancelled,
                    seen, doomed, stuck, clock, own>>
    BY <1>10 DEF ContinueStart
  <2>5. CASE Crash(c) /\ UNCHANGED listener
    BY <2>2, <2>3, <2>4, <2>5, CrashType DEF TypeOK
  <2>6. CASE /\ listener' = [listener EXCEPT ![c][k] = "connecting"]
             /\ writer' = [writer EXCEPT ![c][k] = "queued"]
             /\ UNCHANGED <<session, snapshot, shared, StrokesToUpdate, lost>>
    <3>1. /\ writer' \in [Clients -> [Starts -> WriterStates]]
          /\ listener' \in [Clients -> [Starts -> ListenerStates]]
      BY <2>6, TableUpdate DEF TypeOK
    <3> QED
      BY <2>2, <2>3, <2>4, <2>6, <3>1 DEF TypeOK
  <2> QED
    BY <1>10, <2>5, <2>6 DEF ContinueStart
<1>11. ASSUME NEW c \in Clients, NEW k \in Starts, CopyUpdates(c, k) PROVE TypeOK'
  BY <1>11 DEF CopyUpdates, TypeOK
<1>12. ASSUME NEW c \in Clients, NEW k \in Starts, ClearUpdates(c, k) PROVE TypeOK'
  <2>1. lost' \in [Strokes -> SUBSET Edit]
    <3>1. ASSUME NEW s \in Strokes
          PROVE  {StrokesToUpdate[c][s]}
                     \ ({None} \cup written[s] \cup {snapshot[c][j][s] : j \in Starts}) \subseteq Edit
      BY DEF TypeOK
    <3> QED
      BY <1>12, <3>1 DEF ClearUpdates, TypeOK
  <2>2. StrokesToUpdate' \in [Clients -> Map]
    BY <1>12 DEF ClearUpdates, TypeOK
  <2> QED
    BY <1>12, <2>1, <2>2 DEF ClearUpdates, TypeOK
<1>13. ASSUME NEW c \in Clients, NEW k \in Starts, ApplyPatch(c, k) PROVE TypeOK'
  <2>1. db' \in Map
    BY <1>13 DEF ApplyPatch, TypeOK
  <2>2. feed' \in [Clients -> [Starts -> Seq(Map)]]
    <3>1. ASSUME NEW d \in Clients, NEW j \in Starts
          PROVE  (IF IsSubscribed(d, j) THEN Append(feed[d][j], db') ELSE feed[d][j]) \in Seq(Map)
      BY <2>1 DEF TypeOK
    <3> QED
      BY <1>13, <3>1 DEF ApplyPatch
  <2>3. written' \in [Strokes -> SUBSET Edit]
    <3>1. ASSUME NEW s \in Strokes PROVE {snapshot[c][k][s]} \ {None} \subseteq Edit
      BY DEF TypeOK
    <3>2. written' = [s \in Strokes |-> written[s] \cup ({snapshot[c][k][s]} \ {None})]
      BY <1>13 DEF ApplyPatch
    <3>3. ASSUME NEW s \in Strokes PROVE written[s] \subseteq Edit
      BY DEF TypeOK
    <3> QED
      BY <3>1, <3>2, <3>3
  <2>4. writer' \in [Clients -> [Starts -> WriterStates]]
    <3>1. writer' \in {[writer EXCEPT ![c][k] = "looping"], [writer EXCEPT ![c][k] = "dead"]}
      BY <1>13 DEF ApplyPatch, TopOfLoop
    <3>2. ASSUME NEW v \in {"looping", "dead"}
          PROVE  [writer EXCEPT ![c][k] = v] \in [Clients -> [Starts -> WriterStates]]
      BY TableUpdate DEF TypeOK
    <3> QED
      BY <3>1, <3>2
  <2>5. snapshot' \in [Clients -> [Starts -> Map]]
    BY <1>13 DEF ApplyPatch, TypeOK
  <2> QED
    BY <1>13, <2>1, <2>2, <2>3, <2>4, <2>5 DEF ApplyPatch, TypeOK
<1>14. ASSUME NEW c \in Clients, NEW k \in Starts, FailPatch(c, k) PROVE TypeOK'
  <2>1. writer' \in [Clients -> [Starts -> WriterStates]]
    <3>1. writer' \in {[writer EXCEPT ![c][k] = "looping"], [writer EXCEPT ![c][k] = "dead"]}
      BY <1>14 DEF FailPatch, TopOfLoop
    <3>2. ASSUME NEW v \in {"looping", "dead"}
          PROVE  [writer EXCEPT ![c][k] = v] \in [Clients -> [Starts -> WriterStates]]
      BY TableUpdate DEF TypeOK
    <3> QED
      BY <3>1, <3>2
  <2>2. lost' \in [Strokes -> SUBSET Edit]
    <3>1. ASSUME NEW s \in Strokes
          PROVE  {snapshot[c][k][s]} \ ({None, StrokesToUpdate[c][s]} \cup written[s]
                     \cup {snapshot[c][j][s] : j \in Starts \ {k}}) \subseteq Edit
      BY DEF TypeOK
    <3> QED
      BY <1>14, <3>1 DEF FailPatch, TypeOK
  <2>3. /\ snapshot' \in [Clients -> [Starts -> Map]]
        /\ shared' \in [Clients -> [Starts -> SUBSET Strokes]]
    BY <1>14 DEF FailPatch, TypeOK
  <2> QED
    BY <1>14, <2>1, <2>2, <2>3 DEF FailPatch, TypeOK
<1>15. ASSUME NEW c \in Clients, NEW k \in Starts, Connect(c, k) PROVE TypeOK'
  BY <1>15 DEF Connect, TypeOK
<1>16. ASSUME NEW c \in Clients, NEW k \in Starts, ReceiveStrokes(c, k) PROVE TypeOK'
  <2>1. Head(feed[c][k]) \in Map /\ Tail(feed[c][k]) \in Seq(Map)
    BY <1>16 DEF ReceiveStrokes, TypeOK
  <2>2. seen' \in [Clients -> [Starts -> SUBSET Strokes]]
    BY <1>16, TableUpdate DEF ReceiveStrokes, TypeOK
  <2> QED
    BY <1>16, <2>1, <2>2 DEF ReceiveStrokes, TypeOK
<1>17. ASSUME NEW c \in Clients, NEW k \in Starts, CheckOverrides(c, k) PROVE TypeOK'
  BY <1>17 DEF CheckOverrides, Acknowledged, TypeOK
<1>18. ASSUME NEW c \in Clients, NEW k \in Starts, PurgeOverrides(c, k) PROVE TypeOK'
  BY <1>18 DEF PurgeOverrides, TypeOK
<1>19. ASSUME NEW c \in Clients, NEW k \in Starts, RefreshCanvas(c, k) PROVE TypeOK'
  BY <1>19, MergeIntoType DEF RefreshCanvas, TypeOK
<1>20. ASSUME NEW c \in Clients, NEW k \in Starts, EndListener(c, k) PROVE TypeOK'
  BY <1>20 DEF EndListener, TypeOK
<1>21. ASSUME NEW c \in Clients, NEW k \in Starts, StartWriter(c, k) PROVE TypeOK'
  BY <1>21 DEF StartWriter, TopOfLoop, TypeOK
<1>22. ASSUME NEW c \in Clients, NEW k \in Starts, EndWriter(c, k) PROVE TypeOK'
  BY <1>22 DEF EndWriter, TypeOK
<1>23. ASSUME NEW c \in Clients, NEW k \in Starts, FailPull(c, k) PROVE TypeOK'
  BY <1>23, CrashType DEF FailPull, TypeOK
<1>25. ASSUME NEW c \in Clients, NEW k \in Starts, SerializePatch(c, k) PROVE TypeOK'
  BY <1>25 DEF SerializePatch, TypeOK
<1>24. CASE UNCHANGED vars
  BY <1>24 DEF vars, TypeOK
<1> QED
  BY <1>2, <1>3, <1>4, <1>5, <1>6, <1>7, <1>8, <1>9, <1>10, <1>11, <1>12, <1>13, <1>14,
     <1>15, <1>16, <1>17, <1>18, <1>19, <1>20, <1>21, <1>22, <1>23, <1>24, <1>25
  DEF Next, UserAction, SystemAction

\* Every reachable state of SyncedStrokes is well typed: in particular the
\* maps of a client only ever hold edits of clients, or nothing.
THEOREM TypeCorrect == Spec => []TypeOK
<1> QED
  BY InitType, StepType, PTL DEF Spec

-----------------------------------------------------------------------------
(***************************************************************************)
(* EditsAccounted. It is not inductive alone: ApplyPatch and FailPatch     *)
(* empty a snapshot and CopyUpdates overwrites one, so a snapshot that is  *)
(* not being sent must hold nothing.                                       *)
(***************************************************************************)

\* c's latest edit of s is accounted for.
Accounted(c, s) ==
    \/ own[c][s] \in {None, StrokesToUpdate[c][s]} \cup written[s] \cup lost[s]
    \/ \E k \in Starts : own[c][s] = snapshot[c][k][s]

LEMMA InitAccount == Init => AccountInv
<1> SUFFICES ASSUME Init PROVE EditsAccounted /\ SnapshotsInUse
  BY InitType DEF AccountInv
<1> QED
  BY DEF Init, EditsAccounted, SnapshotsInUse, NoEntry

(***************************************************************************)
(* An edit of the user leaves the writers where they are and changes only  *)
(* what open snapshots share.                                              *)
(***************************************************************************)
Edits(c, touched, gone) ==
    /\ UpdateStroke(c, touched, gone)
    /\ \A d \in Clients : \A k \in Starts : shared'[d][k] \subseteq shared[d][k]
    /\ \A d \in Clients : \A k \in Starts : \A s \in Strokes :
          \/ snapshot'[d][k][s] = snapshot[d][k][s]
          \/ /\ d = c /\ s \in touched /\ ~gone /\ s \in shared[c][k]
             /\ snapshot'[c][k][s] = own'[c][s]
             /\ writer[c][k] = "asking" => own'[c][s] \in restamped'[s]
    /\ \A s \in Strokes : restamped[s] \subseteq restamped'[s]
    /\ \A k \in Starts : shared[c][k] = {} => snapshot'[c][k] = snapshot[c][k]
    /\ \A d \in Clients \ {c} : snapshot'[d] = snapshot[d] /\ shared'[d] = shared[d]

LEMMA TransformEdits ==
    ASSUME TypeOK, NEW c \in Clients, NEW s \in Strokes, Transform(c, s)
    PROVE  Edits(c, {s}, FALSE)
<1> DEFINE e == own'[c][s]
<1>1. /\ UpdateStroke(c, {s}, FALSE)
      /\ snapshot' = [snapshot EXCEPT ![c] = [k \in Starts |->
            IF k \in SharingWriters(c, s) THEN [snapshot[c][k] EXCEPT ![s] = e] ELSE snapshot[c][k]]]
      /\ shared' = [shared EXCEPT ![c] = [k \in Starts |->
            IF s \in inMap[c] THEN shared[c][k] ELSE shared[c][k] \ {s}]]
      /\ restamped' = [restamped EXCEPT ![s] =
            IF \E k \in SharingWriters(c, s) : writer[c][k] = "asking"
            THEN restamped[s] \cup {e} ELSE restamped[s]]
  BY DEF Transform
<1> HIDE DEF e
<1>2. \A d \in Clients \ {c} : snapshot'[d] = snapshot[d] /\ shared'[d] = shared[d]
  BY <1>1 DEF TypeOK
<1>3. ASSUME NEW k \in Starts
      PROVE  /\ shared'[c][k] \subseteq shared[c][k]
             /\ snapshot'[c][k] = IF k \in SharingWriters(c, s)
                                  THEN [snapshot[c][k] EXCEPT ![s] = e] ELSE snapshot[c][k]
             /\ snapshot[c][k] \in Map
  BY <1>1 DEF TypeOK
<1>4. /\ \A x \in Strokes : restamped[x] \subseteq restamped'[x]
      /\ \A k \in SharingWriters(c, s) : writer[c][k] = "asking" => e \in restamped'[s]
  BY <1>1 DEF TypeOK
<1>5. ASSUME NEW k \in Starts, NEW x \in Strokes
      PROVE  \/ snapshot'[c][k][x] = snapshot[c][k][x]
             \/ /\ x = s /\ s \in shared[c][k] /\ snapshot'[c][k][s] = e
                /\ writer[c][k] = "asking" => e \in restamped'[s]
  <2>1. CASE k \in SharingWriters(c, s) /\ x = s
    <3>1. snapshot'[c][k][s] = e
      BY <1>3, <2>1
    <3> QED
      BY <1>4, <2>1, <3>1 DEF SharingWriters
  <2>2. CASE ~(k \in SharingWriters(c, s) /\ x = s)
    BY <1>3, <2>2
  <2> QED
    BY <2>1, <2>2
<1>6. \A k \in Starts : shared[c][k] = {} => snapshot'[c][k] = snapshot[c][k]
  BY <1>3 DEF SharingWriters
<1>7. ASSUME NEW d \in Clients, NEW k \in Starts, NEW x \in Strokes
      PROVE  /\ shared'[d][k] \subseteq shared[d][k]
             /\ \/ snapshot'[d][k][x] = snapshot[d][k][x]
                \/ /\ d = c /\ x \in {s} /\ ~FALSE /\ x \in shared[c][k]
                   /\ snapshot'[c][k][x] = own'[c][x]
                   /\ writer[c][k] = "asking" => own'[c][x] \in restamped'[x]
  <2>1. CASE d = c
    BY <1>3, <1>5, <2>1 DEF e
  <2>2. CASE d # c
    BY <1>2, <2>2
  <2> QED
    BY <2>1, <2>2
<1>8. UpdateStroke(c, {s}, FALSE)
  BY <1>1
<1>9. \A d \in Clients : \A k \in Starts : shared'[d][k] \subseteq shared[d][k]
  BY <1>2, <1>3
<1>10. \A d \in Clients : \A k \in Starts : \A x \in Strokes :
          \/ snapshot'[d][k][x] = snapshot[d][k][x]
          \/ /\ d = c /\ x \in {s} /\ ~FALSE /\ x \in shared[c][k]
             /\ snapshot'[c][k][x] = own'[c][x]
             /\ writer[c][k] = "asking" => own'[c][x] \in restamped'[x]
  BY <1>7, Zenon
<1>11. \A x \in Strokes : restamped[x] \subseteq restamped'[x]
  BY <1>4
<1> QED
  BY <1>2, <1>6, <1>8, <1>9, <1>10, <1>11, Zenon DEF Edits

\* UpdateStroke alone, with the snapshots left as they are.
LEMMA PlainEdits ==
    ASSUME NEW c \in Clients, NEW touched \in SUBSET Strokes, NEW gone \in BOOLEAN,
           UpdateStroke(c, touched, gone), UNCHANGED bodyVars
    PROVE  Edits(c, touched, gone)
BY DEF Edits, bodyVars

\* What the user does is an edit or ends the session.
LEMMA UserKinds ==
    ASSUME TypeOK, NEW c \in Clients, UserAction(c)
    PROVE  \/ \E touched \in SUBSET Strokes : \E gone \in BOOLEAN : Edits(c, touched, gone)
           \/ CrashOnNullMap(c) \/ StopSync(c)
<1>1. ASSUME NEW s \in Strokes, Draw(c, s) \/ Erase(c, s) \/ Undo(c, s)
      PROVE  \E gone \in BOOLEAN : Edits(c, {s}, gone)
  BY <1>1, PlainEdits DEF Draw, Erase, Undo
<1>2. ASSUME NEW s \in Strokes, Transform(c, s)
      PROVE  \E gone \in BOOLEAN : Edits(c, {s}, gone)
  BY <1>2, TransformEdits
<1>3. ASSUME Reset(c)
      PROVE  \E touched \in SUBSET Strokes : \E gone \in BOOLEAN : Edits(c, touched, gone)
  <2> DEFINE touched == {s \in Strokes : Present(View(c)[s])}
  <2>1. touched \in SUBSET Strokes /\ UpdateStroke(c, touched, TRUE) /\ UNCHANGED bodyVars
    BY <1>3 DEF Reset
  <2> HIDE DEF touched
  <2> QED
    BY <2>1, PlainEdits
<1> QED
  BY <1>1, <1>2, <1>3 DEF UserAction

\* What no edit changes.
LEMMA EditKeeps ==
    ASSUME NEW c \in Clients, NEW touched \in SUBSET Strokes, NEW gone \in BOOLEAN,
           Edits(c, touched, gone)
    PROVE  UNCHANGED <<db, feed, written, start, writer, listener, seen, session, lost>>
BY DEF Edits, UpdateStroke, databaseVars, startVars, listenVars

\* The edit that is made of a stroke.
LEMMA EditMade ==
    ASSUME TypeOK, NEW c \in Clients, NEW touched \in SUBSET Strokes, NEW gone \in BOOLEAN,
           Edits(c, touched, gone), NEW s \in touched
    PROVE  /\ own'[c][s] \in Edit
           /\ own'[c][s].by = c /\ own'[c][s].at = clock[c] + 1
           /\ StrokesToUpdate'[c][s] = own'[c][s]
           /\ StrokesMapOverride'[c][s] = own'[c][s]
           /\ \A k \in Starts : snapshot'[c][k][s] \in {snapshot[c][k][s], own'[c][s]}
<1> DEFINE e == [by |-> c, at |-> clock[c] + 1, gone |-> gone]
<1>0. e \in Edit /\ e.by = c /\ e.at = clock[c] + 1
  <2>1. clock[c] + 1 \in Nat
    BY DEF TypeOK
  <2> QED
    BY <2>1, EditType
<1>1. /\ own' = [own EXCEPT ![c] = [x \in Strokes |-> IF x \in touched THEN e ELSE own[c][x]]]
      /\ StrokesToUpdate' = [StrokesToUpdate EXCEPT ![c] =
            [x \in Strokes |-> IF x \in touched THEN e ELSE StrokesToUpdate[c][x]]]
      /\ StrokesMapOverride' = [StrokesMapOverride EXCEPT ![c] =
            [x \in Strokes |-> IF x \in touched THEN e ELSE StrokesMapOverride[c][x]]]
  BY DEF Edits, UpdateStroke
<1> HIDE DEF e
<1>2. /\ own'[c][s] = e /\ StrokesToUpdate'[c][s] = e /\ StrokesMapOverride'[c][s] = e
      /\ s \in Strokes
  BY <1>1 DEF TypeOK
<1>3. \A k \in Starts :
         snapshot'[c][k][s] = snapshot[c][k][s] \/ snapshot'[c][k][s] = own'[c][s]
  BY <1>2 DEF Edits
<1> QED
  BY <1>0, <1>2, <1>3

\* The entries that an edit leaves alone.
LEMMA EditElsewhere ==
    ASSUME TypeOK, NEW c \in Clients, NEW touched \in SUBSET Strokes, NEW gone \in BOOLEAN,
           Edits(c, touched, gone), NEW d \in Clients, NEW s \in Strokes,
           d # c \/ s \notin touched
    PROVE  /\ own'[d][s] = own[d][s]
           /\ StrokesToUpdate'[d][s] = StrokesToUpdate[d][s]
           /\ StrokesMapOverride'[d][s] = StrokesMapOverride[d][s]
           /\ \A k \in Starts : snapshot'[d][k][s] = snapshot[d][k][s]
<1>1. /\ own'[d][s] = own[d][s]
      /\ StrokesToUpdate'[d][s] = StrokesToUpdate[d][s]
      /\ StrokesMapOverride'[d][s] = StrokesMapOverride[d][s]
  BY DEF Edits, UpdateStroke, TypeOK
<1>2. \A k \in Starts : snapshot'[d][k][s] = snapshot[d][k][s]
  BY DEF Edits
<1> QED
  BY <1>1, <1>2

LEMMA EditAccount ==
    ASSUME AccountInv, NEW c \in Clients, NEW touched \in SUBSET Strokes, NEW gone \in BOOLEAN,
           Edits(c, touched, gone)
    PROVE  EditsAccounted' /\ SnapshotsInUse'
<1>0. TypeOK /\ SnapshotsInUse
  BY DEF AccountInv
<1>1. ASSUME NEW d \in Clients, NEW s \in Strokes PROVE Accounted(d, s)'
  <2>1. Accounted(d, s)
    BY DEF AccountInv, EditsAccounted, Accounted
  <2>2. written' = written /\ lost' = lost
    BY EditKeeps
  <2>3. CASE d = c /\ s \in touched
    BY <1>0, <2>3, EditMade DEF Accounted
  <2>4. CASE ~(d = c /\ s \in touched)
    <3>1. /\ own'[d][s] = own[d][s] /\ StrokesToUpdate'[d][s] = StrokesToUpdate[d][s]
          /\ \A k \in Starts : snapshot'[d][k][s] = snapshot[d][k][s]
      BY <1>0, <2>4, EditElsewhere
    <3> QED
      BY <2>1, <2>2, <3>1 DEF Accounted
  <2> QED
    BY <2>3, <2>4
<1>2. ASSUME NEW d \in Clients, NEW k \in Starts
      PROVE  /\ start'[d][k] = start[d][k] /\ writer'[d][k] = writer[d][k]
             /\ session'[d] = session[d]
             /\ shared[d][k] = {} => snapshot'[d][k] = snapshot[d][k] /\ shared'[d][k] = {}
  <2>1. UNCHANGED <<start, writer, session>>
    BY EditKeeps
  <2>2. /\ shared'[d][k] \subseteq shared[d][k]
        /\ shared[d][k] = {} => snapshot'[d][k] = snapshot[d][k]
    BY DEF Edits
  <2> QED
    BY <2>1, <2>2
<1>3. SnapshotsInUse'
  BY <1>0, <1>2 DEF SnapshotsInUse
<1> QED
  BY <1>1, <1>3 DEF EditsAccounted, Accounted

\* A step that touches neither the edits nor the writers.
LEMMA AccountKept ==
    ASSUME AccountInv,
           UNCHANGED <<own, written, lost, StrokesToUpdate, snapshot, shared, writer, start>>,
           \A c \in Clients : session'[c] = "crashed" => session[c] = "crashed"
    PROVE  EditsAccounted' /\ SnapshotsInUse'
BY DEF AccountInv, EditsAccounted, SnapshotsInUse

\* A process ends: its edits were sent, or are lost.
LEMMA CrashAccount ==
    ASSUME AccountInv, NEW c \in Clients, Crash(c), UNCHANGED <<own, written>>,
           \A d \in Clients : \A k \in Starts : start'[d][k] # "done" => start[d][k] # "done"
    PROVE  EditsAccounted' /\ SnapshotsInUse'
<1>0. TypeOK /\ SnapshotsInUse
  BY DEF AccountInv
<1> DEFINE dies(k) == writer[c][k] \notin {"none", "sending"}
<1>1. \A d \in Clients \ {c} :
         /\ session'[d] = session[d] /\ writer'[d] = writer[d] /\ snapshot'[d] = snapshot[d]
         /\ shared'[d] = shared[d] /\ StrokesToUpdate'[d] = StrokesToUpdate[d]
  BY <1>0 DEF Crash, TypeOK
<1>5. ASSUME NEW k \in Starts
      PROVE  /\ dies(k) => writer'[c][k] = "dead" /\ snapshot'[c][k] = NoEntry
             /\ ~dies(k) => writer'[c][k] = writer[c][k] /\ snapshot'[c][k] = snapshot[c][k]
             /\ shared'[c][k] = {}
  BY <1>0 DEF Crash, TypeOK
<1>2. ASSUME NEW s \in Strokes
      PROVE  lost'[s] = lost[s] \cup
               (({StrokesToUpdate[c][s]} \cup {snapshot[c][k][s] : k \in Starts})
                  \ ({None} \cup written[s] \cup SentBodies(c, s)))
  BY <1>0 DEF Crash, TypeOK
<1>3. ASSUME NEW d \in Clients, NEW s \in Strokes PROVE Accounted(d, s)'
  <2>1. Accounted(d, s) /\ lost[s] \subseteq lost'[s]
    BY <1>2 DEF AccountInv, EditsAccounted, Accounted
  <2>2. CASE d # c
    BY <1>1, <2>1, <2>2 DEF Accounted
  <2>3. CASE d = c /\ own[c][s] \in {None} \cup written[s] \cup lost[s]
    BY <2>1, <2>3 DEF Accounted
  <2>4. CASE d = c /\ own[c][s] \notin {None} \cup written[s] \cup lost[s]
    <3>1. own[c][s] \in {StrokesToUpdate[c][s]} \cup {snapshot[c][k][s] : k \in Starts}
      BY <2>1, <2>4 DEF Accounted
    <3>2. CASE own[c][s] \in SentBodies(c, s)
      <4>1. PICK k \in Starts : writer[c][k] = "sending" /\ own[c][s] = snapshot[c][k][s]
        BY <3>2 DEF SentBodies
      <4>2. snapshot'[c][k] = snapshot[c][k]
        BY <1>5, <4>1
      <4> QED
        BY <2>4, <4>1, <4>2 DEF Accounted
    <3>3. CASE own[c][s] \notin SentBodies(c, s)
      BY <1>2, <2>4, <3>1, <3>3 DEF Accounted
    <3> QED
      BY <3>2, <3>3
  <2> QED
    BY <2>2, <2>3, <2>4
<1>4. ASSUME NEW d \in Clients, NEW k \in Starts
      PROVE  /\ start'[d][k] # "done" => writer'[d][k] = "none"
             /\ writer'[d][k] \notin {"copied", "asking", "sending"} => snapshot'[d][k] = NoEntry
             /\ writer'[d][k] \notin {"copied", "asking"} => shared'[d][k] = {}
             /\ session'[d] = "crashed" => writer'[d][k] \notin {"copied", "asking"}
  <2>1. CASE d = c
    <3>1. CASE dies(k)
      BY <1>0, <1>5, <2>1, <3>1 DEF SnapshotsInUse
    <3>2. CASE ~dies(k)
      BY <1>0, <1>5, <2>1, <3>2 DEF SnapshotsInUse
    <3> QED
      BY <3>1, <3>2
  <2>2. CASE d # c
    BY <1>0, <1>1, <2>2 DEF SnapshotsInUse
  <2> QED
    BY <2>1, <2>2
<1> QED
  BY <1>3, <1>4 DEF EditsAccounted, Accounted, SnapshotsInUse

\* A writer moves with its snapshot empty, or is done with the strokes of its snapshot.
LEMMA MoveAccount ==
    ASSUME AccountInv, NEW c \in Clients, NEW k \in Starts, NEW v,
           UNCHANGED <<own, written, lost, StrokesToUpdate, snapshot, session>>,
           \A d \in Clients : \A j \in Starts : start'[d][j] # "done" => start[d][j] # "done",
           start'[c][k] = "done",
           writer' = [writer EXCEPT ![c][k] = v],
           \/ /\ v = "sending" /\ writer[c][k] = "asking"
              /\ shared' = [shared EXCEPT ![c][k] = {}]
           \/ /\ v \in {"queued", "looping", "dead"}
              /\ writer[c][k] \in {"none", "queued", "looping"}
              /\ shared' = shared
    PROVE  EditsAccounted' /\ SnapshotsInUse'
<1>0. TypeOK /\ SnapshotsInUse
  BY DEF AccountInv
<1>1. EditsAccounted'
  BY DEF AccountInv, EditsAccounted
<1>2. ASSUME NEW d \in Clients, NEW j \in Starts
      PROVE  /\ start'[d][j] # "done" => writer'[d][j] = "none"
             /\ writer'[d][j] \notin {"copied", "asking", "sending"} => snapshot'[d][j] = NoEntry
             /\ writer'[d][j] \notin {"copied", "asking"} => shared'[d][j] = {}
             /\ session'[d] = "crashed" => writer'[d][j] \notin {"copied", "asking"}
  <2>1. CASE d = c /\ j = k
    <3>1. writer'[c][k] = v /\ (v = "sending" => shared'[c][k] = {})
      BY <1>0 DEF TypeOK
    <3>2. v # "sending" => shared'[c][k] = {} /\ snapshot[c][k] = NoEntry
      BY <1>0 DEF SnapshotsInUse
    <3> QED
      BY <2>1, <3>1, <3>2
  <2>2. CASE ~(d = c /\ j = k)
    <3>1. writer'[d][j] = writer[d][j] /\ shared'[d][j] = shared[d][j]
      BY <1>0, <2>2 DEF TypeOK
    <3> QED
      BY <1>0, <3>1 DEF SnapshotsInUse
  <2> QED
    BY <2>1, <2>2
<1> QED
  BY <1>1, <1>2 DEF SnapshotsInUse

\* The empty snapshot of a writer takes what is to send.
LEMMA CopyAccount ==
    ASSUME AccountInv, NEW c \in Clients, NEW k \in Starts, CopyUpdates(c, k)
    PROVE  EditsAccounted' /\ SnapshotsInUse'
<1>0. TypeOK /\ SnapshotsInUse
  BY DEF AccountInv
<1>1. /\ UNCHANGED <<own, written, lost, StrokesToUpdate, start, session>>
      /\ snapshot' = [snapshot EXCEPT ![c][k] = StrokesToUpdate[c]]
      /\ \E q \in SUBSET Strokes : shared' = [shared EXCEPT ![c][k] = q]
      /\ writer' = [writer EXCEPT ![c][k] = "copied"]
      /\ writer[c][k] = "looping" /\ session[c] # "crashed"
  BY DEF CopyUpdates, databaseVars, clientVars, startVars
<1>4. snapshot[c][k] = NoEntry /\ start[c][k] = "done"
  BY <1>0, <1>1 DEF SnapshotsInUse
<1>5. writer'[c][k] = "copied"
  BY <1>0, <1>1 DEF TypeOK
<1>2. ASSUME NEW d \in Clients, NEW j \in Starts, ~(d = c /\ j = k)
      PROVE  /\ snapshot'[d][j] = snapshot[d][j] /\ writer'[d][j] = writer[d][j]
             /\ shared'[d][j] = shared[d][j]
  BY <1>0, <1>1, <1>2 DEF TypeOK
<1>3. ASSUME NEW d \in Clients, NEW s \in Strokes PROVE Accounted(d, s)'
  <2>1. Accounted(d, s)
    BY DEF AccountInv, EditsAccounted, Accounted
  <2>2. CASE \E j \in Starts : own[d][s] = snapshot[d][j][s]
    <3>1. PICK j \in Starts : own[d][s] = snapshot[d][j][s]
      BY <2>2
    <3>2. CASE d = c /\ j = k
      \* the snapshot that is overwritten held nothing
      BY <1>1, <1>4, <3>1, <3>2 DEF Accounted, NoEntry
    <3>3. CASE ~(d = c /\ j = k)
      BY <1>1, <1>2, <3>1, <3>3 DEF Accounted
    <3> QED
      BY <3>2, <3>3
  <2> QED
    BY <1>1, <2>1, <2>2 DEF Accounted
<1> QED
  BY <1>0, <1>1, <1>2, <1>3, <1>4, <1>5 DEF EditsAccounted, Accounted, SnapshotsInUse

\* What is cleared is in a snapshot, applied, or lost.
LEMMA ClearAccount ==
    ASSUME AccountInv, NEW c \in Clients, NEW k \in Starts, ClearUpdates(c, k)
    PROVE  EditsAccounted' /\ SnapshotsInUse'
<1>0. TypeOK /\ SnapshotsInUse
  BY DEF AccountInv
<1>1. /\ UNCHANGED <<own, written, snapshot, shared, start, session>>
      /\ StrokesToUpdate' = [StrokesToUpdate EXCEPT ![c] = NoEntry]
      /\ writer' = [writer EXCEPT ![c][k] = "asking"]
      /\ writer[c][k] = "copied" /\ session[c] # "crashed"
  BY DEF ClearUpdates, databaseVars, startVars, bodyVars
<1>2. ASSUME NEW s \in Strokes
      PROVE  lost'[s] = lost[s] \cup
        ({StrokesToUpdate[c][s]} \ ({None} \cup written[s] \cup {snapshot[c][j][s] : j \in Starts}))
  BY DEF ClearUpdates
<1>3. ASSUME NEW d \in Clients, NEW s \in Strokes PROVE Accounted(d, s)'
  <2>1. Accounted(d, s) /\ lost[s] \subseteq lost'[s]
    BY <1>2 DEF AccountInv, EditsAccounted, Accounted
  <2>2. CASE d = c /\ own[d][s] = StrokesToUpdate[d][s]
    BY <1>1, <1>2, <2>2 DEF Accounted
  <2>3. CASE d # c \/ own[d][s] # StrokesToUpdate[d][s]
    <3>1. d # c => StrokesToUpdate'[d][s] = StrokesToUpdate[d][s]
      BY <1>0, <1>1 DEF TypeOK
    <3> QED
      BY <1>1, <2>1, <2>3, <3>1 DEF Accounted
  <2> QED
    BY <2>2, <2>3
<1>4. ASSUME NEW d \in Clients, NEW j \in Starts
      PROVE  writer'[d][j] = IF d = c /\ j = k THEN "asking" ELSE writer[d][j]
  BY <1>0, <1>1 DEF TypeOK
<1> QED
  BY <1>0, <1>1, <1>3, <1>4 DEF EditsAccounted, Accounted, SnapshotsInUse

\* The two ends of a request: the snapshot goes to written or to lost.
LEMMA AnswerAccount ==
    ASSUME AccountInv, NEW c \in Clients, NEW k \in Starts, ApplyPatch(c, k) \/ FailPatch(c, k)
    PROVE  EditsAccounted' /\ SnapshotsInUse'
<1>0. TypeOK /\ SnapshotsInUse
  BY DEF AccountInv
<1>1. /\ UNCHANGED <<own, StrokesToUpdate, start, session>>
      /\ snapshot' = [snapshot EXCEPT ![c][k] = NoEntry]
      /\ \E v \in {"looping", "dead"} : writer' = [writer EXCEPT ![c][k] = v]
      /\ writer[c][k] \in {"asking", "sending"}
  BY DEF ApplyPatch, FailPatch, TopOfLoop, clientVars, startVars
<1>2. ASSUME NEW s \in Strokes
      PROVE  /\ written[s] \subseteq written'[s] /\ lost[s] \subseteq lost'[s]
             /\ \/ snapshot[c][k][s] \in {None, StrokesToUpdate[c][s]} \cup written'[s] \cup lost'[s]
                \/ \E j \in Starts \ {k} : snapshot[c][k][s] = snapshot[c][j][s]
  <2>1. CASE ApplyPatch(c, k)
    BY <2>1 DEF ApplyPatch
  <2>2. CASE FailPatch(c, k)
    BY <2>2 DEF FailPatch, databaseVars
  <2> QED
    BY <2>1, <2>2
<1>3. /\ shared'[c][k] = {}
      /\ \A d \in Clients, j \in Starts : ~(d = c /\ j = k) => shared'[d][j] = shared[d][j]
  <2>1. CASE ApplyPatch(c, k)
    BY <1>0, <2>1 DEF ApplyPatch, SnapshotsInUse
  <2>2. CASE FailPatch(c, k)
    BY <1>0, <2>2 DEF FailPatch, TypeOK
  <2> QED
    BY <2>1, <2>2
<1>4. /\ \A d \in Clients, j \in Starts : ~(d = c /\ j = k) =>
            writer'[d][j] = writer[d][j] /\ snapshot'[d][j] = snapshot[d][j]
      /\ snapshot'[c][k] = NoEntry /\ start[c][k] = "done" /\ writer'[c][k] \in {"looping", "dead"}
  BY <1>0, <1>1 DEF TypeOK, SnapshotsInUse
<1>5. ASSUME NEW d \in Clients, NEW s \in Strokes PROVE Accounted(d, s)'
  <2>1. Accounted(d, s)
    BY DEF AccountInv, EditsAccounted, Accounted
  <2>2. CASE \E j \in Starts : own[d][s] = snapshot[d][j][s]
    <3>1. PICK j \in Starts : own[d][s] = snapshot[d][j][s]
      BY <2>2
    <3>2. CASE d = c /\ j = k
      BY <1>1, <1>2, <1>4, <3>1, <3>2 DEF Accounted
    <3>3. CASE ~(d = c /\ j = k)
      BY <1>1, <1>4, <3>1, <3>3 DEF Accounted
    <3> QED
      BY <3>2, <3>3
  <2> QED
    BY <1>1, <1>2, <2>1, <2>2 DEF Accounted
<1> QED
  BY <1>0, <1>1, <1>3, <1>4, <1>5 DEF EditsAccounted, Accounted, SnapshotsInUse

LEMMA StepAccount == AccountInv /\ [Next]_vars => AccountInv'
<1> SUFFICES ASSUME AccountInv, [Next]_vars PROVE EditsAccounted' /\ SnapshotsInUse'
  BY StepType DEF AccountInv
<1>0. TypeOK /\ SnapshotsInUse
  BY DEF AccountInv
<1> USE DEF databaseVars, clientVars, startVars, writerVars, bodyVars, tokenVars, listenVars
<1>1. ASSUME NEW c \in Clients, UserAction(c) PROVE EditsAccounted' /\ SnapshotsInUse'
  <2>1. ASSUME NEW touched \in SUBSET Strokes, NEW gone \in BOOLEAN, Edits(c, touched, gone)
        PROVE  EditsAccounted' /\ SnapshotsInUse'
    BY <2>1, EditAccount
  <2>2. CASE CrashOnNullMap(c)
    BY <2>2, CrashAccount DEF CrashOnNullMap
  <2>3. CASE StopSync(c)
    <3>1. \A d \in Clients : session'[d] = "crashed" => session[d] = "crashed"
      BY <1>0, <2>3 DEF StopSync, TypeOK
    <3>2. UNCHANGED <<own, written, lost, StrokesToUpdate, snapshot, shared, writer, start>>
      BY <2>3 DEF StopSync
    <3> QED
      BY <3>1, <3>2, AccountKept
  <2> QED
    BY <1>0, <1>1, <2>1, <2>2, <2>3, UserKinds
<1>2. ASSUME NEW c \in Clients, NEW k \in Starts, StartOnlineSync(c, k)
      PROVE  EditsAccounted' /\ SnapshotsInUse'
  <2>1. /\ UNCHANGED <<own, written, lost, StrokesToUpdate, snapshot, shared, writer, session>>
        /\ start' = [start EXCEPT ![c][k] = "pulling"] /\ start[c][k] = "idle"
    BY <1>2 DEF StartOnlineSync
  <2>2. ASSUME NEW d \in Clients, NEW j \in Starts, start'[d][j] # "done" PROVE start[d][j] # "done"
    BY <1>0, <2>1, <2>2 DEF TypeOK
  <2> QED
    BY <2>1, <2>2 DEF AccountInv, EditsAccounted, SnapshotsInUse
<1>3. ASSUME NEW c \in Clients, NEW k \in Starts, ContinueStart(c, k)
      PROVE  EditsAccounted' /\ SnapshotsInUse'
  <2>1. /\ \A d \in Clients : \A j \in Starts : start'[d][j] # "done" => start[d][j] # "done"
        /\ start'[c][k] = "done" /\ writer[c][k] = "none"
    BY <1>0, <1>3 DEF ContinueStart, SnapshotsInUse, TypeOK
  <2>2. UNCHANGED <<own, written>>
    BY <1>3 DEF ContinueStart
  <2>3. CASE Crash(c)
    BY <2>1, <2>2, <2>3, CrashAccount
  <2>4. CASE ~Crash(c)
    <3>1. /\ UNCHANGED <<lost, StrokesToUpdate, snapshot, shared, session>>
          /\ writer' = [writer EXCEPT ![c][k] = "queued"]
      BY <1>3, <2>4 DEF ContinueStart
    <3> QED
      BY <2>1, <2>2, <3>1, MoveAccount
  <2> QED
    BY <2>3, <2>4
<1>4. ASSUME NEW c \in Clients, NEW k \in Starts, FailPull(c, k)
      PROVE  EditsAccounted' /\ SnapshotsInUse'
  BY <1>4, CrashAccount DEF FailPull
<1>5. ASSUME NEW c \in Clients, NEW k \in Starts,
             StartWriter(c, k) \/ EndWriter(c, k) \/ SerializePatch(c, k)
      PROVE  EditsAccounted' /\ SnapshotsInUse'
  <2>1. /\ UNCHANGED <<own, written, lost, StrokesToUpdate, snapshot, session, start>>
        /\ writer[c][k] \in {"queued", "looping", "asking"}
        /\ \E v \in {"looping", "dead", "sending"} :
              /\ writer' = [writer EXCEPT ![c][k] = v]
              /\ \/ /\ v = "sending" /\ writer[c][k] = "asking"
                    /\ shared' = [shared EXCEPT ![c][k] = {}]
                 \/ /\ v \in {"looping", "dead"} /\ writer[c][k] \in {"queued", "looping"}
                    /\ shared' = shared
    BY <1>5 DEF StartWriter, EndWriter, SerializePatch, TopOfLoop
  <2>2. start[c][k] = "done"
    BY <1>0, <2>1 DEF SnapshotsInUse
  <2> QED
    BY <2>1, <2>2, MoveAccount
<1>6. ASSUME NEW c \in Clients, NEW k \in Starts,
             \/ CopyUpdates(c, k) \/ ClearUpdates(c, k) \/ ApplyPatch(c, k) \/ FailPatch(c, k)
      PROVE  EditsAccounted' /\ SnapshotsInUse'
  BY <1>6, CopyAccount, ClearAccount, AnswerAccount
<1>7. ASSUME NEW c \in Clients, NEW k \in Starts,
             \/ Connect(c, k) \/ ReceiveStrokes(c, k) \/ CheckOverrides(c, k)
             \/ PurgeOverrides(c, k) \/ RefreshCanvas(c, k) \/ EndListener(c, k)
      PROVE  EditsAccounted' /\ SnapshotsInUse'
  <2>1. /\ UNCHANGED <<own, written, lost, StrokesToUpdate, snapshot, shared, writer, start>>
        /\ UNCHANGED session
    BY <1>7 DEF Connect, ReceiveStrokes, CheckOverrides, PurgeOverrides, RefreshCanvas, EndListener
  <2> QED
    BY <2>1, AccountKept
<1>8. CASE UNCHANGED vars
  BY <1>8, AccountKept DEF vars
<1> QED
  BY <1>1, <1>2, <1>3, <1>4, <1>5, <1>6, <1>7, <1>8 DEF Next, SystemAction

\* No edit disappears: whatever the threads of a client do and however often
\* StartOnlineSync is called, its latest edit of each stroke is to send, being
\* sent, applied, or in one of the recorded losses.
THEOREM NoEditDisappears == Spec => []EditsAccounted
<1>1. AccountInv => EditsAccounted
  BY DEF AccountInv
<1> QED
  BY <1>1, InitAccount, StepAccount, PTL DEF Spec

-----------------------------------------------------------------------------
(***************************************************************************)
(* Every step is an edit, a copy, or forgets: it takes away edits to send  *)
(* and snapshots, and only ApplyPatch changes the database.                *)
(***************************************************************************)

Forgets ==
    /\ UNCHANGED <<clock, restamped>>
    /\ \A c \in Clients : \A s \in Strokes :
        /\ StrokesToUpdate'[c][s] \in {None, StrokesToUpdate[c][s]}
        /\ \A k \in Starts :
              /\ s \in shared'[c][k] => s \in shared[c][k]
              /\ \/ snapshot'[c][k][s] = None /\ s \notin shared'[c][k]
                 \/ /\ snapshot'[c][k][s] = snapshot[c][k][s]
                    /\ writer[c][k] = "copied" =>
                          writer'[c][k] = "copied" \/ StrokesToUpdate'[c][s] = None

\* A step of one writer that leaves its snapshot or empties it.
LEMMA MoveForgets ==
    ASSUME TypeOK, NEW c \in Clients, NEW k \in Starts, NEW v,
           UNCHANGED <<clock, restamped, StrokesToUpdate>>,
           writer' = [writer EXCEPT ![c][k] = v], writer[c][k] # "copied",
           snapshot' = snapshot \/ snapshot' = [snapshot EXCEPT ![c][k] = NoEntry],
           \/ shared' = shared /\ (snapshot' = snapshot \/ shared[c][k] = {})
           \/ shared' = [shared EXCEPT ![c][k] = {}]
    PROVE  Forgets
<1>1. ASSUME NEW d \in Clients, NEW j \in Starts
      PROVE  /\ shared'[d][j] \subseteq shared[d][j]
             /\ \/ snapshot'[d][j] = NoEntry /\ shared'[d][j] = {}
                \/ snapshot'[d][j] = snapshot[d][j]
             /\ writer[d][j] = "copied" => writer'[d][j] = "copied"
  <2>1. CASE d = c /\ j = k
    BY <2>1 DEF TypeOK
  <2>2. CASE ~(d = c /\ j = k)
    BY <2>2 DEF TypeOK
  <2> QED
    BY <2>1, <2>2
<1>2. ASSUME NEW d \in Clients, NEW j \in Starts, NEW s \in Strokes
      PROVE  /\ s \in shared'[d][j] => s \in shared[d][j]
             /\ \/ snapshot'[d][j][s] = None /\ s \notin shared'[d][j]
                \/ /\ snapshot'[d][j][s] = snapshot[d][j][s]
                   /\ writer[d][j] = "copied" => writer'[d][j] = "copied"
  BY <1>1 DEF NoEntry
<1> QED
  BY <1>2 DEF Forgets

\* A process that ends forgets.
LEMMA CrashForgets ==
    ASSUME TypeOK, NEW c \in Clients, Crash(c), UNCHANGED <<clock, restamped>>
    PROVE  Forgets
<1>1. ASSUME NEW d \in Clients, d # c
      PROVE  /\ writer'[d] = writer[d] /\ snapshot'[d] = snapshot[d]
             /\ shared'[d] = shared[d] /\ StrokesToUpdate'[d] = StrokesToUpdate[d]
  BY <1>1 DEF Crash, TypeOK
<1>2. /\ \A s \in Strokes : StrokesToUpdate'[c][s] = None
      /\ \A k \in Starts : shared'[c][k] = {}
  BY DEF Crash, TypeOK, NoEntry
<1>3. ASSUME NEW k \in Starts PROVE snapshot'[c][k] = NoEntry \/ snapshot'[c][k] = snapshot[c][k]
  BY DEF Crash, TypeOK
<1>4. ASSUME NEW d \in Clients, NEW s \in Strokes
      PROVE  /\ StrokesToUpdate'[d][s] \in {None, StrokesToUpdate[d][s]}
             /\ \A k \in Starts :
                   /\ s \in shared'[d][k] => s \in shared[d][k]
                   /\ \/ snapshot'[d][k][s] = None /\ s \notin shared'[d][k]
                      \/ /\ snapshot'[d][k][s] = snapshot[d][k][s]
                         /\ writer[d][k] = "copied" =>
                               writer'[d][k] = "copied" \/ StrokesToUpdate'[d][s] = None
  <2>1. CASE d = c
    BY <1>2, <1>3, <2>1 DEF NoEntry
  <2>2. CASE d # c
    BY <1>1, <2>2
  <2> QED
    BY <2>1, <2>2
<1> QED
  BY <1>4 DEF Forgets

LEMMA StepKinds ==
    ASSUME TypeOK, SnapshotsInUse, [Next]_vars
    PROVE  \/ Forgets /\ UNCHANGED <<db, written>>
           \/ \E c \in Clients : \E k \in Starts :
                 CopyUpdates(c, k) \/ (ApplyPatch(c, k) /\ Forgets)
           \/ \E c \in Clients : \E touched \in SUBSET Strokes : \E gone \in BOOLEAN :
                 Edits(c, touched, gone)
<1> DEFINE Goal ==
        \/ Forgets /\ UNCHANGED <<db, written>>
        \/ \E c \in Clients : \E k \in Starts : CopyUpdates(c, k) \/ (ApplyPatch(c, k) /\ Forgets)
        \/ \E c \in Clients : \E touched \in SUBSET Strokes : \E gone \in BOOLEAN :
              Edits(c, touched, gone)
<1> USE DEF databaseVars, clientVars, startVars, writerVars, bodyVars, tokenVars, listenVars
<1>0. ASSUME UNCHANGED <<clock, restamped, StrokesToUpdate, snapshot, shared, writer>> PROVE Forgets
  BY <1>0 DEF Forgets
<1>1. ASSUME NEW c \in Clients, UserAction(c) PROVE Goal
  <2>1. CASE CrashOnNullMap(c)
    BY <2>1, CrashForgets DEF CrashOnNullMap
  <2>2. CASE StopSync(c)
    BY <2>2, <1>0 DEF StopSync
  <2> QED
    BY <1>1, <2>1, <2>2, UserKinds
<1>2. ASSUME NEW c \in Clients, NEW k \in Starts,
             \/ StartOnlineSync(c, k) \/ Connect(c, k) \/ ReceiveStrokes(c, k)
             \/ CheckOverrides(c, k) \/ PurgeOverrides(c, k) \/ RefreshCanvas(c, k)
             \/ EndListener(c, k)
      PROVE  Goal
  <2>1. UNCHANGED <<db, written, clock, restamped, StrokesToUpdate, snapshot, shared, writer>>
    BY <1>2 DEF StartOnlineSync, Connect, ReceiveStrokes, CheckOverrides, PurgeOverrides,
                RefreshCanvas, EndListener
  <2> QED
    BY <2>1, <1>0
<1>3. ASSUME NEW c \in Clients, NEW k \in Starts, FailPull(c, k) PROVE Goal
  BY <1>3, CrashForgets DEF FailPull
\* A writer starts, and ends, with an empty snapshot.
<1>4. ASSUME NEW c \in Clients, NEW k \in Starts, ContinueStart(c, k) PROVE Goal
  <2>1. UNCHANGED <<db, written, clock, restamped>> /\ writer[c][k] = "none"
    BY <1>4 DEF ContinueStart, SnapshotsInUse
  <2>2. CASE Crash(c)
    BY <2>1, <2>2, CrashForgets
  <2>3. CASE ~Crash(c)
    BY <1>4, <2>1, <2>3, MoveForgets DEF ContinueStart
  <2> QED
    BY <2>2, <2>3
<1>5. ASSUME NEW c \in Clients, NEW k \in Starts,
             StartWriter(c, k) \/ EndWriter(c, k) \/ SerializePatch(c, k)
      PROVE  Goal
  <2>1. /\ UNCHANGED <<db, written, clock, restamped, StrokesToUpdate, snapshot>>
        /\ writer[c][k] # "copied"
        /\ \E v \in {"looping", "dead", "sending"} : writer' = [writer EXCEPT ![c][k] = v]
        /\ shared' = shared \/ shared' = [shared EXCEPT ![c][k] = {}]
    BY <1>5 DEF StartWriter, EndWriter, SerializePatch, TopOfLoop
  <2> QED
    BY <2>1, MoveForgets
<1>6. ASSUME NEW c \in Clients, NEW k \in Starts, ClearUpdates(c, k) PROVE Goal
  <2>1. /\ UNCHANGED <<db, written, clock, restamped, snapshot, shared>>
        /\ StrokesToUpdate' = [StrokesToUpdate EXCEPT ![c] = NoEntry]
        /\ writer' = [writer EXCEPT ![c][k] = "asking"]
    BY <1>6 DEF ClearUpdates
  <2>2. ASSUME NEW d \in Clients, NEW j \in Starts, NEW s \in Strokes
        PROVE  /\ StrokesToUpdate'[d][s] \in {None, StrokesToUpdate[d][s]}
               /\ StrokesToUpdate'[d][s] = None \/ writer'[d][j] = writer[d][j]
    BY <2>1 DEF TypeOK, NoEntry
  <2> QED
    BY <2>1, <2>2 DEF Forgets
<1>7. ASSUME NEW c \in Clients, NEW k \in Starts, FailPatch(c, k) \/ ApplyPatch(c, k) PROVE Goal
  <2>1. /\ UNCHANGED <<clock, restamped, StrokesToUpdate>> /\ writer[c][k] # "copied"
        /\ snapshot' = [snapshot EXCEPT ![c][k] = NoEntry]
        /\ \E v \in {"looping", "dead"} : writer' = [writer EXCEPT ![c][k] = v]
        /\ ApplyPatch(c, k) \/ UNCHANGED <<db, written>>
        /\ shared' = [shared EXCEPT ![c][k] = {}] \/ (shared' = shared /\ writer[c][k] = "sending")
    BY <1>7 DEF FailPatch, ApplyPatch, TopOfLoop
  <2>2. writer[c][k] = "sending" => shared[c][k] = {}
    BY DEF SnapshotsInUse
  <2>3. Forgets
    BY <2>1, <2>2, MoveForgets
  <2> QED
    BY <2>1, <2>3
<1>8. CASE UNCHANGED vars
  BY <1>8, <1>0 DEF vars
<1> QED
  BY <1>1, <1>2, <1>3, <1>4, <1>5, <1>6, <1>7, <1>8 DEF Next, SystemAction

\* A client's clock counts its edits.
LEMMA EditAges ==
    ASSUME TypeOK, NEW c \in Clients, NEW touched \in SUBSET Strokes, NEW gone \in BOOLEAN,
           Edits(c, touched, gone)
    PROVE  /\ clock'[c] = clock[c] + 1
           /\ \A d \in Clients : clock[d] \in Nat /\ clock'[d] \in Nat /\ clock[d] <= clock'[d]
<1>1. clock' = [clock EXCEPT ![c] = clock[c] + 1]
  BY DEF Edits, UpdateStroke
<1> QED
  BY <1>1 DEF TypeOK

\* A copy, for each writer.
LEMMA CopyEffect ==
    ASSUME TypeOK, NEW c \in Clients, NEW k \in Starts, CopyUpdates(c, k)
    PROVE  /\ UNCHANGED <<db, written, own, clock, restamped, lost, StrokesToUpdate>>
           /\ \A d \in Clients : \A j \in Starts : d # c \/ j # k =>
                 /\ snapshot'[d][j] = snapshot[d][j] /\ shared'[d][j] = shared[d][j]
                 /\ writer'[d][j] = writer[d][j]
           /\ snapshot'[c][k] = StrokesToUpdate[c] /\ writer'[c][k] = "copied"
           /\ shared'[c][k] = {s \in Strokes : Present(StrokesToUpdate[c][s])}
<1>1. UNCHANGED <<db, written, own, clock, restamped, lost, StrokesToUpdate>>
  BY DEF CopyUpdates, databaseVars, clientVars
<1>2. /\ snapshot' = [snapshot EXCEPT ![c][k] = StrokesToUpdate[c]]
      /\ shared' = [shared EXCEPT ![c][k] = {s \in Strokes : Present(StrokesToUpdate[c][s])}]
      /\ writer' = [writer EXCEPT ![c][k] = "copied"]
  BY DEF CopyUpdates
<1>3. ASSUME NEW d \in Clients, NEW j \in Starts, d # c \/ j # k
      PROVE  /\ snapshot'[d][j] = snapshot[d][j] /\ shared'[d][j] = shared[d][j]
             /\ writer'[d][j] = writer[d][j]
  BY <1>2, <1>3 DEF TypeOK
<1>4. /\ snapshot'[c][k] = StrokesToUpdate[c] /\ writer'[c][k] = "copied"
      /\ shared'[c][k] = {s \in Strokes : Present(StrokesToUpdate[c][s])}
  BY <1>2 DEF TypeOK
<1> QED
  BY <1>1, <1>3, <1>4

LEMMA InitApart == Init => ApartInv
<1> SUFFICES ASSUME Init PROVE ApartInv
  OBVIOUS
<1>1. AccountInv
  BY InitAccount
<1>2. ASSUME NEW s \in Strokes, NEW f \in written[s] PROVE f.at <= clock[f.by]
  <2>1. f = [by |-> Creator, at |-> 0, gone |-> FALSE]
    BY <1>2 DEF Init
  <2> QED
    BY <2>1, ClientsAssumption DEF Init
<1> QED
  BY <1>1, <1>2 DEF Init, ApartInv, Apart, NoEntry

\* What a client holds stays its own, of before.
LEMMA ApartStep == ApartInv /\ [Next]_vars => ApartInv'
<1> SUFFICES ASSUME ApartInv, [Next]_vars
             PROVE  /\ \A s \in Strokes : \A f \in written'[s] : f.at <= clock'[f.by]
                    /\ \A c \in Clients : \A s \in Strokes : Apart(c, s)'
  BY StepAccount DEF ApartInv
<1>0. TypeOK /\ SnapshotsInUse
  BY DEF ApartInv, AccountInv
<1>1. ASSUME NEW c \in Clients, NEW s \in Strokes
      PROVE  /\ Apart(c, s) /\ clock[c] \in Nat /\ StrokesToUpdate[c][s] \in Edit \cup {None}
             /\ \A k \in Starts : snapshot[c][k][s] \in Edit \cup {None}
  <2>1. StrokesToUpdate[c] \in Map /\ \A k \in Starts : snapshot[c][k] \in Map
    BY <1>0 DEF TypeOK
  <2> QED
    BY <1>0, <2>1 DEF ApartInv, TypeOK
<1>2. \A s \in Strokes : \A f \in written[s] : f \in Edit /\ f.at \in Nat /\ f.by \in Clients
                                               /\ f.at <= clock[f.by]
  BY <1>0 DEF ApartInv, TypeOK, Edit
<1>3. ASSUME Forgets
      PROVE  /\ \A c \in Clients : \A s \in Strokes : Apart(c, s)'
             /\ UNCHANGED clock
  BY <1>1, <1>3 DEF Forgets, Apart
<1>6. ASSUME NEW c \in Clients, NEW k \in Starts, ApplyPatch(c, k), Forgets
      PROVE  \A s \in Strokes : \A f \in written'[s] : f.at <= clock'[f.by]
  <2>1. ASSUME NEW s \in Strokes, NEW f \in written'[s] PROVE f.at <= clock'[f.by]
    <3>1. f \in written[s] \/ (f = snapshot[c][k][s] /\ f # None)
      BY <1>6 DEF ApplyPatch
    <3> QED
      BY <1>1, <1>2, <1>3, <1>6, <3>1 DEF Apart
  <2> QED
    BY <2>1
<1>4. ASSUME NEW d \in Clients, NEW k \in Starts, CopyUpdates(d, k), NEW c \in Clients, NEW s \in Strokes
      PROVE  Apart(c, s)' /\ UNCHANGED <<written, clock>>
  <2>1. /\ UNCHANGED <<written, StrokesToUpdate, clock>>
        /\ snapshot'[d][k] = StrokesToUpdate[d]
        /\ shared'[d][k] = {x \in Strokes : Present(StrokesToUpdate[d][x])}
        /\ \A j \in Starts : c # d \/ j # k =>
              snapshot'[c][j] = snapshot[c][j] /\ shared'[c][j] = shared[c][j]
    BY <1>0, <1>4, CopyEffect
  <2> QED
    BY <1>1, <2>1 DEF Apart, Present
<1>5. ASSUME NEW d \in Clients, NEW touched \in SUBSET Strokes, NEW gone \in BOOLEAN,
             Edits(d, touched, gone), NEW c \in Clients, NEW s \in Strokes
      PROVE  Apart(c, s)' /\ \A f \in written'[s] : f.at <= clock'[f.by]
  <2>1. /\ clock'[d] = clock[d] + 1
        /\ \A x \in Clients : clock[x] \in Nat /\ clock'[x] \in Nat /\ clock[x] <= clock'[x]
    BY <1>0, <1>5, EditAges
  <2>2. \A f \in written'[s] : f.at <= clock'[f.by]
    <3>1. written' = written
      BY <1>5, EditKeeps
    <3> QED
      BY <1>2, <2>1, <3>1
  <2>3. \A k \in Starts : s \in shared'[c][k] => s \in shared[c][k]
    BY <1>5 DEF Edits
  <2>4. CASE c = d /\ s \in touched
    <3>1. /\ own'[c][s] \in Edit /\ own'[c][s].by = c /\ own'[c][s].at = clock[c] + 1
          /\ StrokesToUpdate'[c][s] = own'[c][s]
          /\ \A k \in Starts : snapshot'[c][k][s] \in {snapshot[c][k][s], own'[c][s]}
      <4>1. s \in touched /\ c = d
        BY <2>4
      <4>2. /\ own'[d][s] \in Edit /\ own'[d][s].by = d /\ own'[d][s].at = clock[d] + 1
            /\ StrokesToUpdate'[d][s] = own'[d][s]
            /\ \A k \in Starts : snapshot'[d][k][s] \in {snapshot[d][k][s], own'[d][s]}
        BY <1>0, <1>5, <4>1, EditMade
      <4> QED
        BY <4>1, <4>2
    <3>2. ASSUME NEW k \in Starts, snapshot'[c][k][s] # None
          PROVE  snapshot'[c][k][s].by = c /\ snapshot'[c][k][s].at <= clock'[c]
      <4>1. CASE snapshot'[c][k][s] = own'[c][s]
        BY <2>1, <2>4, <3>1, <4>1
      <4>2. CASE snapshot'[c][k][s] = snapshot[c][k][s]
        <5>1. snapshot[c][k][s] \in Edit /\ snapshot[c][k][s].by = c /\ snapshot[c][k][s].at <= clock[c]
          BY <1>1, <3>2, <4>2 DEF Apart
        <5> QED
          BY <2>1, <4>2, <5>1 DEF Edit
      <4> QED
        BY <3>1, <4>1, <4>2
    <3>3. ASSUME NEW k \in Starts, s \in shared'[c][k] PROVE snapshot'[c][k][s] # None
      BY <1>1, <2>3, <3>1, <3>3, SentinelAssumption DEF Apart
    <3> QED
      BY <2>1, <2>2, <2>4, <3>1, <3>2, <3>3 DEF Apart
  <2>5. CASE ~(c = d /\ s \in touched)
    <3>1. /\ StrokesToUpdate'[c][s] = StrokesToUpdate[c][s]
          /\ \A k \in Starts : snapshot'[c][k][s] = snapshot[c][k][s]
      BY <1>0, <1>5, <2>5, EditElsewhere
    <3>2. \A e \in Edit : e.at \in Nat /\ (e.at <= clock[c] => e.at <= clock'[c])
      BY <2>1 DEF Edit
    <3> QED
      BY <1>1, <2>2, <2>3, <3>1, <3>2 DEF Apart
  <2> QED
    BY <2>4, <2>5
<1>7. CASE Forgets /\ UNCHANGED <<db, written>>
  BY <1>2, <1>3, <1>7
<1>8. CASE \E c \in Clients : \E k \in Starts : ApplyPatch(c, k) /\ Forgets
  BY <1>3, <1>6, <1>8
<1>9. CASE \E c \in Clients : \E k \in Starts : CopyUpdates(c, k)
  BY <1>2, <1>4, <1>9
<1>10. CASE \E c \in Clients : \E touched \in SUBSET Strokes : \E gone \in BOOLEAN :
               Edits(c, touched, gone)
  BY <1>5, <1>10
<1> QED
  BY <1>0, <1>7, <1>8, <1>9, <1>10, StepKinds

-----------------------------------------------------------------------------
(***************************************************************************)
(* OwnEditsInOrder, when StartOnlineSync is called once. Everything but    *)
(* ApplyPatch keeps InOrder with any number of writers: only there must    *)
(* no other writer of the client hold an older edit.                       *)
(***************************************************************************)

LEMMA InitOrder == Init => OrderInv
<1> SUFFICES ASSUME Init PROVE OrderInv
  OBVIOUS
<1>1. ApartInv
  BY InitApart
<1> QED
  BY <1>1 DEF Init, OrderInv, InOrder, NoEntry

\* Steps that leave the edits where they are, or forget some.
LEMMA OrderKept ==
    ASSUME OrderInv, Forgets, UNCHANGED written, NEW c \in Clients, NEW s \in Strokes
    PROVE  InOrder(c, s)'
<1>1. InOrder(c, s)
  BY DEF OrderInv
<1>2. /\ UNCHANGED <<written, restamped>>
      /\ StrokesToUpdate'[c][s] \in {None, StrokesToUpdate[c][s]}
      /\ \A k \in Starts :
            \/ snapshot'[c][k][s] = None
            \/ /\ snapshot'[c][k][s] = snapshot[c][k][s]
               /\ writer[c][k] = "copied" =>
                     writer'[c][k] = "copied" \/ StrokesToUpdate'[c][s] = None
  BY DEF Forgets
<1> QED
  BY <1>1, <1>2 DEF InOrder, IsNewest

\* An edit is later than all others of its client, but for the open snapshots whose
\* strokes it was made on.
LEMMA EditOrder ==
    ASSUME OrderInv, NEW d \in Clients, NEW touched \in SUBSET Strokes, NEW gone \in BOOLEAN,
           Edits(d, touched, gone), NEW c \in Clients, NEW s \in Strokes
    PROVE  InOrder(c, s)'
<1>0. TypeOK /\ SnapshotsInUse /\ InOrder(c, s) /\ Apart(c, s)
  BY DEF OrderInv, ApartInv, AccountInv
<1>1. restamped[s] \subseteq restamped'[s]
  BY DEF Edits
<1>2. UNCHANGED <<written, writer>>
  BY EditKeeps
<1>3. ASSUME NEW e, IsNewest(c, s, e) PROVE IsNewest(c, s, e)'
  BY <1>1, <1>2, <1>3 DEF IsNewest
<1>4. CASE c = d /\ s \in touched
  <2>0. s \in touched /\ c = d
    BY <1>4
  <2>1. PICK e \in Edit : /\ e = own'[c][s] /\ e.by = c /\ e.at = clock[c] + 1
                         /\ StrokesToUpdate'[c][s] = e
    <3>1. /\ own'[d][s] \in Edit /\ own'[d][s].by = d /\ own'[d][s].at = clock[d] + 1
          /\ StrokesToUpdate'[d][s] = own'[d][s]
      BY <1>0, <2>0, EditMade
    <3> QED
      BY <2>0, <3>1
  <2>2. ASSUME NEW k \in Starts
        PROVE  \/ snapshot'[c][k][s] = snapshot[c][k][s]
               \/ /\ snapshot'[c][k][s] = e
                  /\ writer[c][k] = "copied" \/ e \in restamped'[s]
    <3>1. \/ snapshot'[c][k][s] = snapshot[c][k][s]
          \/ /\ s \in shared[c][k] /\ snapshot'[c][k][s] = e
             /\ writer[c][k] = "asking" => e \in restamped'[s]
      BY <2>0, <2>1 DEF Edits
    <3>2. s \in shared[c][k] => writer[c][k] \in {"copied", "asking"}
      BY <1>0 DEF SnapshotsInUse
    <3> QED
      BY <3>1, <3>2
  <2>3. ASSUME NEW f \in Edit, f.by = c, f.at <= clock[c] PROVE f.at < e.at
    <3>1. f.at \in Nat /\ clock[c] \in Nat
      BY <1>0 DEF Edit, TypeOK
    <3> QED
      BY <2>1, <2>3, <3>1
  <2>4. IsNewest(c, s, e)'
    <3>1. ASSUME NEW f \in written[s], f.by = c PROVE f.at < e.at
      <4>1. f \in Edit /\ f.at <= clock[c]
        BY <1>0, <3>1 DEF TypeOK, OrderInv, ApartInv
      <4> QED
        BY <2>3, <3>1, <4>1
    <3> QED
      BY <1>2, <3>1 DEF IsNewest
  <2>5. ASSUME NEW k \in Starts, snapshot'[c][k][s] # None, snapshot'[c][k][s] = snapshot[c][k][s]
        PROVE  IsNewest(c, s, snapshot[c][k][s])' /\ snapshot'[c][k][s].at < e.at
    <3>1. PICK g \in Edit : g = snapshot[c][k][s]
      BY <1>0, <2>5 DEF TypeOK
    <3>2. IsNewest(c, s, g) /\ g.by = c /\ g.at <= clock[c]
      BY <1>0, <2>5, <3>1 DEF InOrder, Apart
    <3>3. IsNewest(c, s, g)' /\ g.at < e.at
      BY <1>3, <2>3, <3>2
    <3> QED
      BY <2>5, <3>1, <3>3 DEF IsNewest
  <2> QED
    BY <1>2, <2>1, <2>2, <2>4, <2>5 DEF InOrder
<1>5. CASE ~(c = d /\ s \in touched)
  <2>1. /\ StrokesToUpdate'[c][s] = StrokesToUpdate[c][s]
        /\ \A k \in Starts : snapshot'[c][k][s] = snapshot[c][k][s]
    BY <1>0, <1>5, EditElsewhere
  <2> QED
    BY <1>0, <1>1, <1>2, <1>3, <2>1 DEF InOrder
<1> QED
  BY <1>4, <1>5

\* The database takes the snapshot of the only writer.
LEMMA ApplyPatchOrder ==
    ASSUME OrderInv, MaxStarts = 1, NEW d \in Clients, NEW k \in Starts, ApplyPatch(d, k),
           NEW c \in Clients, NEW s \in Strokes
    PROVE  InOrder(c, s)'
<1>0. TypeOK /\ InOrder(c, s) /\ Apart(d, s) /\ Starts = {k}
  BY DEF OrderInv, ApartInv, AccountInv, Starts
<1>1. /\ UNCHANGED <<StrokesToUpdate, restamped>>
      /\ snapshot' = [snapshot EXCEPT ![d][k] = NoEntry]
      /\ written'[s] = written[s] \cup ({snapshot[d][k][s]} \ {None})
      /\ writer[d][k] = "sending"
      /\ \E v \in {"looping", "dead"} : writer' = [writer EXCEPT ![d][k] = v]
  BY DEF ApplyPatch, clientVars, TopOfLoop
<1>2. CASE c = d
  <2>1. snapshot'[c][k][s] = None
    BY <1>0, <1>1, <1>2 DEF TypeOK, NoEntry
  <2>2. ASSUME StrokesToUpdate[c][s] # None PROVE IsNewest(c, s, StrokesToUpdate[c][s])'
    <3>1. IsNewest(c, s, StrokesToUpdate[c][s])
      BY <1>0, <2>2 DEF InOrder
    <3>2. snapshot[c][k][s] # None =>
             \/ snapshot[c][k][s].at < StrokesToUpdate[c][s].at
             \/ /\ snapshot[c][k][s] = StrokesToUpdate[c][s]
                /\ snapshot[c][k][s] \in restamped[s]
      BY <1>0, <1>1, <1>2, <2>2 DEF InOrder
    <3> QED
      BY <1>1, <1>2, <3>1, <3>2 DEF IsNewest
  <2> QED
    BY <1>0, <1>1, <2>1, <2>2 DEF InOrder
<1>3. CASE c # d
  <2>1. \A f \in written'[s] : f.by = c => f \in written[s]
    BY <1>0, <1>1, <1>3 DEF Apart
  <2>2. snapshot'[c] = snapshot[c] /\ writer'[c] = writer[c]
    BY <1>0, <1>1, <1>3 DEF TypeOK
  <2>3. ASSUME NEW e, IsNewest(c, s, e) PROVE IsNewest(c, s, e)'
    BY <1>1, <2>1, <2>3 DEF IsNewest
  <2> QED
    BY <1>0, <1>1, <2>2, <2>3 DEF InOrder
<1> QED
  BY <1>2, <1>3

\* CopyUpdates: no other writer of the client has copied and not cleared.
LEMMA CopyUpdatesOrder ==
    ASSUME OrderInv, NEW d \in Clients, NEW k \in Starts, CopyUpdates(d, k),
           NEW c \in Clients, NEW s \in Strokes
    PROVE  InOrder(c, s)'
<1>1. TypeOK /\ InOrder(c, s)
  BY DEF OrderInv, ApartInv, AccountInv
<1>2. /\ UNCHANGED <<StrokesToUpdate, written, restamped>>
      /\ \A j \in Starts : c # d \/ j # k =>
            snapshot'[c][j] = snapshot[c][j] /\ writer'[c][j] = writer[c][j]
      /\ snapshot'[d][k] = StrokesToUpdate[d] /\ writer'[d][k] = "copied"
  BY <1>1, CopyEffect
<1> QED
  BY <1>1, <1>2 DEF InOrder, IsNewest

LEMMA StepOrder ==
    ASSUME OrderInv, MaxStarts = 1, [Next]_vars
    PROVE  OrderInv'
<1>1. TypeOK /\ SnapshotsInUse /\ ApartInv'
  BY ApartStep DEF OrderInv, ApartInv, AccountInv
<1>2. ASSUME NEW c \in Clients, NEW s \in Strokes PROVE InOrder(c, s)'
  BY <1>1, StepKinds, OrderKept, EditOrder, CopyUpdatesOrder, ApplyPatchOrder
<1> QED
  BY <1>1, <1>2 DEF OrderInv

\* What the database takes is a snapshot, newer than all it held of that client.
LEMMA StepInOrder ==
    ASSUME OrderInv, [Next]_vars
    PROVE  \A s \in Strokes : db'[s] # db[s] =>
              \A f \in written[s] : f.by = db'[s].by =>
                  f.at < db'[s].at \/ (f = db'[s] /\ f \in restamped[s])
<1> SUFFICES ASSUME NEW s \in Strokes, db'[s] # db[s], NEW f \in written[s], f.by = db'[s].by
             PROVE  f.at < db'[s].at \/ (f = db'[s] /\ f \in restamped[s])
  OBVIOUS
<1>1. PICK c \in Clients, k \in Starts : ApplyPatch(c, k)
  <2>1. TypeOK /\ SnapshotsInUse
    BY DEF OrderInv, ApartInv, AccountInv
  <2> QED
    BY <2>1, StepKinds, EditKeeps, CopyEffect
<1>2. snapshot[c][k][s] # None /\ db'[s] = snapshot[c][k][s]
  BY <1>1 DEF ApplyPatch
<1>3. IsNewest(c, s, snapshot[c][k][s]) /\ snapshot[c][k][s].by = c
  BY <1>2 DEF OrderInv, ApartInv, InOrder, Apart
<1> QED
  BY <1>2, <1>3 DEF IsNewest

\* With one StartOnlineSync the database never takes an edit of a client after a later
\* one of the same client, and takes one twice only when it was made on a stroke of the
\* PATCH that still awaited its token.
THEOREM OwnEditsStayInOrder ==
    ASSUME MaxStarts = 1
    PROVE  Spec => OwnEditsInOrder
<1>1. OrderInv /\ [Next]_vars => OrderInv'
  BY StepOrder
<1>2. Init => OrderInv
  BY InitOrder
<1>3. OrderInv /\ [Next]_vars =>
        [\A s \in Strokes : db'[s] # db[s] =>
            \A f \in written[s] : f.by = db'[s].by =>
                f.at < db'[s].at \/ (f = db'[s] /\ f \in restamped[s])]_vars
  BY StepInOrder
<1> QED
  BY <1>1, <1>2, <1>3, PTL DEF Spec, OwnEditsInOrder

-----------------------------------------------------------------------------
(***************************************************************************)
(* QuietViews. Every subscription is told the database's latest map last,  *)
(* a client with one that works has yet to handle what it was told or has  *)
(* received it, and all it writes over it are its own edits.  A listener   *)
(* that ends on a key that vanished leaves another one that works: only    *)
(* that one can have replaced the map.                                     *)
(***************************************************************************)

\* What c shows over the received map, or has to send, is its latest edit.
OwnOnly(c, s) ==
    /\ StrokesMapOverride[c][s] \in {None, own[c][s]}
    /\ StrokesToUpdate[c][s] \in {None, own[c][s]}
    /\ \A k \in Starts : snapshot[c][k][s] # None => own[c][s] # None

\* The last map that a subscription was told is what the database holds.
ToldLatest(c, k) ==
    IsSubscribed(c, k) /\ feed[c][k] # <<>> => feed[c][k][Len(feed[c][k])] = db

\* Every stroke of a map that the database told was written.
Known(map) == \A s \in Strokes : map[s] # None => written[s] # {}

KnownFeed(c, k) ==
    /\ \A i \in 1..Len(feed[c][k]) : Known(feed[c][k][i])
    /\ \A s \in seen[c][k] : written[s] # {}

\* c's latest edit of s was not applied.
Unapplied(c, s) == own[c][s] # None /\ own[c][s] \notin written[s]

Live(c, k) == listener[c][k] \notin {"none", "ended"}

\* The listener will end on a key that vanished.
Vanished(c, k) == listener[c][k] = "checking" /\ KeyVanished(c, k)

\* The k-th listener of c has yet to handle what it was told, or to be told.
Hears(c, k) ==
    \/ listener[c][k] = "connecting"
    \/ /\ feed[c][k] # <<>>
       /\ \/ listener[c][k] = "waiting"
          \/ /\ listener[c][k] \in {"checking", "purging", "refreshing"}
             /\ StrokesMap[c] # NoMap /\ ~Vanished(c, k)

WillHear(c) == \E k \in Starts : Hears(c, k)

\* The received map holds what the database holds, but for c's own edits.
UpToDate(c) ==
    /\ StrokesMap[c] # NoMap
    /\ \A s \in Strokes :
          \/ Unapplied(c, s)
          \/ StrokesMap[c][s] = db[s]
          \/ own[c][s] # None /\ StrokesMap[c][s] = own[c][s]

Informed(c) ==
    session[c] # "crashed" /\ (\E k \in Starts : Live(c, k)) => WillHear(c) \/ UpToDate(c)

\* Unless the map is null, some listener of c goes on.
Witnessed(c) ==
    session[c] # "crashed" /\ StrokesMap[c] # NoMap /\ (\E k \in Starts : Live(c, k))
        => \E k \in Starts : Live(c, k) /\ ~Vanished(c, k)

ViewInv ==
    /\ ApartInv
    /\ Known(db)
    /\ \A c \in Clients : \A s \in Strokes : OwnOnly(c, s)
    /\ \A c \in Clients : \A k \in Starts : ToldLatest(c, k) /\ KnownFeed(c, k)
    /\ \A c \in Clients : Informed(c) /\ Witnessed(c)

LEMMA InitViews == Init => ViewInv
<1> SUFFICES ASSUME Init PROVE ViewInv
  OBVIOUS
<1>1. ApartInv
  BY InitApart
<1>2. Known(db)
  BY DEF Init, Known
<1>3. \A c \in Clients : \A k \in Starts : KnownFeed(c, k)
  BY DEF Init, KnownFeed
<1> QED
  BY <1>1, <1>2, <1>3 DEF Init, ViewInv, OwnOnly, ToldLatest, Informed, Witnessed, Live, NoEntry

\* A step is an edit, or makes none and at most removes overrides.
LEMMA OwnKinds ==
    ASSUME TypeOK, [Next]_vars
    PROVE  \/ \E c \in Clients : \E touched \in SUBSET Strokes : \E gone \in BOOLEAN :
                 Edits(c, touched, gone)
           \/ /\ UNCHANGED own
              /\ \A c \in Clients : \A s \in Strokes :
                    StrokesMapOverride'[c][s] \in {None, StrokesMapOverride[c][s]}
<1> USE DEF databaseVars, clientVars, startVars, writerVars, bodyVars, tokenVars, listenVars
<1>1. ASSUME NEW c \in Clients, CrashOnNullMap(c) \/ StopSync(c)
      PROVE  UNCHANGED <<own, StrokesMapOverride>>
  BY <1>1 DEF CrashOnNullMap, StopSync
<1>2. ASSUME NEW c \in Clients, NEW k \in Starts,
             \/ StartOnlineSync(c, k) \/ FailPull(c, k) \/ FailPatch(c, k)
             \/ ContinueStart(c, k) \/ StartWriter(c, k) \/ EndWriter(c, k)
             \/ CopyUpdates(c, k) \/ ClearUpdates(c, k) \/ SerializePatch(c, k) \/ ApplyPatch(c, k)
             \/ Connect(c, k) \/ ReceiveStrokes(c, k) \/ CheckOverrides(c, k)
             \/ RefreshCanvas(c, k) \/ EndListener(c, k)
      PROVE  UNCHANGED <<own, StrokesMapOverride>>
  BY <1>2 DEF StartOnlineSync, FailPull, FailPatch, ContinueStart, StartWriter, EndWriter, CopyUpdates,
              ClearUpdates, SerializePatch, ApplyPatch, Connect, ReceiveStrokes, CheckOverrides,
              RefreshCanvas, EndListener
<1>3. ASSUME NEW c \in Clients, NEW k \in Starts, PurgeOverrides(c, k)
      PROVE  /\ UNCHANGED own
             /\ \A d \in Clients : \A s \in Strokes :
                   StrokesMapOverride'[d][s] \in {None, StrokesMapOverride[d][s]}
  BY <1>3 DEF PurgeOverrides, TypeOK
<1>4. CASE UNCHANGED vars
  BY <1>4 DEF vars
<1> QED
  BY <1>1, <1>2, <1>3, <1>4, UserKinds DEF Next, SystemAction

LEMMA StepOwnOnly ==
    ASSUME AccountInv, \A c \in Clients : \A s \in Strokes : OwnOnly(c, s), [Next]_vars
    PROVE  \A c \in Clients : \A s \in Strokes : OwnOnly(c, s)'
<1> SUFFICES ASSUME NEW c \in Clients, NEW s \in Strokes PROVE OwnOnly(c, s)'
  OBVIOUS
<1>0. TypeOK /\ SnapshotsInUse /\ OwnOnly(c, s)
  BY DEF AccountInv
<1>1. ASSUME NEW d \in Clients, NEW touched \in SUBSET Strokes, NEW gone \in BOOLEAN,
             Edits(d, touched, gone)
      PROVE  OwnOnly(c, s)'
  <2>1. CASE c = d /\ s \in touched
    <3>1. s \in touched /\ c = d
      BY <2>1
    <3>2. /\ own'[d][s] \in Edit /\ StrokesToUpdate'[d][s] = own'[d][s]
          /\ StrokesMapOverride'[d][s] = own'[d][s]
      BY <1>0, <1>1, <3>1, EditMade
    <3> QED
      BY <3>1, <3>2, SentinelAssumption DEF OwnOnly
  <2>2. CASE ~(c = d /\ s \in touched)
    <3>1. /\ own'[c][s] = own[c][s]
          /\ StrokesToUpdate'[c][s] = StrokesToUpdate[c][s]
          /\ StrokesMapOverride'[c][s] = StrokesMapOverride[c][s]
          /\ \A k \in Starts : snapshot'[c][k][s] = snapshot[c][k][s]
      BY <1>0, <1>1, <2>2, EditElsewhere
    <3> QED
      BY <1>0, <3>1 DEF OwnOnly
  <2> QED
    BY <2>1, <2>2
<1>2. ASSUME UNCHANGED own,
             \A d \in Clients : \A x \in Strokes :
                 StrokesMapOverride'[d][x] \in {None, StrokesMapOverride[d][x]}
      PROVE  OwnOnly(c, s)'
  <2>1. CASE Forgets
    BY <1>0, <1>2, <2>1 DEF Forgets, OwnOnly
  <2>2. ASSUME NEW d \in Clients, NEW k \in Starts, CopyUpdates(d, k) PROVE OwnOnly(c, s)'
    <3>1. /\ StrokesToUpdate' = StrokesToUpdate
          /\ \A j \in Starts : snapshot'[c][j] \in {snapshot[c][j], StrokesToUpdate[c]}
      BY <1>0, <2>2, CopyEffect
    <3> QED
      BY <1>0, <1>2, <3>1 DEF OwnOnly
  <2> QED
    BY <1>0, <1>1, <2>1, <2>2, StepKinds
<1> QED
  BY <1>0, <1>1, <1>2, OwnKinds

\* Only the database appends to a feed, to each that is open, and what it appends is
\* what it holds, all of it written.
LEMMA StepTold ==
    ASSUME TypeOK, Known(db), \A c \in Clients : \A k \in Starts : ToldLatest(c, k) /\ KnownFeed(c, k),
           [Next]_vars
    PROVE  /\ Known(db)'
           /\ \A c \in Clients : \A k \in Starts : ToldLatest(c, k)' /\ KnownFeed(c, k)'
<1> USE DEF databaseVars, clientVars, startVars, writerVars, bodyVars, tokenVars, listenVars
<1> DEFINE Goal ==
        /\ Known(db)'
        /\ \A c \in Clients : \A k \in Starts : ToldLatest(c, k)' /\ KnownFeed(c, k)'
<1>0. ASSUME UNCHANGED <<db, feed, written>>,
             \A c \in Clients : \A k \in Starts : /\ IsSubscribed(c, k)' => IsSubscribed(c, k)
                                                  /\ seen'[c][k] \subseteq seen[c][k]
      PROVE  Goal
  BY <1>0 DEF ToldLatest, KnownFeed, Known
<1>1. ASSUME NEW c \in Clients, UserAction(c) PROVE Goal
  <2>1. UNCHANGED <<db, feed, written, listener, seen>>
    BY <1>1, UserKinds, EditKeeps DEF CrashOnNullMap, StopSync
  <2>2. \A d \in Clients : session'[d] # "crashed" => session[d] # "crashed"
    <3>1. CASE CrashOnNullMap(c) \/ StopSync(c)
      BY <3>1 DEF CrashOnNullMap, Crash, StopSync, TypeOK
    <3>2. CASE ~(CrashOnNullMap(c) \/ StopSync(c))
      BY <1>1, <3>2, UserKinds, EditKeeps
    <3> QED
      BY <3>1, <3>2
  <2> QED
    BY <1>0, <2>1, <2>2 DEF IsSubscribed
<1>2. ASSUME NEW c \in Clients, NEW k \in Starts,
             \/ StartOnlineSync(c, k) \/ StartWriter(c, k) \/ EndWriter(c, k) \/ CopyUpdates(c, k)
             \/ ClearUpdates(c, k) \/ SerializePatch(c, k) \/ FailPatch(c, k) \/ FailPull(c, k)
      PROVE  Goal
  <2>1. UNCHANGED <<db, feed, written, listener, seen>>
    BY <1>2 DEF StartOnlineSync, StartWriter, EndWriter, CopyUpdates, ClearUpdates, SerializePatch,
                FailPatch, FailPull
  <2>2. ASSUME NEW d \in Clients, session'[d] # "crashed" PROVE session[d] # "crashed"
    BY <1>2, <2>2 DEF StartOnlineSync, StartWriter, EndWriter, CopyUpdates, ClearUpdates,
                      SerializePatch, FailPatch, FailPull, Crash, TypeOK
  <2> QED
    BY <1>0, <2>1, <2>2 DEF IsSubscribed
<1>3. ASSUME NEW c \in Clients, NEW k \in Starts,
             \/ ContinueStart(c, k) \/ CheckOverrides(c, k) \/ PurgeOverrides(c, k)
             \/ RefreshCanvas(c, k) \/ EndListener(c, k)
      PROVE  Goal
  <2>1. UNCHANGED <<db, feed, written>>
    BY <1>3 DEF ContinueStart, CheckOverrides, PurgeOverrides, RefreshCanvas, EndListener
  <2>2. \A d \in Clients : session'[d] # "crashed" => session[d] # "crashed"
    BY <1>3 DEF ContinueStart, CheckOverrides, PurgeOverrides, RefreshCanvas, EndListener, Crash, TypeOK
  <2>3. \/ UNCHANGED listener
        \/ listener' = [listener EXCEPT ![c][k] = "connecting"]
        \/ listener' = [listener EXCEPT ![c][k] = "ended"]
        \/ /\ listener[c][k] \in {"checking", "purging", "refreshing"}
           /\ \E v \in ListenerStates : listener' = [listener EXCEPT ![c][k] = v]
    BY <1>3 DEF ContinueStart, CheckOverrides, PurgeOverrides, RefreshCanvas, EndListener, ListenerStates
  <2>4. ASSUME NEW d \in Clients, NEW j \in Starts,
               listener'[d][j] \notin {"none", "connecting", "ended"}
        PROVE  listener[d][j] \notin {"none", "connecting", "ended"}
    <3>1. CASE d = c /\ j = k
      BY <2>3, <2>4, <3>1 DEF TypeOK
    <3>2. CASE ~(d = c /\ j = k)
      BY <2>3, <2>4, <3>2 DEF TypeOK
    <3> QED
      BY <3>1, <3>2
  <2>5. ASSUME NEW d \in Clients, NEW j \in Starts PROVE seen'[d][j] \subseteq seen[d][j]
    <3>1. seen' = seen \/ seen' = [seen EXCEPT ![c][k] = {}]
      BY <1>3 DEF ContinueStart, CheckOverrides, PurgeOverrides, RefreshCanvas, EndListener
    <3>2. CASE d = c /\ j = k
      BY <3>1, <3>2 DEF TypeOK
    <3>3. CASE ~(d = c /\ j = k)
      BY <3>1, <3>3 DEF TypeOK
    <3> QED
      BY <3>2, <3>3
  <2> QED
    BY <1>0, <2>1, <2>2, <2>4, <2>5 DEF IsSubscribed
<1>4. ASSUME NEW c \in Clients, NEW k \in Starts, ApplyPatch(c, k) PROVE Goal
  <2>1. /\ \A s \in Strokes : written[s] \subseteq written'[s]
        /\ \A s \in Strokes : db'[s] # None => db[s] # None \/ db'[s] \in written'[s]
        /\ UNCHANGED seen
    BY <1>4 DEF ApplyPatch
  <2>2. Known(db)'
    BY <2>1 DEF Known
  <2>3. ASSUME NEW map, Known(map) PROVE \A s \in Strokes : map[s] # None => written'[s] # {}
    BY <2>1, <2>3 DEF Known
  <2>4. ASSUME NEW d \in Clients, NEW j \in Starts PROVE ToldLatest(d, j)' /\ KnownFeed(d, j)'
    <3>1. /\ feed'[d][j] = IF IsSubscribed(d, j) THEN Append(feed[d][j], db') ELSE feed[d][j]
          /\ IsSubscribed(d, j)' = IsSubscribed(d, j)
          /\ feed[d][j] \in Seq(Map)
      BY <1>4 DEF ApplyPatch, IsSubscribed, TypeOK
    <3>2. ToldLatest(d, j)'
      BY <3>1 DEF ToldLatest
    <3>3. ASSUME NEW i \in 1..Len(feed'[d][j])
          PROVE  \/ feed'[d][j][i] = db'
                 \/ i \in 1..Len(feed[d][j]) /\ feed'[d][j][i] = feed[d][j][i]
      BY <3>1
    <3>4. ASSUME NEW i \in 1..Len(feed'[d][j]), NEW s \in Strokes, feed'[d][j][i][s] # None
          PROVE  written'[s] # {}
      <4>1. CASE feed'[d][j][i] = db'
        BY <2>2, <3>4, <4>1 DEF Known
      <4>2. CASE i \in 1..Len(feed[d][j]) /\ feed'[d][j][i] = feed[d][j][i]
        <5>1. Known(feed[d][j][i])
          BY <4>2 DEF KnownFeed
        <5> QED
          BY <2>1, <3>4, <4>2, <5>1 DEF Known
      <4> QED
        BY <3>3, <4>1, <4>2
    <3>5. \A s \in seen'[d][j] : written'[s] # {}
      <4>1. seen[d][j] \subseteq Strokes
        BY DEF TypeOK
      <4> QED
        BY <2>1, <4>1 DEF KnownFeed
    <3> QED
      BY <3>2, <3>4, <3>5 DEF KnownFeed, Known
  <2> QED
    BY <2>2, <2>4
<1>5. ASSUME NEW c \in Clients, NEW k \in Starts, Connect(c, k) PROVE Goal
  <2>1. UNCHANGED <<db, written, session, seen>>
    BY <1>5 DEF Connect
  <2>2. ASSUME NEW d \in Clients, NEW j \in Starts PROVE ToldLatest(d, j)' /\ KnownFeed(d, j)'
    <3>1. CASE d = c /\ j = k
      <4>1. feed'[d][j] = <<db>>
        BY <1>5, <3>1 DEF Connect, TypeOK
      <4> QED
        BY <2>1, <4>1 DEF ToldLatest, KnownFeed, Known
    <3>2. CASE ~(d = c /\ j = k)
      <4>1. feed'[d][j] = feed[d][j] /\ listener'[d][j] = listener[d][j]
        BY <1>5, <3>2 DEF Connect, TypeOK
      <4>2. ToldLatest(d, j) /\ KnownFeed(d, j)
        OBVIOUS
      <4> QED
        BY <2>1, <4>1, <4>2 DEF ToldLatest, IsSubscribed, KnownFeed, Known
    <3> QED
      BY <3>1, <3>2
  <2> QED
    BY <2>1, <2>2 DEF Known
<1>6. ASSUME NEW c \in Clients, NEW k \in Starts, ReceiveStrokes(c, k) PROVE Goal
  <2>1. UNCHANGED <<db, written, session>>
    BY <1>6 DEF ReceiveStrokes
  <2>2. ASSUME NEW d \in Clients, NEW j \in Starts PROVE ToldLatest(d, j)' /\ KnownFeed(d, j)'
    <3>0. ToldLatest(d, j) /\ KnownFeed(d, j)
      OBVIOUS
    <3>1. CASE d = c /\ j = k
      <4>1. /\ feed'[d][j] = Tail(feed[d][j]) /\ feed[d][j] # <<>> /\ feed[d][j] \in Seq(Map)
            /\ IsSubscribed(d, j) /\ StrokesMap'[d] = Head(feed[d][j])
        BY <1>6, <3>1 DEF ReceiveStrokes, TypeOK, IsSubscribed
      <4>2. feed'[d][j] # <<>> =>
               feed'[d][j][Len(feed'[d][j])] = feed[d][j][Len(feed[d][j])]
        BY <4>1
      <4>3. ASSUME NEW i \in 1..Len(feed'[d][j])
            PROVE  i + 1 \in 1..Len(feed[d][j]) /\ feed'[d][j][i] = feed[d][j][i + 1]
        BY <4>1
      <4>4. Known(Head(feed[d][j]))
        <5>1. 1 \in 1..Len(feed[d][j]) /\ Head(feed[d][j]) = feed[d][j][1]
          BY <4>1
        <5> QED
          BY <3>0, <5>1 DEF KnownFeed
      <4>5. \A s \in seen'[d][j] : s \in Strokes /\ StrokesMap'[d][s] # None
        BY <1>6, <3>1 DEF ReceiveStrokes, Contains, Present, TypeOK
      <4>6. \A s \in seen'[d][j] : written'[s] # {}
        BY <2>1, <4>1, <4>4, <4>5 DEF Known
      <4>7. \A i \in 1..Len(feed'[d][j]) : \A s \in Strokes : feed'[d][j][i][s] # None => written'[s] # {}
        BY <2>1, <3>0, <4>3 DEF KnownFeed, Known
      <4> QED
        BY <2>1, <3>0, <4>1, <4>2, <4>6, <4>7 DEF ToldLatest, KnownFeed, Known
    <3>2. CASE ~(d = c /\ j = k)
      <4>1. /\ feed'[d][j] = feed[d][j] /\ listener'[d][j] = listener[d][j]
            /\ seen'[d][j] = seen[d][j]
        BY <1>6, <3>2 DEF ReceiveStrokes, TypeOK
      <4> QED
        BY <2>1, <3>0, <4>1 DEF ToldLatest, IsSubscribed, KnownFeed, Known
    <3> QED
      BY <3>1, <3>2
  <2> QED
    BY <2>1, <2>2 DEF Known
<1>7. CASE UNCHANGED vars
  BY <1>0, <1>7 DEF vars, IsSubscribed
<1> QED
  BY <1>1, <1>2, <1>3, <1>4, <1>5, <1>6, <1>7 DEF Next, SystemAction


\* A client whose listeners and received map stay.
LEMMA ClientKept ==
    ASSUME NEW c \in Clients, Informed(c), Witnessed(c), UNCHANGED <<db, written>>,
           listener'[c] = listener[c], feed'[c] = feed[c], seen'[c] = seen[c], own'[c] = own[c],
           StrokesMap'[c] = StrokesMap[c], StrokesMapOverride'[c] = StrokesMapOverride[c],
           session'[c] # "crashed" => session[c] # "crashed"
    PROVE  Informed(c)' /\ Witnessed(c)'
<1>1. \A k \in Starts : Live(c, k)' = Live(c, k) /\ Vanished(c, k)' = Vanished(c, k)
  BY DEF Live, Vanished, KeyVanished
<1>2. WillHear(c)' = WillHear(c)
  BY <1>1 DEF WillHear, Hears
<1>3. UpToDate(c)' = UpToDate(c)
  BY DEF UpToDate, Unapplied
<1> QED
  BY <1>1, <1>2, <1>3 DEF Informed, Witnessed

\* What a client shows of a stroke over a map is its own edit or what the map holds.
LEMMA ViewOfMap ==
    ASSUME NEW c \in Clients, NEW s \in Strokes, OwnOnly(c, s), StrokesMap[c] # NoMap
    PROVE  \/ View(c)[s] = StrokesMap[c][s]
           \/ own[c][s] # None /\ View(c)[s] = own[c][s]
BY DEF View, Merged, OwnOnly

\* Merging only writes the client's own edits over its received map, all that it shows.
LEMMA MergedIsOwn ==
    ASSUME TypeOK, NEW c \in Clients, StrokesMap[c] # NoMap, MergeInto(c),
           \A s \in Strokes : OwnOnly(c, s)
    PROVE  /\ StrokesMap'[c] # NoMap
           /\ \A s \in Strokes :
                 /\ \/ StrokesMap'[c][s] = StrokesMap[c][s]
                    \/ own[c][s] # None /\ StrokesMap'[c][s] = own[c][s]
                 /\ Present(StrokesMapOverride[c][s]) => Contains(StrokesMap'[c], s)
           /\ \A d \in Clients \ {c} : StrokesMap'[d] = StrokesMap[d]
<1>1. View(c) \in Map
  BY MergedType DEF View, TypeOK
<1>2. StrokesMap' = [StrokesMap EXCEPT ![c] = View(c)]
  BY DEF MergeInto
<1>3. /\ StrokesMap'[c] = View(c)
      /\ \A d \in Clients \ {c} : StrokesMap'[d] = StrokesMap[d]
  BY <1>2 DEF TypeOK
<1>4. \A s \in Strokes : Present(StrokesMapOverride[c][s]) => View(c)[s] = StrokesMapOverride[c][s]
  BY DEF View, Merged, Present
<1>5. View(c) # NoMap
  BY <1>1, SentinelAssumption
<1> QED
  BY <1>3, <1>4, <1>5, ViewOfMap DEF Contains

\* What a deletion shows, and what another edit does.
LEMMA EditShows ==
    ASSUME TypeOK, NEW c \in Clients, NEW touched \in SUBSET Strokes, NEW s \in touched
    PROVE  /\ Edits(c, touched, TRUE) => ~Present(StrokesMapOverride'[c][s])
           /\ Edits(c, touched, FALSE) => Present(own'[c][s])
<1>1. ASSUME NEW gone \in BOOLEAN, Edits(c, touched, gone)
      PROVE  \E e \in Edit : /\ own'[c][s] = e /\ StrokesMapOverride'[c][s] = e
                             /\ (gone => e.gone) /\ (e.gone => gone)
  <2> DEFINE e == [by |-> c, at |-> clock[c] + 1, gone |-> gone]
  <2>1. own' = [own EXCEPT ![c] = [x \in Strokes |-> IF x \in touched THEN e ELSE own[c][x]]]
    BY <1>1 DEF Edits, UpdateStroke
  <2>2. StrokesMapOverride'[c][s] = own'[c][s] /\ own'[c][s] \in Edit
    BY <1>1, EditMade
  <2> HIDE DEF e
  <2>3. own'[c][s] = e
    BY <2>1 DEF TypeOK
  <2>4. (gone => e.gone) /\ (e.gone => gone)
    BY DEF e
  <2> QED
    BY <2>2, <2>3, <2>4
<1>2. ASSUME Edits(c, touched, TRUE) PROVE ~Present(StrokesMapOverride'[c][s])
  <2>1. PICK e \in Edit : StrokesMapOverride'[c][s] = e /\ e.gone
    BY <1>1, <1>2
  <2> QED
    BY <2>1 DEF Present
<1>3. ASSUME Edits(c, touched, FALSE) PROVE Present(own'[c][s])
  <2>1. PICK e \in Edit : own'[c][s] = e /\ ~e.gone
    BY <1>1, <1>3
  <2> QED
    BY <2>1, SentinelAssumption DEF Present
<1> QED
  BY <1>2, <1>3

\* An edit of one stroke shows nothing else.
LEMMA EditOthers ==
    ASSUME TypeOK, NEW c \in Clients, NEW s \in Strokes, NEW gone \in BOOLEAN, Edits(c, {s}, gone)
    PROVE  /\ {s} \in SUBSET Strokes /\ s \in {s}
           /\ \A x \in Strokes : x # s => StrokesMapOverride'[c][x] = StrokesMapOverride[c][x]
BY DEF Edits, UpdateStroke, TypeOK

\* A map that an edit leaves, but for the client's own edits: no key vanishes that had
\* not vanished before.
ShownIn(c) ==
    /\ \A d \in Clients \ {c} : StrokesMap'[d] = StrokesMap[d]
    /\ StrokesMap[c] = NoMap => StrokesMap'[c] = NoMap
    /\ StrokesMap[c] # NoMap =>
          /\ StrokesMap'[c] # NoMap
          /\ \A s \in Strokes :
                /\ \/ StrokesMap'[c][s] = StrokesMap[c][s]
                   \/ own'[c][s] # None /\ StrokesMap'[c][s] = own'[c][s]
                   \/ own[c][s] # None /\ StrokesMap'[c][s] = own[c][s]
                /\ written[s] # {} /\ Present(StrokesMapOverride'[c][s])
                      /\ ~Contains(StrokesMap'[c], s)
                   => Present(StrokesMapOverride[c][s]) /\ ~Contains(StrokesMap[c], s)

\* The steps of the user: the received map only takes over the user's own edits.
LEMMA EditInformed ==
    ASSUME ViewInv, NEW c \in Clients, NEW touched \in SUBSET Strokes, NEW gone \in BOOLEAN,
           Edits(c, touched, gone), ShownIn(c), NEW d \in Clients
    PROVE  Informed(d)' /\ Witnessed(d)'
<1>0. TypeOK /\ Informed(d) /\ Witnessed(d)
  BY DEF ViewInv, ApartInv, AccountInv
<1>1. UNCHANGED <<db, feed, written, listener, seen, session>>
  BY EditKeeps
<1>2. CASE d # c
  <2>1. own'[d] = own[d] /\ StrokesMapOverride'[d] = StrokesMapOverride[d]
    BY <1>0, <1>2 DEF Edits, UpdateStroke, TypeOK
  <2>2. StrokesMap'[d] = StrokesMap[d]
    BY <1>2 DEF ShownIn
  <2> QED
    BY <1>0, <1>1, <2>1, <2>2, ClientKept
<1>3. CASE d = c /\ StrokesMap[c] = NoMap
  <2>1. StrokesMap'[c] = NoMap
    BY <1>3 DEF ShownIn
  <2>2. WillHear(c) => WillHear(c)'
    BY <1>1, <1>3 DEF WillHear, Hears
  <2> QED
    BY <1>0, <1>1, <1>3, <2>1, <2>2 DEF Informed, Witnessed, UpToDate, Live
<1>4. CASE d = c /\ StrokesMap[c] # NoMap
  <2>1. StrokesMap'[c] # NoMap
    BY <1>4 DEF ShownIn
  <2>2. ASSUME NEW k \in Starts, ~Vanished(c, k) PROVE ~Vanished(c, k)'
    <3>1. \A s \in seen[c][k] : s \in Strokes /\ written[s] # {}
      BY <1>0 DEF ViewInv, KnownFeed, TypeOK
    <3> QED
      BY <1>1, <1>4, <2>2, <3>1 DEF Vanished, KeyVanished, ShownIn
  <2>3. WillHear(c) => WillHear(c)'
    BY <1>1, <2>1, <2>2 DEF WillHear, Hears
  <2>4. Witnessed(c)'
    BY <1>0, <1>1, <1>4, <2>2 DEF Witnessed, Live
  <2>5. ASSUME UpToDate(c), NEW s \in Strokes
        PROVE  \/ Unapplied(c, s)'
               \/ StrokesMap'[c][s] = db'[s]
               \/ own'[c][s] # None /\ StrokesMap'[c][s] = own'[c][s]
    <3>1. CASE s \in touched
      <4>1. PICK e \in Edit : e = own'[c][s] /\ e.by = c /\ e.at = clock[c] + 1
        BY <1>0, <3>1, EditMade
      <4>2. \A f \in written[s] : f.at <= clock[f.by]
        BY DEF ViewInv, ApartInv
      <4>3. e \notin written[s]
        BY <1>0, <4>1, <4>2 DEF TypeOK
      <4> QED
        BY <1>1, <4>1, <4>3, SentinelAssumption DEF Unapplied
    <3>2. CASE s \notin touched
      <4>1. own'[c][s] = own[c][s]
        BY <1>0, <3>2, EditElsewhere
      <4>2. \/ StrokesMap'[c][s] = StrokesMap[c][s]
            \/ own[c][s] # None /\ StrokesMap'[c][s] = own[c][s]
        BY <1>4, <4>1 DEF ShownIn
      <4> QED
        BY <1>1, <2>5, <4>1, <4>2 DEF UpToDate, Unapplied
    <3> QED
      BY <3>1, <3>2
  <2>6. UpToDate(c) => UpToDate(c)'
    BY <2>1, <2>5 DEF UpToDate
  <2>7. Informed(c)'
    BY <1>0, <1>1, <1>4, <2>3, <2>6 DEF Informed, Live
  <2> QED
    BY <1>4, <2>4, <2>7
<1> QED
  BY <1>2, <1>3, <1>4

LEMMA UserInformed ==
    ASSUME ViewInv, NEW c \in Clients, UserAction(c), NEW d \in Clients
    PROVE  Informed(d)' /\ Witnessed(d)'
<1>0. TypeOK /\ \A s \in Strokes : OwnOnly(c, s)
  BY DEF ViewInv, ApartInv, AccountInv
<1>1. ASSUME NEW s \in Strokes, Draw(c, s) PROVE Informed(d)' /\ Witnessed(d)'
  <2>1. Edits(c, {s}, FALSE) /\ StrokesMap' = StrokesMap /\ written[s] = {}
    BY <1>1, PlainEdits DEF Draw, IsFresh
  <2>2. \A x \in Strokes : x # s => StrokesMapOverride'[c][x] = StrokesMapOverride[c][x]
    BY <1>0, <2>1, EditOthers
  <2>3. ShownIn(c)
    BY <2>1, <2>2 DEF ShownIn
  <2> QED
    BY <2>1, <2>3, EditInformed
<1>2. ASSUME NEW s \in Strokes, Erase(c, s) PROVE Informed(d)' /\ Witnessed(d)'
  <2>1. Edits(c, {s}, TRUE) /\ StrokesMap' = StrokesMap
    BY <1>2, PlainEdits DEF Erase
  <2>2. \A x \in Strokes : x # s => StrokesMapOverride'[c][x] = StrokesMapOverride[c][x]
    BY <1>0, <2>1, EditOthers
  <2>3. ~Present(StrokesMapOverride'[c][s])
    BY <1>0, <2>1, EditOthers, EditShows
  <2>4. ShownIn(c)
    BY <2>1, <2>2, <2>3 DEF ShownIn
  <2> QED
    BY <2>1, <2>4, EditInformed
<1>3. ASSUME NEW s \in Strokes, Transform(c, s) PROVE Informed(d)' /\ Witnessed(d)'
  <2>1. /\ Edits(c, {s}, FALSE)
        /\ StrokesMap' = [StrokesMap EXCEPT ![c][s] = own'[c][s]]
        /\ StrokesMap[c] # NoMap
    BY <1>0, <1>3, TransformEdits DEF Transform, Contains
  <2>2. \A x \in Strokes : x # s => StrokesMapOverride'[c][x] = StrokesMapOverride[c][x]
    BY <1>0, <2>1, EditOthers
  <2>3. Present(own'[c][s]) /\ own'[c][s] \in Edit
    BY <1>0, <2>1, EditOthers, EditShows, EditMade
  <2>4. PICK e \in Edit : e = own'[c][s]
    BY <2>3
  <2>5. /\ StrokesMap[c] \in Map
        /\ StrokesMap'[c] = [StrokesMap[c] EXCEPT ![s] = e]
        /\ \A x \in Clients \ {c} : StrokesMap'[x] = StrokesMap[x]
    BY <1>0, <2>1, <2>4 DEF TypeOK
  <2>6. /\ StrokesMap'[c] \in Map /\ StrokesMap'[c][s] = e
        /\ \A x \in Strokes : x # s => StrokesMap'[c][x] = StrokesMap[c][x]
    BY <2>5
  <2>7. StrokesMap'[c] # NoMap
    BY <2>6, SentinelAssumption
  <2>8. e # None /\ Present(e)
    BY <2>3, <2>4, SentinelAssumption
  <2>9. ShownIn(c)
    BY <2>1, <2>2, <2>4, <2>5, <2>6, <2>7, <2>8 DEF ShownIn, Contains
  <2> QED
    BY <2>1, <2>9, EditInformed
<1>4. ASSUME NEW touched \in SUBSET Strokes, StrokesMap[c] # NoMap, MergeInto(c),
             Edits(c, touched, TRUE)
      PROVE  Informed(d)' /\ Witnessed(d)'
  <2>1. /\ StrokesMap'[c] # NoMap
        /\ \A s \in Strokes :
              /\ \/ StrokesMap'[c][s] = StrokesMap[c][s]
                 \/ own[c][s] # None /\ StrokesMap'[c][s] = own[c][s]
              /\ Present(StrokesMapOverride[c][s]) => Contains(StrokesMap'[c], s)
        /\ \A e \in Clients \ {c} : StrokesMap'[e] = StrokesMap[e]
    BY <1>0, <1>4, MergedIsOwn
  <2>2. \A x \in Strokes : x \notin touched => StrokesMapOverride'[c][x] = StrokesMapOverride[c][x]
    BY <1>0, <1>4, EditElsewhere
  <2>3. \A x \in touched : ~Present(StrokesMapOverride'[c][x])
    BY <1>0, <1>4, EditShows
  <2>4. ShownIn(c)
    BY <1>4, <2>1, <2>2, <2>3 DEF ShownIn
  <2> QED
    BY <1>4, <2>4, EditInformed
<1>5. ASSUME NEW s \in Strokes, Undo(c, s) PROVE Informed(d)' /\ Witnessed(d)'
  BY <1>4, <1>5, PlainEdits DEF Undo
<1>6. ASSUME Reset(c) PROVE Informed(d)' /\ Witnessed(d)'
  <2> DEFINE touched == {s \in Strokes : Present(View(c)[s])}
  <2>1. /\ StrokesMap[c] # NoMap /\ MergeInto(c)
        /\ touched \in SUBSET Strokes /\ UpdateStroke(c, touched, TRUE) /\ UNCHANGED bodyVars
    BY <1>6 DEF Reset
  <2> HIDE DEF touched
  <2> QED
    BY <1>4, <2>1, PlainEdits
<1>7. ASSUME CrashOnNullMap(c) \/ StopSync(c) PROVE Informed(d)' /\ Witnessed(d)'
  <2>1. UNCHANGED <<db, written, listener, feed, seen, own, StrokesMap, StrokesMapOverride>>
    BY <1>7 DEF CrashOnNullMap, StopSync, databaseVars, listenVars, clientVars
  <2>2. session'[d] # "crashed" => session[d] # "crashed"
    BY <1>0, <1>7 DEF CrashOnNullMap, StopSync, Crash, TypeOK
  <2> QED
    BY <2>1, <2>2, ClientKept DEF ViewInv
<1> QED
  BY <1>1, <1>2, <1>3, <1>5, <1>6, <1>7 DEF UserAction

\* The steps of the writers, and a start that asks or fails.
LEMMA WritersInformed ==
    ASSUME ViewInv, NEW c \in Clients, NEW k \in Starts,
           \/ StartOnlineSync(c, k) \/ FailPull(c, k) \/ FailPatch(c, k)
           \/ StartWriter(c, k) \/ EndWriter(c, k) \/ CopyUpdates(c, k) \/ ClearUpdates(c, k)
           \/ SerializePatch(c, k),
           NEW d \in Clients
    PROVE  Informed(d)' /\ Witnessed(d)'
<1> USE DEF databaseVars, clientVars, startVars, writerVars, bodyVars, tokenVars, listenVars
<1>0. TypeOK /\ Informed(d) /\ Witnessed(d)
  BY DEF ViewInv, ApartInv, AccountInv
<1>1. UNCHANGED <<db, written, listener, feed, seen, own, StrokesMap, StrokesMapOverride>>
  BY DEF StartOnlineSync, FailPull, FailPatch, StartWriter, EndWriter, CopyUpdates, ClearUpdates,
         SerializePatch
<1>2. session'[d] # "crashed" => session[d] # "crashed"
  BY <1>0 DEF StartOnlineSync, FailPull, FailPatch, StartWriter, EndWriter, CopyUpdates, ClearUpdates,
              SerializePatch, Crash, TypeOK
<1> QED
  BY <1>0, <1>1, <1>2, ClientKept

\* A start opens a subscription, which will be told the node, or crashes.
LEMMA StartInformed ==
    ASSUME ViewInv, NEW c \in Clients, NEW k \in Starts, ContinueStart(c, k), NEW d \in Clients
    PROVE  Informed(d)' /\ Witnessed(d)'
<1> USE DEF databaseVars, clientVars, startVars, writerVars, bodyVars, tokenVars, listenVars
<1>0. TypeOK /\ Informed(d) /\ Witnessed(d)
  BY DEF ViewInv, ApartInv, AccountInv
<1>1. CASE d = c
  <2>1. session'[c] = "crashed" \/ listener'[c][k] = "connecting"
    BY <1>0 DEF ContinueStart, Crash, TypeOK
  <2>2. listener'[c][k] = "connecting" => Hears(c, k)' /\ Live(c, k)' /\ ~Vanished(c, k)'
    BY DEF Hears, Live, Vanished
  <2> QED
    BY <1>1, <2>1, <2>2 DEF Informed, WillHear, Witnessed
<1>2. CASE d # c
  <2>1. /\ UNCHANGED <<db, feed, written, seen, own, StrokesMapOverride>>
        /\ listener'[d] = listener[d] /\ StrokesMap'[d] = StrokesMap[d]
        /\ session'[d] # "crashed" => session[d] # "crashed"
    BY <1>0, <1>2 DEF ContinueStart, Crash, TypeOK
  <2> QED
    BY <1>0, <2>1, ClientKept
<1> QED
  BY <1>1, <1>2

\* The database tells every open subscription, so that of a listener that goes on; over a
\* null map one will be told anyway.
LEMMA PatchInformed ==
    ASSUME ViewInv, NEW c \in Clients, NEW k \in Starts, ApplyPatch(c, k), NEW d \in Clients
    PROVE  Informed(d)' /\ Witnessed(d)'
<1> USE DEF databaseVars, clientVars, startVars, writerVars, bodyVars, tokenVars, listenVars
<1>0. TypeOK /\ Informed(d) /\ Witnessed(d)
  BY DEF ViewInv, ApartInv, AccountInv
<1>1. UNCHANGED <<listener, session, StrokesMap, StrokesMapOverride, seen, own>>
  BY DEF ApplyPatch
<1>2. \A i \in Starts : Live(d, i)' = Live(d, i) /\ Vanished(d, i)' = Vanished(d, i)
  BY <1>1 DEF Live, Vanished, KeyVanished
<1>3. Witnessed(d)'
  BY <1>0, <1>1, <1>2 DEF Witnessed
<1>4. ASSUME NEW i \in Starts
      PROVE  /\ IsSubscribed(d, i) => feed'[d][i] # <<>>
             /\ feed[d][i] # <<>> => feed'[d][i] # <<>>
  <2>1. feed'[d][i] = IF IsSubscribed(d, i) THEN Append(feed[d][i], db') ELSE feed[d][i]
    BY DEF ApplyPatch
  <2>2. feed[d][i] \in Seq(Map)
    BY <1>0 DEF TypeOK
  <2> QED
    BY <2>1, <2>2
<1>5. ASSUME session[d] # "crashed", NEW j \in Starts, Live(d, j) PROVE WillHear(d)'
  <2>1. CASE StrokesMap[d] = NoMap
    <3>1. WillHear(d)
      BY <1>0, <1>5, <2>1 DEF Informed, UpToDate
    <3> QED
      BY <1>1, <1>4, <2>1, <3>1 DEF WillHear, Hears
  <2>2. CASE StrokesMap[d] # NoMap
    <3>1. PICK i \in Starts : Live(d, i) /\ ~Vanished(d, i)
      BY <1>0, <1>5, <2>2 DEF Witnessed
    <3>2. listener[d][i] \in {"connecting", "waiting", "checking", "purging", "refreshing"}
      BY <1>0, <3>1 DEF TypeOK, ListenerStates, Live
    <3>3. listener[d][i] # "connecting" => feed'[d][i] # <<>>
      BY <1>4, <1>5, <3>2 DEF IsSubscribed
    <3>4. Hears(d, i)'
      BY <1>1, <1>2, <2>2, <3>1, <3>2, <3>3 DEF Hears
    <3> QED
      BY <3>4 DEF WillHear
  <2> QED
    BY <2>1, <2>2
<1> QED
  BY <1>1, <1>2, <1>3, <1>5 DEF Informed

LEMMA HeadIsLast ==
    ASSUME NEW S, NEW q \in Seq(S), q # <<>>, Tail(q) = <<>>
    PROVE  Head(q) = q[Len(q)]
<1>1. Len(Tail(q)) = Len(q) - 1 /\ Len(q) \in Nat
  OBVIOUS
<1>2. Len(<<>>) = 0
  OBVIOUS
<1>3. Len(Tail(q)) = 0
  BY <1>2, Zenon
<1>4. Len(q) = 1
  BY <1>1, <1>3
<1> QED
  BY <1>4

\* The steps of a listener.
LEMMA ListenersInformed ==
    ASSUME ViewInv, NEW c \in Clients, NEW k \in Starts,
           \/ Connect(c, k) \/ ReceiveStrokes(c, k) \/ CheckOverrides(c, k)
           \/ PurgeOverrides(c, k) \/ RefreshCanvas(c, k) \/ EndListener(c, k),
           NEW d \in Clients
    PROVE  Informed(d)' /\ Witnessed(d)'
<1> USE DEF databaseVars, clientVars, startVars, writerVars, bodyVars, tokenVars, listenVars
<1>0. /\ TypeOK /\ Informed(d) /\ Witnessed(d) /\ ToldLatest(c, k)
      /\ \A s \in Strokes : OwnOnly(c, s)
  BY DEF ViewInv, ApartInv, AccountInv
<1>1. UNCHANGED <<db, written, own, session>> /\ session[c] # "crashed"
  BY DEF Connect, ReceiveStrokes, CheckOverrides, PurgeOverrides, RefreshCanvas, EndListener
<1>2. ASSUME NEW e \in Clients, e # c
      PROVE  /\ StrokesMap'[e] = StrokesMap[e] /\ StrokesMapOverride'[e] = StrokesMapOverride[e]
             /\ listener'[e] = listener[e] /\ feed'[e] = feed[e] /\ seen'[e] = seen[e]
  <2>1. CASE Connect(c, k) \/ ReceiveStrokes(c, k) \/ CheckOverrides(c, k)
    BY <1>0, <1>2, <2>1 DEF Connect, ReceiveStrokes, CheckOverrides, TypeOK
  <2>2. CASE PurgeOverrides(c, k) \/ RefreshCanvas(c, k) \/ EndListener(c, k)
    BY <1>0, <1>2, <2>2 DEF PurgeOverrides, RefreshCanvas, EndListener, MergeInto, TypeOK
  <2> QED
    BY <2>1, <2>2
<1>3. ASSUME NEW j \in Starts, j # k
      PROVE  /\ listener'[c][j] = listener[c][j] /\ feed'[c][j] = feed[c][j]
             /\ seen'[c][j] = seen[c][j]
  <2>1. CASE Connect(c, k) \/ ReceiveStrokes(c, k) \/ CheckOverrides(c, k)
    BY <1>0, <1>3, <2>1 DEF Connect, ReceiveStrokes, CheckOverrides, TypeOK
  <2>2. CASE PurgeOverrides(c, k) \/ RefreshCanvas(c, k) \/ EndListener(c, k)
    BY <1>0, <1>3, <2>2 DEF PurgeOverrides, RefreshCanvas, EndListener, MergeInto, TypeOK
  <2> QED
    BY <2>1, <2>2
<1>4. CASE d # c
  BY <1>0, <1>1, <1>2, <1>4, ClientKept
<1>5. CASE d = c /\ Connect(c, k)
  <2>1. listener'[c][k] = "waiting" /\ feed'[c][k] = <<db>>
    BY <1>0, <1>5 DEF Connect, TypeOK
  <2>2. feed'[c][k] # <<>>
    BY <2>1
  <2>3. Hears(c, k)' /\ Live(c, k)' /\ ~Vanished(c, k)'
    BY <2>1, <2>2 DEF Hears, Live, Vanished
  <2> QED
    BY <1>5, <2>3 DEF Informed, WillHear, Witnessed
<1>6. CASE d = c /\ ReceiveStrokes(c, k)
  <2>1. /\ feed[c][k] # <<>> /\ feed[c][k] \in Seq(Map)
        /\ listener[c][k] = "waiting" /\ listener'[c][k] = "checking"
        /\ feed'[c][k] = Tail(feed[c][k]) /\ StrokesMap'[c] = Head(feed[c][k])
        /\ seen'[c][k] = {s \in Strokes : Contains(StrokesMap'[c], s)}
    BY <1>0, <1>6 DEF ReceiveStrokes, TypeOK
  <2>2. StrokesMap'[c] # NoMap
    <3>1. Head(feed[c][k]) \in Map
      BY <2>1
    <3> QED
      BY <2>1, <3>1, SentinelAssumption
  <2>3. Live(c, k)' /\ ~Vanished(c, k)'
    BY <2>1 DEF Live, Vanished, KeyVanished
  <2>4. feed[c][k][Len(feed[c][k])] = db
    BY <1>0, <1>1, <2>1 DEF ToldLatest, IsSubscribed
  <2>5. feed'[c][k] # <<>> \/ StrokesMap'[c] = db'
    BY <1>1, <2>1, <2>4, HeadIsLast
  <2>6. CASE feed'[c][k] # <<>>
    <3>1. Hears(c, k)'
      BY <2>1, <2>2, <2>3, <2>6 DEF Hears
    <3> QED
      BY <1>6, <2>3, <3>1 DEF Informed, WillHear, Witnessed
  <2>7. CASE StrokesMap'[c] = db'
    BY <1>6, <2>2, <2>3, <2>7 DEF Informed, UpToDate, Witnessed
  <2> QED
    BY <2>5, <2>6, <2>7
\* The listener goes on with the map that is there, and no key vanishes.
<1>7. CASE d = c /\ (CheckOverrides(c, k) \/ PurgeOverrides(c, k) \/ RefreshCanvas(c, k))
  <2>1. /\ listener[c][k] \in {"checking", "purging", "refreshing"}
        /\ listener'[c][k] \in {"purging", "refreshing", "waiting"}
        /\ feed'[c][k] = feed[c][k]
    BY <1>0, <1>7 DEF CheckOverrides, PurgeOverrides, RefreshCanvas, TypeOK
  <2>2. /\ StrokesMap[c] = NoMap => StrokesMap'[c] = NoMap
        /\ StrokesMap[c] # NoMap =>
              /\ StrokesMap'[c] # NoMap
              /\ \A s \in Strokes : \/ StrokesMap'[c][s] = StrokesMap[c][s]
                                    \/ own[c][s] # None /\ StrokesMap'[c][s] = own[c][s]
    <3>1. CASE CheckOverrides(c, k) \/ PurgeOverrides(c, k)
      <4>1. StrokesMap' = StrokesMap
        BY <3>1 DEF CheckOverrides, PurgeOverrides
      <4> QED
        BY <4>1
    <3>2. CASE RefreshCanvas(c, k)
      BY <1>0, <3>2, MergedIsOwn DEF RefreshCanvas
    <3> QED
      BY <1>7, <3>1, <3>2
  <2>3. ASSUME NEW i \in Starts, i # k, ~Vanished(c, i) PROVE ~Vanished(c, i)'
    <3>0. seen[c][i] \subseteq Strokes
      BY <1>0 DEF TypeOK
    <3>1. CASE CheckOverrides(c, k)
      <4>1. StrokesMap' = StrokesMap /\ StrokesMapOverride' = StrokesMapOverride
        BY <3>1 DEF CheckOverrides
      <4> QED
        BY <1>3, <2>3, <4>1 DEF Vanished, KeyVanished
    <3>2. CASE PurgeOverrides(c, k)
      <4>1. /\ StrokesMap' = StrokesMap
            /\ \A s \in Strokes : StrokesMapOverride'[c][s] \in {None, StrokesMapOverride[c][s]}
        BY <1>0, <3>2 DEF PurgeOverrides, TypeOK
      <4> QED
        BY <1>3, <2>3, <3>0, <4>1 DEF Vanished, KeyVanished, Present
    <3>3. CASE RefreshCanvas(c, k)
      <4>1. StrokesMap[c] # NoMap /\ MergeInto(c) /\ StrokesMapOverride' = StrokesMapOverride
        BY <3>3 DEF RefreshCanvas
      <4>2. \A s \in Strokes : Present(StrokesMapOverride'[c][s]) => Contains(StrokesMap'[c], s)
        BY <1>0, <4>1, MergedIsOwn
      <4> QED
        BY <1>3, <2>3, <3>0, <4>2 DEF Vanished, KeyVanished
    <3> QED
      BY <1>7, <3>1, <3>2, <3>3
  <2>4. Live(c, k)' /\ ~Vanished(c, k)'
    BY <2>1 DEF Live, Vanished
  <2>5. ASSUME NEW i \in Starts, Hears(c, i) PROVE Hears(c, i)'
    <3>1. CASE i = k
      BY <2>1, <2>2, <2>4, <2>5, <3>1 DEF Hears
    <3>2. CASE i # k
      BY <1>3, <2>2, <2>3, <2>5, <3>2 DEF Hears
    <3> QED
      BY <3>1, <3>2
  <2>6. UpToDate(c) => UpToDate(c)'
    BY <1>1, <2>2 DEF UpToDate, Unapplied
  <2>7. Live(c, k)
    BY <2>1 DEF Live
  <2> QED
    BY <1>0, <1>1, <1>7, <2>4, <2>5, <2>6, <2>7 DEF Informed, WillHear, Witnessed
\* A listener ends on a null map, which a later start will replace, or on a key that
\* vanished, which leaves another one.
<1>8. CASE d = c /\ EndListener(c, k)
  <2>1. /\ UNCHANGED <<feed, StrokesMap, StrokesMapOverride>>
        /\ listener[c][k] \in {"checking", "refreshing"} /\ listener'[c][k] = "ended"
        /\ StrokesMap[c] = NoMap \/ Vanished(c, k)
    BY <1>0, <1>8 DEF EndListener, Vanished, TypeOK
  <2>2. ~Hears(c, k) /\ Live(c, k) /\ ~Live(c, k)'
    BY <2>1 DEF Hears, Live
  <2>3. ASSUME NEW i \in Starts, i # k
        PROVE  /\ Live(c, i)' = Live(c, i) /\ Vanished(c, i)' = Vanished(c, i)
               /\ Hears(c, i)' = Hears(c, i)
    BY <1>3, <2>1, <2>3 DEF Live, Vanished, KeyVanished, Hears
  <2>4. WillHear(c) => WillHear(c)'
    BY <2>2, <2>3 DEF WillHear
  <2>5. UpToDate(c) => UpToDate(c)'
    BY <1>1, <2>1 DEF UpToDate, Unapplied
  <2>6. Informed(c)'
    BY <1>0, <1>1, <1>8, <2>2, <2>4, <2>5 DEF Informed
  <2>7. Witnessed(c)'
    <3>1. CASE StrokesMap[c] = NoMap
      BY <2>1, <3>1 DEF Witnessed
    <3>2. CASE StrokesMap[c] # NoMap
      <4>1. PICK i \in Starts : Live(c, i) /\ ~Vanished(c, i)
        BY <1>0, <1>1, <1>8, <2>2, <3>2 DEF Witnessed
      <4>2. i # k
        BY <2>1, <3>2, <4>1
      <4> QED
        BY <2>3, <4>1, <4>2 DEF Witnessed
    <3> QED
      BY <3>1, <3>2
  <2> QED
    BY <1>8, <2>6, <2>7
<1> QED
  BY <1>4, <1>5, <1>6, <1>7, <1>8

LEMMA StepViews == ViewInv /\ [Next]_vars => ViewInv'
<1> SUFFICES ASSUME ViewInv, [Next]_vars PROVE ViewInv'
  OBVIOUS
<1>0. ApartInv /\ AccountInv /\ TypeOK
  BY DEF ViewInv, ApartInv, AccountInv
<1>1. ApartInv' /\ \A c \in Clients : \A s \in Strokes : OwnOnly(c, s)'
  BY <1>0, ApartStep, StepOwnOnly DEF ViewInv
<1>2. Known(db)' /\ \A c \in Clients : \A k \in Starts : ToldLatest(c, k)' /\ KnownFeed(c, k)'
  BY <1>0, StepTold DEF ViewInv
<1>3. ASSUME NEW d \in Clients PROVE Informed(d)' /\ Witnessed(d)'
  <2>1. ASSUME NEW c \in Clients, UserAction(c) PROVE Informed(d)' /\ Witnessed(d)'
    BY <2>1, UserInformed
  <2>2. ASSUME NEW c \in Clients, NEW k \in Starts,
               StartOnlineSync(c, k) \/ SystemAction(c, k) \/ FailPull(c, k) \/ FailPatch(c, k)
        PROVE  Informed(d)' /\ Witnessed(d)'
    BY <2>2, WritersInformed, StartInformed, PatchInformed, ListenersInformed DEF SystemAction
  <2>3. CASE UNCHANGED vars
    <3>1. UNCHANGED <<db, written, listener, feed, seen, own, StrokesMap, StrokesMapOverride, session>>
      BY <2>3 DEF vars, databaseVars, clientVars, listenVars
    <3> QED
      BY <3>1, ClientKept DEF ViewInv
  <2> QED
    BY <2>1, <2>2, <2>3 DEF Next
<1> QED
  BY <1>1, <1>2, <1>3 DEF ViewInv

\* At rest, what a client shows is told from what it has received.
LEMMA QuietUpToDate ==
    ASSUME ViewInv, Quiet, NEW c \in Clients, IsOnline(c)
    PROVE  UpToDate(c) /\ \A k \in Starts : snapshot[c][k] = NoEntry
<1>1. session[c] # "crashed" /\ \E k \in Starts : Live(c, k)
  BY DEF IsOnline, Live
<1>2. ~WillHear(c)
  BY <1>1 DEF Quiet, WillHear, Hears
<1>3. UpToDate(c)
  BY <1>1, <1>2 DEF ViewInv, Informed
<1>4. \A k \in Starts : writer[c][k] \notin {"copied", "asking", "sending"}
  BY <1>1 DEF Quiet
<1> QED
  BY <1>3, <1>4 DEF ViewInv, ApartInv, AccountInv, SnapshotsInUse

\* Once everything is delivered a client never shows somebody else's outdated stroke, an
\* own outdated one or one that somebody else deleted: whatever the clients, their clocks,
\* the interleaving of their threads and however often StartOnlineSync is called.
THEOREM ViewsAreNeverStale == Spec => []QuietViews
<1>1. ViewInv => QuietViews
  <2> SUFFICES ASSUME ViewInv, Quiet, NEW c \in Clients, NEW s \in Strokes, IsOnline(c),
                      StrokesToUpdate[c][s] = None, own[c][s] \notin lost[s]
               PROVE  \/ Shown(View(c)[s]) = Shown(db[s])
                      \/ own[c][s] # None /\ Shown(View(c)[s]) = Shown(own[c][s])
    BY DEF QuietViews
  <2>1. UpToDate(c) /\ \A k \in Starts : snapshot[c][k][s] = None
    BY QuietUpToDate DEF NoEntry
  <2>2. own[c][s] # None => own[c][s] \in written[s]
    BY <2>1 DEF ViewInv, ApartInv, AccountInv, EditsAccounted
  <2>3. StrokesMap[c][s] = db[s] \/ (own[c][s] # None /\ StrokesMap[c][s] = own[c][s])
    BY <2>1, <2>2 DEF UpToDate, Unapplied
  <2> QED
    BY <2>1, <2>3, ViewOfMap DEF ViewInv, UpToDate
<1> QED
  BY <1>1, InitViews, StepViews, PTL DEF Spec

-----------------------------------------------------------------------------
(***************************************************************************)
(* SoleEditorConverges, when StartOnlineSync is called once: another       *)
(* writer could still hold an older edit of the only editor.               *)
(***************************************************************************)

\* c alone edited s.
Alone(c, s) == \A d \in Clients : own[d][s] # None <=> d = c

\* With one writer: once the latest edit of the only editor was applied, no older one is
\* under way.
Settled(c, s) ==
    Alone(c, s) /\ own[c][s] \in written[s] =>
        /\ db[s] = own[c][s]
        /\ \A k \in Starts : snapshot[c][k][s] \in {None, own[c][s]}

SettledInv == ViewInv /\ \A c \in Clients : \A s \in Strokes : Settled(c, s)

LEMMA InitSettled == Init => SettledInv
<1> SUFFICES ASSUME Init PROVE SettledInv
  OBVIOUS
<1>1. ViewInv
  BY InitViews
<1>2. \A c \in Clients : \A s \in Strokes : own[c][s] = None
  BY DEF Init, NoEntry
<1> QED
  BY <1>1, <1>2 DEF SettledInv, Settled, Alone

\* An edit that is made was not applied.
LEMMA EditSettled ==
    ASSUME SettledInv, NEW d \in Clients, NEW touched \in SUBSET Strokes, NEW gone \in BOOLEAN,
           Edits(d, touched, gone), NEW c \in Clients, NEW s \in Strokes
    PROVE  Settled(c, s)'
<1>0. TypeOK /\ Settled(c, s) /\ \A f \in written[s] : f.at <= clock[f.by]
  BY DEF SettledInv, ViewInv, ApartInv, AccountInv
<1>1. UNCHANGED <<db, written>>
  BY EditKeeps
<1>2. ASSUME s \in touched PROVE own'[d][s] # None /\ own'[d][s] \notin written[s]
  <2>1. PICK e \in Edit : e = own'[d][s] /\ e.by = d /\ e.at = clock[d] + 1
    BY <1>0, <1>2, EditMade
  <2>2. clock[d] \in Nat
    BY <1>0 DEF TypeOK
  <2>3. e \notin written[s]
    BY <1>0, <2>1, <2>2
  <2> QED
    BY <2>1, <2>3, SentinelAssumption
<1>3. CASE c = d /\ s \in touched
  BY <1>1, <1>2, <1>3 DEF Settled
<1>4. CASE c # d /\ s \in touched
  BY <1>2, <1>4 DEF Settled, Alone
<1>5. CASE s \notin touched
  <2>1. /\ \A e \in Clients : own'[e][s] = own[e][s]
        /\ \A k \in Starts : snapshot'[c][k][s] = snapshot[c][k][s]
    BY <1>0, <1>5, EditElsewhere
  <2> QED
    BY <1>0, <1>1, <2>1 DEF Settled, Alone
<1> QED
  BY <1>3, <1>4, <1>5

\* The only writer of the only editor sends nothing older.
LEMMA PatchSettled ==
    ASSUME SettledInv, MaxStarts = 1, NEW d \in Clients, NEW k \in Starts, ApplyPatch(d, k),
           NEW c \in Clients, NEW s \in Strokes
    PROVE  Settled(c, s)'
<1>0. TypeOK /\ Settled(c, s) /\ OwnOnly(d, s) /\ Starts = {k}
  BY DEF SettledInv, ViewInv, ApartInv, AccountInv, Starts
<1>1. /\ own' = own
      /\ db'[s] = IF snapshot[d][k][s] # None THEN snapshot[d][k][s] ELSE db[s]
      /\ written'[s] = written[s] \cup ({snapshot[d][k][s]} \ {None})
  BY DEF ApplyPatch
<1>2. /\ snapshot'[d][k][s] = None
      /\ c # d => snapshot'[c] = snapshot[c]
  BY <1>0 DEF ApplyPatch, TypeOK, NoEntry
<1>3. CASE c = d
  BY <1>0, <1>1, <1>2, <1>3 DEF Settled, Alone
<1>4. CASE c # d
  <2>1. Alone(c, s)' => Alone(c, s) /\ snapshot[d][k][s] = None
    BY <1>0, <1>1, <1>4 DEF Alone, OwnOnly
  <2> QED
    BY <1>0, <1>1, <1>2, <1>4, <2>1 DEF Settled
<1> QED
  BY <1>3, <1>4

LEMMA StepSettled ==
    ASSUME SettledInv, MaxStarts = 1, [Next]_vars
    PROVE  \A c \in Clients : \A s \in Strokes : Settled(c, s)'
<1> SUFFICES ASSUME NEW c \in Clients, NEW s \in Strokes PROVE Settled(c, s)'
  OBVIOUS
<1>0. TypeOK /\ SnapshotsInUse /\ Settled(c, s) /\ OwnOnly(c, s)
  BY DEF SettledInv, ViewInv, ApartInv, AccountInv
<1>1. ASSUME NEW d \in Clients, NEW touched \in SUBSET Strokes, NEW gone \in BOOLEAN,
             Edits(d, touched, gone)
      PROVE  Settled(c, s)'
  BY <1>1, EditSettled
<1>2. ASSUME NEW d \in Clients, NEW k \in Starts, ApplyPatch(d, k) PROVE Settled(c, s)'
  BY <1>2, PatchSettled
<1>3. ASSUME NEW d \in Clients, NEW k \in Starts, CopyUpdates(d, k) PROVE Settled(c, s)'
  <2>1. /\ UNCHANGED <<db, written, own>>
        /\ \A j \in Starts : snapshot'[c][j] \in {snapshot[c][j], StrokesToUpdate[c]}
    BY <1>0, <1>3, CopyEffect
  <2> QED
    BY <1>0, <2>1 DEF Settled, Alone, OwnOnly
<1>4. ASSUME Forgets, UNCHANGED <<db, written, own>> PROVE Settled(c, s)'
  <2>1. \A k \in Starts : snapshot'[c][k][s] \in {None, snapshot[c][k][s]}
    BY <1>4 DEF Forgets
  <2> QED
    BY <1>0, <1>4, <2>1 DEF Settled, Alone
<1> QED
  BY <1>0, <1>1, <1>2, <1>3, <1>4, StepKinds, OwnKinds

\* At rest, all clients show the latest edit of the only editor of a stroke.
LEMMA SettledConverges ==
    ASSUME SettledInv
    PROVE  SoleEditorConverges
<1> SUFFICES ASSUME Quiet, NEW c \in Clients, NEW s \in Strokes, Editors(s) = {c}, lost[s] = {},
                    StrokesToUpdate[c][s] = None, NEW d \in Clients, IsOnline(d)
             PROVE  Shown(View(d)[s]) = Shown(own[c][s])
  BY DEF SoleEditorConverges
<1>0. /\ ViewInv /\ SnapshotsInUse /\ EditsAccounted /\ Settled(c, s) /\ OwnOnly(d, s)
  BY DEF SettledInv, ViewInv, ApartInv, AccountInv
<1>1. Alone(c, s) /\ own[c][s] # None
  BY DEF Alone, Editors
<1>2. \A k \in Starts : snapshot[c][k][s] = None
  BY <1>0 DEF Quiet, SnapshotsInUse, NoEntry
<1>3. own[c][s] \in written[s]
  BY <1>0, <1>1, <1>2 DEF EditsAccounted
<1>4. db[s] = own[c][s]
  BY <1>0, <1>1, <1>3 DEF Settled
<1>5. UpToDate(d)
  BY <1>0, QuietUpToDate
<1>6. d # c => own[d][s] = None
  BY <1>1 DEF Alone
<1>7. StrokesMap[d][s] = own[c][s]
  BY <1>3, <1>4, <1>5, <1>6 DEF UpToDate, Unapplied
<1> QED
  BY <1>0, <1>5, <1>6, <1>7, ViewOfMap DEF UpToDate

\* With one StartOnlineSync, for any clients, clocks and interleaving: when one client
\* alone edits a stroke and none of its edits of it got lost, all clients end up showing
\* its latest.
THEOREM TheOnlyEditorIsFollowed ==
    ASSUME MaxStarts = 1
    PROVE  Spec => []SoleEditorConverges
<1>1. SettledInv /\ [Next]_vars => SettledInv'
  BY StepViews, StepSettled DEF SettledInv
<1>2. SettledInv => SoleEditorConverges
  BY SettledConverges
<1> QED
  BY <1>1, <1>2, InitSettled, PTL DEF Spec

-----------------------------------------------------------------------------
(***************************************************************************)
(* The refinement: a copy is Take, Clear is DropQueue, SerializePatch is   *)
(* Fix, ApplyPatch is Apply, FailPatch is DropRequest, the end of a        *)
(* process is End, and an edit is Make.  All other steps stutter.          *)
(***************************************************************************)

LEMMA QueueKept ==
    ASSUME NEW d \in Clients, StrokesToUpdate'[d] = StrokesToUpdate[d],
           \A k \in Starts : /\ writer'[d][k] = "copied" <=> writer[d][k] = "copied"
                             /\ writer[d][k] = "copied" => snapshot'[d][k] = snapshot[d][k]
    PROVE  Queue(d)' = Queue(d)
BY DEF Queue

LEMMA QueueEmpty ==
    ASSUME NEW d \in Clients, StrokesToUpdate'[d] = NoEntry
    PROVE  Queue(d)' = NoEntry
BY DEF Queue, NoEntry

LEMMA OpenKept ==
    ASSUME NEW d \in Clients,
           \A k \in Starts : writer'[d][k] \in {"copied", "asking"} <=> writer[d][k] \in {"copied", "asking"}
    PROVE  OpenRequests(d)' = OpenRequests(d)
BY DEF OpenRequests

\* Steps that leave the edits and the requests.
LEMMA Stutters ==
    ASSUME UNCHANGED <<db, clock, snapshot, StrokesToUpdate>>,
           \A d \in Clients : \A k \in Starts :
               \/ writer'[d][k] = writer[d][k]
               \/ writer'[d][k] \notin {"copied", "asking"} /\ writer[d][k] \notin {"copied", "asking"}
    PROVE  UNCHANGED Log!vars
<1>1. \A d \in Clients : Queue(d)' = Queue(d) /\ OpenRequests(d)' = OpenRequests(d)
  BY QueueKept, OpenKept
<1> QED
  BY <1>1 DEF Log!vars

\* One writer moves, and its snapshot may be emptied: the other requests stay.
LEMMA MoveKeeps ==
    ASSUME TypeOK, NEW c \in Clients, NEW k \in Starts, NEW v,
           UNCHANGED StrokesToUpdate, writer' = [writer EXCEPT ![c][k] = v],
           writer[c][k] # "copied", v # "copied",
           snapshot' = snapshot \/ snapshot' = [snapshot EXCEPT ![c][k] = NoEntry]
    PROVE  \A d \in Clients :
              /\ Queue(d)' = Queue(d)
              /\ d # c => OpenRequests(d)' = OpenRequests(d)
              /\ v # "asking" => OpenRequests(c)' = OpenRequests(c) \ {k}
<1>1. \A d \in Clients, j \in Starts : ~(d = c /\ j = k) =>
         writer'[d][j] = writer[d][j] /\ snapshot'[d][j] = snapshot[d][j]
  BY DEF TypeOK
<1>2. writer'[c][k] = v
  BY DEF TypeOK
<1>3. ASSUME NEW d \in Clients PROVE Queue(d)' = Queue(d)
  BY <1>1, <1>2, QueueKept
<1>4. ASSUME NEW d \in Clients, d # c PROVE OpenRequests(d)' = OpenRequests(d)
  BY <1>1, <1>4, OpenKept
<1>5. v # "asking" => OpenRequests(c)' = OpenRequests(c) \ {k}
  BY <1>1, <1>2 DEF OpenRequests
<1> QED
  BY <1>3, <1>4, <1>5

LEMMA CopyRefines ==
    ASSUME ApartInv, NEW c \in Clients, NEW k \in Starts, CopyUpdates(c, k)
    PROVE  Log!Take(c, k)
<1>0. TypeOK /\ SnapshotsInUse
  BY DEF ApartInv, AccountInv
<1>1. /\ UNCHANGED <<db, clock, StrokesToUpdate>> /\ writer[c][k] = "looping"
      /\ snapshot' = [snapshot EXCEPT ![c][k] = StrokesToUpdate[c]]
      /\ writer' = [writer EXCEPT ![c][k] = "copied"]
      /\ \A j \in Starts : writer[c][j] # "copied"
  BY DEF CopyUpdates, databaseVars, clientVars
<1>2. /\ \A d \in Clients, j \in Starts : ~(d = c /\ j = k) =>
            writer'[d][j] = writer[d][j] /\ snapshot'[d][j] = snapshot[d][j]
      /\ writer'[c][k] = "copied" /\ snapshot'[c][k] = StrokesToUpdate[c]
  BY <1>0, <1>1 DEF TypeOK
<1>3. snapshot[c][k] = Log!Nothing
  BY <1>0, <1>1 DEF SnapshotsInUse, Log!Nothing, NoEntry
\* Nothing else is copied: all that is to send waits.
<1>4. Queue(c) = StrokesToUpdate[c]
  <2>1. StrokesToUpdate[c] \in Map
    BY <1>0 DEF TypeOK
  <2> QED
    BY <1>1, <2>1 DEF Queue
<1>5. Queue(c)' = Log!Nothing
  BY <1>1, <1>2 DEF Queue, Log!Nothing
<1>6. OpenRequests(c)' = OpenRequests(c) \cup {k}
  BY <1>2 DEF OpenRequests
<1>7. \A d \in Clients \ {c} : Queue(d)' = Queue(d) /\ OpenRequests(d)' = OpenRequests(d)
  BY <1>1, <1>2, QueueKept, OpenKept
<1> QED
  BY <1>1, <1>3, <1>4, <1>5, <1>6, <1>7 DEF Log!Take

LEMMA ClearRefines ==
    ASSUME ApartInv, NEW c \in Clients, NEW k \in Starts, ClearUpdates(c, k)
    PROVE  Log!DropQueue(c)
<1>0. TypeOK
  BY DEF ApartInv, AccountInv
<1>1. /\ UNCHANGED <<db, clock, snapshot>> /\ writer[c][k] = "copied"
      /\ StrokesToUpdate' = [StrokesToUpdate EXCEPT ![c] = NoEntry]
      /\ writer' = [writer EXCEPT ![c][k] = "asking"]
  BY DEF ClearUpdates, databaseVars, bodyVars
<1>2. /\ \A d \in Clients, j \in Starts : ~(d = c /\ j = k) => writer'[d][j] = writer[d][j]
      /\ writer'[c][k] = "asking" /\ StrokesToUpdate'[c] = NoEntry
      /\ \A d \in Clients \ {c} : StrokesToUpdate'[d] = StrokesToUpdate[d]
  BY <1>0, <1>1 DEF TypeOK
<1>3. Queue(c)' = Log!Nothing
  BY <1>2, QueueEmpty DEF Log!Nothing, NoEntry
<1>4. \A d \in Clients \ {c} : Queue(d)' = Queue(d)
  BY <1>1, <1>2, QueueKept
<1>5. \A d \in Clients : OpenRequests(d)' = OpenRequests(d)
  BY <1>1, <1>2, OpenKept
<1> QED
  BY <1>1, <1>3, <1>4, <1>5 DEF Log!DropQueue

LEMMA SerializeRefines ==
    ASSUME ApartInv, NEW c \in Clients, NEW k \in Starts, SerializePatch(c, k)
    PROVE  Log!Fix(c, k)
<1>0. TypeOK
  BY DEF ApartInv, AccountInv
<1>1. /\ UNCHANGED <<db, clock, StrokesToUpdate, snapshot>> /\ writer[c][k] = "asking"
      /\ writer' = [writer EXCEPT ![c][k] = "sending"]
  BY DEF SerializePatch, databaseVars, clientVars
<1>2. \A d \in Clients :
         /\ Queue(d)' = Queue(d)
         /\ d # c => OpenRequests(d)' = OpenRequests(d)
         /\ OpenRequests(c)' = OpenRequests(c) \ {k}
  <2>1. PICK v \in {"sending"} : writer' = [writer EXCEPT ![c][k] = v]
    BY <1>1
  <2> QED
    BY <1>0, <1>1, <2>1, MoveKeeps
<1> QED
  BY <1>1, <1>2 DEF Log!Fix

\* The two ends of a request.
LEMMA AnswerRefines ==
    ASSUME ApartInv, NEW c \in Clients, NEW k \in Starts
    PROVE  /\ ApplyPatch(c, k) => Log!Apply(c, k)
           /\ FailPatch(c, k) => Log!DropRequest(c, k)
<1>0. TypeOK
  BY DEF ApartInv, AccountInv
<1>1. ASSUME ApplyPatch(c, k) \/ FailPatch(c, k)
      PROVE  /\ UNCHANGED <<clock, StrokesToUpdate>>
             /\ snapshot' = [snapshot EXCEPT ![c][k] = Log!Nothing]
             /\ \A d \in Clients :
                   /\ Queue(d)' = Queue(d)
                   /\ d # c => OpenRequests(d)' = OpenRequests(d)
                   /\ OpenRequests(c)' = OpenRequests(c) \ {k}
  <2>1. /\ UNCHANGED <<clock, StrokesToUpdate>> /\ writer[c][k] \in {"asking", "sending"}
        /\ snapshot' = [snapshot EXCEPT ![c][k] = NoEntry]
    BY <1>1 DEF ApplyPatch, FailPatch, clientVars
  <2>2. PICK v \in {"looping", "dead"} : writer' = [writer EXCEPT ![c][k] = v]
    BY <1>1 DEF ApplyPatch, FailPatch, TopOfLoop
  <2>3. \A d \in Clients :
           /\ Queue(d)' = Queue(d)
           /\ d # c => OpenRequests(d)' = OpenRequests(d)
           /\ OpenRequests(c)' = OpenRequests(c) \ {k}
    BY <1>0, <2>1, <2>2, MoveKeeps
  <2> QED
    BY <2>1, <2>3 DEF Log!Nothing, NoEntry
<1>2. ASSUME ApplyPatch(c, k) PROVE Log!Apply(c, k)
  <2>1. /\ k \notin OpenRequests(c)
        /\ db' = [s \in Strokes |-> IF snapshot[c][k][s] # None THEN snapshot[c][k][s] ELSE db[s]]
    BY <1>2 DEF ApplyPatch, OpenRequests
  <2>2. OpenRequests(c) \ {k} = OpenRequests(c)
    BY <2>1
  <2> QED
    BY <1>1, <1>2, <2>1, <2>2 DEF Log!Apply
<1>3. ASSUME FailPatch(c, k) PROVE Log!DropRequest(c, k)
  <2>1. UNCHANGED db
    BY <1>3 DEF FailPatch, databaseVars
  <2> QED
    BY <1>1, <1>3, <2>1 DEF Log!DropRequest
<1> QED
  BY <1>2, <1>3

\* The writers that die with the process either hold nothing or had not fixed their body.
LEMMA CrashRefines ==
    ASSUME ApartInv, NEW c \in Clients, Crash(c), UNCHANGED <<db, clock>>
    PROVE  Log!End(c)
<1>0. TypeOK /\ SnapshotsInUse /\ snapshot' \in [Clients -> [Starts -> Map]]
  BY CrashType DEF ApartInv, AccountInv
<1>1. \A d \in Clients \ {c} :
         /\ writer'[d] = writer[d] /\ snapshot'[d] = snapshot[d]
         /\ StrokesToUpdate'[d] = StrokesToUpdate[d]
  BY <1>0 DEF Crash, TypeOK
<1>2. ASSUME NEW k \in Starts
      PROVE  /\ writer'[c][k] \notin {"copied", "asking"}
             /\ snapshot'[c][k] = IF k \in OpenRequests(c) THEN Log!Nothing ELSE snapshot[c][k]
  <2>1. /\ writer'[c][k] = IF writer[c][k] \notin {"none", "sending"} THEN "dead" ELSE writer[c][k]
        /\ snapshot'[c][k] = IF writer[c][k] \notin {"none", "sending"} THEN NoEntry
                             ELSE snapshot[c][k]
    BY <1>0 DEF Crash, TypeOK
  <2>2. writer[c][k] \notin {"copied", "asking", "sending"} => snapshot[c][k] = NoEntry
    BY <1>0 DEF SnapshotsInUse
  <2>3. NoEntry = Log!Nothing
    BY DEF NoEntry, Log!Nothing
  <2> QED
    BY <2>1, <2>2, <2>3 DEF OpenRequests
<1>3. StrokesToUpdate'[c] = NoEntry
  BY <1>0 DEF Crash, TypeOK
<1>4. Queue(c)' = Log!Nothing /\ OpenRequests(c)' = {}
  BY <1>2, <1>3, QueueEmpty DEF OpenRequests, NoEntry, Log!Nothing
<1>5. \A d \in Clients \ {c} : Queue(d)' = Queue(d) /\ OpenRequests(d)' = OpenRequests(d)
  BY <1>1, QueueKept, OpenKept
<1>6. snapshot' = [snapshot EXCEPT ![c] = [k \in Starts |->
                     IF k \in OpenRequests(c) THEN Log!Nothing ELSE snapshot[c][k]]]
  BY <1>0, <1>1, <1>2 DEF TypeOK
<1> QED
  BY <1>4, <1>5, <1>6 DEF Log!End

LEMMA EditRefines ==
    ASSUME ApartInv, NEW c \in Clients, NEW touched \in SUBSET Strokes, NEW gone \in BOOLEAN,
           Edits(c, touched, gone), TypeOK'
    PROVE  Log!Make(c, touched, gone)
<1> DEFINE e == [by |-> c, at |-> clock[c] + 1, gone |-> gone]
           stamped == [k \in Starts |-> {s \in touched : snapshot'[c][k][s] = e}]
           queued == {s \in touched : ~\E k \in Starts : writer[c][k] = "copied" /\ s \in stamped[k]}
<1>0. TypeOK /\ SnapshotsInUse
  BY DEF ApartInv, AccountInv
<1>1. /\ clock' = [clock EXCEPT ![c] = clock[c] + 1]
      /\ StrokesToUpdate' = [StrokesToUpdate EXCEPT ![c] =
            [s \in Strokes |-> IF s \in touched THEN e ELSE StrokesToUpdate[c][s]]]
      /\ own' = [own EXCEPT ![c] = [s \in Strokes |-> IF s \in touched THEN e ELSE own[c][s]]]
  BY DEF Edits, UpdateStroke
<1>same. UNCHANGED <<db, writer>>
  BY EditKeeps
<1>2. e.at = clock[c] + 1 /\ clock[c] \in Nat
  BY <1>0 DEF TypeOK
<1>3. stamped \in [Starts -> SUBSET touched] /\ queued \in SUBSET touched
  OBVIOUS
<1>4. \A k \in Starts : \A s \in touched : s \in stamped[k] <=> snapshot'[c][k][s] = e
  OBVIOUS
<1>5. \A s \in touched : s \in queued <=> ~\E k \in Starts : writer[c][k] = "copied" /\ s \in stamped[k]
  OBVIOUS
<1> HIDE DEF e, stamped, queued
<1>6. /\ \A s \in touched : StrokesToUpdate'[c][s] = e /\ own'[c][s] = e /\ s \in Strokes
      /\ \A s \in Strokes \ touched : StrokesToUpdate'[c][s] = StrokesToUpdate[c][s]
      /\ \A d \in Clients \ {c} : StrokesToUpdate'[d] = StrokesToUpdate[d]
  BY <1>0, <1>1 DEF TypeOK
\* An edit gets into a snapshot only by a stroke that it shares.
<1>7. ASSUME NEW k \in Starts, NEW s \in stamped[k]
      PROVE  s \in shared[c][k] /\ ~gone
  <2>1. s \in touched /\ s \in Strokes /\ snapshot'[c][k][s] = e
    BY <1>3, <1>4
  <2>2. snapshot[c][k][s] # e
    <3>1. snapshot[c][k][s] = None \/ snapshot[c][k][s].at <= clock[c]
      BY <2>1 DEF ApartInv, Apart
    <3>2. e # None
      <4>1. own'[c][s] \in Edit
        BY <1>0, <2>1, EditMade
      <4> QED
        BY <1>6, <2>1, <4>1, SentinelAssumption
    <3>3. snapshot[c][k][s] # e \/ ~(e.at <= clock[c])
      BY <1>2
    <3> QED
      BY <3>1, <3>2, <3>3
  <2> QED
    BY <2>1, <2>2 DEF Edits
<1>8. ASSUME NEW k \in Starts, NEW s \in Strokes
      PROVE  snapshot'[c][k][s] = IF s \in stamped[k] THEN e ELSE snapshot[c][k][s]
  <2>1. \/ snapshot'[c][k][s] = snapshot[c][k][s]
        \/ s \in touched /\ snapshot'[c][k][s] = own'[c][s]
    BY DEF Edits
  <2>2. stamped[k] \subseteq touched
    BY <1>3
  <2> QED
    BY <1>4, <1>6, <2>1, <2>2
<1>9. \A d \in Clients \ {c} : snapshot'[d] = snapshot[d]
  BY DEF Edits
<1>10. snapshot' = [snapshot EXCEPT ![c] = [k \in Starts |->
                      [s \in Strokes |-> IF s \in stamped[k] THEN e ELSE snapshot[c][k][s]]]]
  <2>1. snapshot' \in [Clients -> [Starts -> Map]] /\ snapshot \in [Clients -> [Starts -> Map]]
    BY <1>0 DEF TypeOK
  <2>2. snapshot'[c] = [k \in Starts |->
                          [s \in Strokes |-> IF s \in stamped[k] THEN e ELSE snapshot[c][k][s]]]
    <3>1. ASSUME NEW k \in Starts
          PROVE  snapshot'[c][k] = [s \in Strokes |-> IF s \in stamped[k] THEN e ELSE snapshot[c][k][s]]
      <4>1. snapshot'[c][k] \in Map
        BY <2>1
      <4> QED
        BY <1>8, <4>1
    <3> QED
      BY <2>1, <3>1
  <2> QED
    BY <1>9, <2>1, <2>2
<1>11. \A k \in Starts : stamped[k] # {} => k \in OpenRequests(c) /\ ~gone
  <2>1. \A k \in Starts : shared[c][k] # {} => writer[c][k] \in {"copied", "asking"}
    BY <1>0 DEF SnapshotsInUse
  <2> QED
    BY <1>7, <2>1 DEF OpenRequests
<1>12. \A k \in Starts : \A s \in stamped[k] : snapshot[c][k][s] # None
  <2>1. \A k \in Starts : stamped[k] \subseteq Strokes
    BY <1>3
  <2> QED
    BY <1>7, <2>1 DEF ApartInv, Apart
<1>13. \A s \in touched \ queued : \E k \in Starts : s \in stamped[k]
  BY <1>5
<1>14. Queue(c)' = [s \in Strokes |->
                      IF s \in queued THEN e ELSE IF s \in touched THEN None ELSE Queue(c)[s]]
  <2>1. ASSUME NEW s \in Strokes
        PROVE  (IF \E k \in Starts : writer'[c][k] = "copied" /\ snapshot'[c][k][s] = StrokesToUpdate'[c][s]
                THEN None ELSE StrokesToUpdate'[c][s])
               = IF s \in queued THEN e ELSE IF s \in touched THEN None ELSE Queue(c)[s]
    <3>1. CASE s \in touched
      <4>1. writer'[c] = writer[c] /\ StrokesToUpdate'[c][s] = e
        BY <1>same, <1>6, <3>1
      <4>2. s \in queued <=> ~\E k \in Starts : writer[c][k] = "copied" /\ snapshot'[c][k][s] = e
        BY <1>4, <1>5, <3>1
      <4> QED
        BY <3>1, <4>1, <4>2
    <3>2. CASE s \notin touched
      <4>1. s \notin queued /\ \A k \in Starts : s \notin stamped[k]
        BY <1>3, <3>2
      <4>2. \A k \in Starts : snapshot'[c][k][s] = snapshot[c][k][s]
        BY <1>8, <4>1
      <4> QED
        BY <1>same, <1>6, <3>2, <4>1, <4>2 DEF Queue
    <3> QED
      BY <3>1, <3>2
  <2> QED
    BY <2>1 DEF Queue
<1>15. \A d \in Clients \ {c} : Queue(d)' = Queue(d)
  BY <1>same, <1>6, <1>9, QueueKept
<1>16. \A d \in Clients : OpenRequests(d)' = OpenRequests(d)
  BY <1>same, OpenKept
<1>17. [d \in Clients |-> Queue(d)]' =
          [[d \in Clients |-> Queue(d)] EXCEPT ![c] =
             [s \in Strokes |->
                IF s \in queued THEN e
                ELSE IF s \in touched THEN None ELSE [d \in Clients |-> Queue(d)][c][s]]]
  BY <1>14, <1>15
<1>18. [d \in Clients |-> OpenRequests(d)]' = [d \in Clients |-> OpenRequests(d)]
  BY <1>16
<1>19. /\ \A k \in Starts : stamped[k] # {} => k \in [d \in Clients |-> OpenRequests(d)][c] /\ ~gone
       /\ clock' = [clock EXCEPT ![c] = clock[c] + 1]
  BY <1>1, <1>11
<1> QED
  BY <1>same, <1>3, <1>10, <1>12, <1>13, <1>17, <1>18, <1>19 DEF Log!Make, e

LEMMA StepRefines == ApartInv /\ [Next]_vars => [Log!Next]_(Log!vars)
<1> SUFFICES ASSUME ApartInv, [Next]_vars PROVE Log!Next \/ UNCHANGED Log!vars
  OBVIOUS
<1>0. TypeOK /\ SnapshotsInUse /\ TypeOK'
  BY StepType DEF ApartInv, AccountInv
<1> USE DEF databaseVars, clientVars, startVars, writerVars, bodyVars, tokenVars, listenVars
<1>1. ASSUME NEW c \in Clients, NEW touched \in SUBSET Strokes, NEW gone \in BOOLEAN,
             Edits(c, touched, gone)
      PROVE  Log!Next
  BY <1>0, <1>1, EditRefines DEF Log!Next
<1>2. ASSUME NEW c \in Clients, Crash(c), UNCHANGED <<db, clock>> PROVE Log!Next
  BY <1>2, CrashRefines DEF Log!Next
<1>3. ASSUME NEW c \in Clients, UserAction(c) PROVE Log!Next \/ UNCHANGED Log!vars
  <2>1. CASE CrashOnNullMap(c)
    BY <1>2, <2>1 DEF CrashOnNullMap
  <2>2. CASE StopSync(c)
    BY <2>2, Stutters DEF StopSync
  <2> QED
    BY <1>0, <1>1, <1>3, <2>1, <2>2, UserKinds
<1>4. ASSUME NEW c \in Clients, NEW k \in Starts,
             \/ CopyUpdates(c, k) \/ ClearUpdates(c, k) \/ SerializePatch(c, k)
             \/ ApplyPatch(c, k) \/ FailPatch(c, k)
      PROVE  Log!Next
  BY <1>4, CopyRefines, ClearRefines, SerializeRefines, AnswerRefines DEF Log!Next
<1>5. ASSUME NEW c \in Clients, NEW k \in Starts, FailPull(c, k) PROVE Log!Next
  BY <1>2, <1>5 DEF FailPull
<1>6. ASSUME NEW c \in Clients, NEW k \in Starts,
             ContinueStart(c, k) \/ StartWriter(c, k) \/ EndWriter(c, k)
      PROVE  Log!Next \/ UNCHANGED Log!vars
  <2>1. UNCHANGED <<db, clock>> /\ writer[c][k] \notin {"copied", "asking"}
    BY <1>0, <1>6 DEF ContinueStart, StartWriter, EndWriter, SnapshotsInUse
  <2>2. CASE Crash(c)
    BY <1>2, <2>1, <2>2
  <2>3. CASE ~Crash(c)
    <3>1. /\ UNCHANGED <<snapshot, StrokesToUpdate>>
          /\ \E v \in {"queued", "looping", "dead"} : writer' = [writer EXCEPT ![c][k] = v]
      BY <1>6, <2>3 DEF ContinueStart, StartWriter, EndWriter, TopOfLoop
    <3>2. ASSUME NEW d \in Clients, NEW j \in Starts
          PROVE  \/ writer'[d][j] = writer[d][j]
                 \/ /\ writer'[d][j] \notin {"copied", "asking"}
                    /\ writer[d][j] \notin {"copied", "asking"}
      <4>1. CASE d = c /\ j = k
        BY <1>0, <2>1, <3>1, <4>1 DEF TypeOK
      <4>2. CASE ~(d = c /\ j = k)
        BY <1>0, <3>1, <4>2 DEF TypeOK
      <4> QED
        BY <4>1, <4>2
    <3> QED
      BY <2>1, <3>1, <3>2, Stutters
  <2> QED
    BY <2>2, <2>3
<1>7. ASSUME NEW c \in Clients, NEW k \in Starts,
             \/ StartOnlineSync(c, k) \/ Connect(c, k) \/ ReceiveStrokes(c, k)
             \/ CheckOverrides(c, k) \/ PurgeOverrides(c, k) \/ RefreshCanvas(c, k)
             \/ EndListener(c, k)
      PROVE  UNCHANGED Log!vars
  <2>1. UNCHANGED <<db, clock, snapshot, StrokesToUpdate, writer>>
    BY <1>7 DEF StartOnlineSync, Connect, ReceiveStrokes, CheckOverrides, PurgeOverrides,
                RefreshCanvas, EndListener
  <2> QED
    BY <2>1, Stutters
<1>8. CASE UNCHANGED vars
  BY <1>8, Stutters DEF vars
<1> QED
  BY <1>3, <1>4, <1>5, <1>6, <1>7, <1>8 DEF Next, SystemAction

LEMMA InitRefines == Init => ApartInv /\ Log!Init
<1> SUFFICES ASSUME Init PROVE ApartInv /\ Log!Init
  OBVIOUS
<1>1. ApartInv
  BY InitApart
<1>2. db \in Log!Map
  BY <1>1 DEF ApartInv, AccountInv, TypeOK, Edit, Log!Edit, Log!Map
<1>3. ASSUME NEW c \in Clients PROVE Queue(c) = Log!Nothing /\ OpenRequests(c) = {}
  BY DEF Init, Queue, OpenRequests, NoEntry, Log!Nothing
<1>4. /\ clock = [c \in Clients |-> 0]
      /\ snapshot = [c \in Clients |-> [k \in Starts |-> Log!Nothing]]
  BY DEF Init, NoEntry, Log!Nothing
<1> QED
  BY <1>1, <1>2, <1>3, <1>4 DEF Log!Init

\* SyncedStrokes implements StrokeLog: every edit waits, goes with one request and with
\* those whose open body it was made on, each applied at most once, or is dropped for
\* good, however many writers there are.
THEOREM EditsGoOncePerRequest == Spec => AppliedOncePerRequest
<1>1. Init => ApartInv /\ Log!Init
  BY InitRefines
<1>2. ApartInv /\ [Next]_vars => ApartInv'
  BY ApartStep
<1>3. ApartInv /\ [Next]_vars => [Log!Next]_(Log!vars)
  BY StepRefines
<1> QED
  BY <1>1, <1>2, <1>3, PTL DEF Spec, AppliedOncePerRequest, Log!Spec
=============================================================================
