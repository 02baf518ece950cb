--------------------------- MODULE MCDrawingSession ---------------------------
(* Small instances of DrawingSession. *)
EXTENDS DrawingSession

CONSTANTS ann, bob, s1, s2

Public == <<TRUE, FALSE>>
Protected == <<TRUE, TRUE>>
Private == <<FALSE, FALSE>>

\* Per client: how often ann, the owner, and bob, if there is one.
Often(a, b) == [c \in Clients |-> IF c = ann THEN a ELSE b]

Scen(initial, opens, selects, resizes, backs, settings, configures, failures) ==
    [initial |-> initial,
     bounds |-> [opens |-> opens, selects |-> selects, resizes |-> resizes,
                 backs |-> backs, settings |-> settings, configures |-> configures,
                 failures |-> failures]]

\* The owner sends bob away while he selects or leaves.
Kicks ==
    {Scen(Public, Often(1, 1), Often(0, 1), Often(0, 0), Often(0, 1), {Public, Private}, 1, 0)}

\* Two users select; one user opens twice; the owner reconfigures, or sends bob away.
Sessions ==
    {Scen(Public, Often(1, 1), Often(2, 2), Often(0, 0), Often(1, 1), {}, 0, 0),
     Scen(Public, Often(2, 0), Often(2, 0), Often(1, 0), Often(2, 0), {}, 0, 2),
     Scen(Protected, Often(1, 1), Often(0, 0), Often(0, 0), Often(1, 1),
          {Public, Protected, Private}, 2, 0)}
        \cup Kicks

\* One user selects twice.
Twice == {Scen(Public, Often(1, 0), Often(2, 0), Often(0, 0), Often(1, 0), {}, 0, 0)}
=============================================================================
