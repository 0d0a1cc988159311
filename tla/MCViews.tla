------------------------------ MODULE MCViews ------------------------------
(***************************************************************************)
(* What the components of a React program see (LiveViews).                 *)
(***************************************************************************)
EXTENDS LiveViews

NotLeft == [writes |-> 0, reloads |-> 0, faults |-> 0, mounts |-> 0]

\* One component with two writes, a forced reload or a failed read, and two
\* components with one write.
Lefts == {[NotLeft EXCEPT !.writes = 2, !.mounts = 1], [NotLeft EXCEPT !.writes = 1, !.mounts = 2],
          [NotLeft EXCEPT !.writes = 1, !.mounts = 1, !.reloads = 1],
          [NotLeft EXCEPT !.writes = 1, !.mounts = 1, !.faults = 1]}

Init == ViewsInit(Lefts)

Spec == Init /\ [][ViewsNext]_viewVars /\ ViewsFairness
============================================================================
