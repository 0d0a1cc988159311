----------------------------- MODULE MCSession -----------------------------
(***************************************************************************)
(* Two kinds of instance: a session that comes and goes, and its upkeep.   *)
(***************************************************************************)
EXTENDS Upkeep

CONSTANT a1

NoBudget == [connects |-> 0, disconnects |-> 0, swaps |-> 0, messages |-> 0, faults |-> 0,
             polling |-> FALSE, writes |-> 0, compacts |-> 0, ages |-> 0]

Coming  == [NoBudget EXCEPT !.connects = 2, !.messages = 2, !.faults = 1, !.polling = TRUE]
Keeping == [NoBudget EXCEPT !.connects = 1, !.writes = 1]

Sessions == {[Coming EXCEPT !.disconnects = 1], [Coming EXCEPT !.swaps = 1]}

\* An engine that another one compacts for, with two writes and a fault.
Writers == {[Keeping EXCEPT !.writes = 2, !.faults = 1, !.disconnects = 1],
            [Keeping EXCEPT !.writes = 2, !.faults = 1, !.swaps = 1]}

\* The managed writer.
Managers == {[Keeping EXCEPT !.compacts = 1, !.ages = 1], [Keeping EXCEPT !.faults = 1, !.ages = 1],
             [Keeping EXCEPT !.compacts = 1, !.faults = 1], [Keeping EXCEPT !.disconnects = 1], [Keeping EXCEPT !.messages = 1]}

Init ==
    \/ SessionInit(a1, Sessions \cup Writers) /\ UpkeepInit({FALSE})
    \/ SessionInit(a1, Managers) /\ UpkeepInit({TRUE})

Spec == Init /\ [][EngineNext]_engineVars /\ EngineFairness

\* One write of the managed writer, and nothing goes wrong.
AutoInit == SessionInit(a1, {Keeping}) /\ UpkeepInit({TRUE})

AutoSpec == AutoInit /\ [][EngineNext]_engineVars /\ EngineFairness
============================================================================
