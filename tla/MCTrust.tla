------------------------------ MODULE MCTrust ------------------------------
(***************************************************************************)
(* The parts that decide who is let in (Trust), and the Python and Swift   *)
(* clients of one folder (PortClients).  An initial state gives work to    *)
(* some of them: its agenda.                                               *)
(***************************************************************************)
EXTENDS Trust

CONSTANTS feature, python, swift, Python, Swift, Mutations, RowOf, Calls, MaxEpoch

VARIABLES folder, client, task, cargo, acked, gone, spare

portVars == <<folder, client, task, cargo, acked, gone, spare>>

Ports == INSTANCE PortClients WITH call <- task

\* What an adapter and its caller may name: nothing, a feature it supports, one
\* it supports and requires, and one it requires without supporting it.
Profiles == {[supported |-> {}, required |-> {}],
             [supported |-> {feature}, required |-> {}],
             [supported |-> {feature}, required |-> {feature}],
             [supported |-> {}, required |-> {feature}]}

Nobody == [s \in Participants |-> [supported |-> {}, required |-> {}]]

AllCustodies == {"storage", "passphrase", "seed", "passkey"}

Budget(inits, connects, faults, unlocks, clears, meshes) ==
    [inits |-> inits, connects |-> connects, faults |-> faults, unlocks |-> unlocks,
     clears |-> clears, meshes |-> meshes]

\* Reloads with declined prompts and a clearing; an unlock() that races init();
\* two connections while the remote mesh is replaced.
Budgets == {Budget(2, 1, 1, 0, 1, 0), Budget(3, 0, 1, 0, 0, 0), Budget(2, 0, 0, 1, 0, 0), Budget(2, 2, 0, 0, 0, 1)}

-----------------------------------------------------------------------------
NoWork == [connect |-> 0, put |-> 0, pull |-> 0, flush |-> 0, compact |-> 0, disconnect |-> 0, crash |-> 0,
            fault |-> 0, alone |-> FALSE, whole |-> TRUE]
Both(p, s) == [c \in Ports!Clients |-> IF c = python THEN p ELSE s]
Joins == [NoWork EXCEPT !.connect = 1]

Faulty(b) == [b EXCEPT !.fault = 1, !.whole = FALSE]

Spares == {
    Both([Joins EXCEPT !.compact = 1], [Joins EXCEPT !.put = 1, !.pull = 1]),
    Both(NoWork, [Joins EXCEPT !.put = 2]),
    Both([Joins EXCEPT !.compact = 3], [Joins EXCEPT !.pull = 1]),
    Both([Joins EXCEPT !.connect = 2, !.put = 1, !.compact = 1, !.crash = 1],
         [Joins EXCEPT !.put = 1, !.alone = TRUE]),
    Both([Joins EXCEPT !.put = 1, !.pull = 1], [Joins EXCEPT !.put = 1, !.compact = 1, !.alone = TRUE]),
    Both(Faulty([Joins EXCEPT !.put = 1, !.compact = 1]), Joins),
    Both([Joins EXCEPT !.compact = 1], Faulty([Joins EXCEPT !.put = 1, !.pull = 1])),
    Both(Faulty([Joins EXCEPT !.put = 1, !.flush = 1, !.disconnect = 1]), NoWork),
    Both(NoWork, [Joins EXCEPT !.compact = 1, !.disconnect = 1]),
    Both(NoWork, Faulty([Joins EXCEPT !.connect = 2, !.put = 1, !.pull = 1, !.disconnect = 1])) }

MCRowOf == [m \in Mutations |-> m % 2]
-----------------------------------------------------------------------------
Init ==
    /\ agenda \in {{"ports"}, {"pairing"}, {"pairing", "custody"}, {"custody", "recovery"}, {"stores"}, {"grants"}}
    /\ HandshakeInit(Profiles)
    /\ "pairing" \notin agenda => patience /\ intent = "share" /\ profile = Nobody
    /\ "custody" \in agenda => patience /\ intent = "share" /\ profile = Nobody
    /\ CustodyInit(AllCustodies, Budgets \cup {Budget(0, 0, 0, 0, 0, 0), Budget(2, 0, 0, 0, 0, 0)})
    /\ remoteMesh = CHOOSE m \in MeshIds : TRUE
    /\ "custody" \notin agenda => budget.inits = 0 /\ custody = "storage"
    /\ agenda = {"pairing", "custody"} => custody = "storage" /\ budget = Budget(2, 0, 0, 0, 0, 0)
    /\ agenda = {"custody", "recovery"} => budget \in Budgets
    /\ StoresInit /\ GrantsInit
    /\ Ports!PortInit(IF agenda = {"ports"} THEN Spares ELSE {Both(NoWork, NoWork)})

PortStep == agenda = {"ports"} /\ Ports!PortNext /\ UNCHANGED trustVars

Next == (TrustNext /\ UNCHANGED portVars) \/ PortStep

Spec == Init /\ [][Next]_<<trustVars, portVars>> /\ HandshakeFairness

\* What the clients promise of the folder and of their stores: what a flush
\* acknowledged is kept, a write is queued until then, a halt has a cause.
PortInv == Ports!PortInv

\* A pull shows what the folder held when it began (PullShown of PortClients).
PullShows == [][Ports!PullShown]_portVars
=============================================================================
