----------------------------- MODULE MCSessionMap -----------------------------
(***************************************************************************)
(* The C server's session map for TLC: in a behaviour either the calls of  *)
(* HashMap, or the server's use of it in CTable.                           *)
(***************************************************************************)
EXTENDS MCHashMap, CTable

VARIABLE running

McVars == <<hashMapVars, tableVars, running>>

McInit == HashMapInit /\ TableInit /\ running \in {"calls", "server"}

McNext ==
    \/ running = "calls" /\ HashMapNext /\ UNCHANGED <<tableVars, running>>
    \/ running = "server" /\ TableNext /\ UNCHANGED <<hashMapVars, running>>

McSpec == McInit /\ [][McNext]_McVars /\ (running = "server" => TableFairness)
=============================================================================
