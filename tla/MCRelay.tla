------------------------------ MODULE MCRelay ------------------------------
(* Small instances of Relay: names for the constants of the .cfg files.     *)
EXTENDS Relay, TLC

CONSTANTS r1, r2, r3, r4, i1, i2, anon, s2, matter, chat

TwoRequests == {r1, r2}
ThreeRequests == {r1, r2, r3}
FourRequests == {r1, r2, r3, r4}
BothIps == {i1, i2}
BothSessions == {anon, s2}
AllScenarios == {matter, chat}
Allowed == {matter}
SomeLengths == {0, 1, 5}

(* One request at a time: the behaviours of Spec in which no request comes  *)
(* while another is served.                                                 *)
SerialSpec == Init /\ [][Next /\ ~overlap']_vars

(* Four requests one at a time, or three of which some overlap; they come   *)
(* in the order of their names, the first from i1 and anon, which are names *)
(* like any other; so is the fourth while it may not come.                  *)
Order == <<r1, r2, r3, r4>>
InOrder == \A m, n \in DOMAIN Order : m < n /\ pc[Order[m]] = "idle" => pc[Order[n]] = "idle"
FewRace == overlap => pc[r4] = "idle" /\ ip[r4] = i1 /\ session[r4] = anon
FewRaceSpec == (Init /\ ip[r1] = i1 /\ session[r1] = anon) /\ [][Next /\ InOrder' /\ FewRace']_vars

ClientSymmetry == Permutations(Requests) \cup Permutations(Ips) \cup Permutations(Sessions)
=============================================================================
