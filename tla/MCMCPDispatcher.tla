---------------------------- MODULE MCMCPDispatcher ----------------------------
(* TLC instance of MCPDispatcher: one call of each tier and an unknown one; at  *)
(* most one request is for a call that asks for no consent.                     *)
EXTENDS MCPDispatcher

CONSTANTS read, write, wipe, absent

MCCalls == {read, write, wipe, absent}
MCTier == [c \in MCCalls |-> CASE c = read -> 1 [] c = write -> 2
                               [] c = wipe -> 3 [] OTHER -> 2]
Plain(r) == request[r].call \in {read, absent}
MCInit == Init /\ \A r, s \in Requests : Plain(r) /\ Plain(s) => r = s
MCSpec == MCInit /\ [][Next]_vars
Symmetry == Permutations(Requests)
===============================================================================
