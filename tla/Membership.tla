----------------------------- MODULE Membership -----------------------------
(***************************************************************************)
(* What m_Clients and the IDs of a DedicatedServer stand for: clients join *)
(* one at a time, each with an ID that nobody had before, and leave one at *)
(* a time and for good.                                                    *)
(***************************************************************************)
EXTENDS Naturals

VARIABLES
    members,    \* the IDs of the clients
    issued      \* how many IDs have been issued

Init == members = {} /\ issued = 0

Join ==
    /\ issued' = issued + 1
    /\ members' = members \cup {issued + 1}

Leave(id) ==
    /\ members' = members \ {id}
    /\ UNCHANGED issued

Next == Join \/ \E id \in members : Leave(id)

Spec == Init /\ [][Next]_<<members, issued>>
=============================================================================
