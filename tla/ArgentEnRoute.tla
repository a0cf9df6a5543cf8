--------------------------- MODULE ArgentEnRoute ---------------------------
(***************************************************************************)
(* What moving cash between vaults promises, whatever the workflow of the  *)
(* document that orders it: the cash of a piece leaves its vault at most   *)
(* once and never more than the vault holds, and it arrives at most once   *)
(* and only after it left.  The amount that arrives is counted again, so   *)
(* it may differ from the one that left.                                   *)
(*                                                                         *)
(* CirculationCoffres, the transfers between vaults and the evacuations    *)
(* together, is shown to implement this module.                            *)
(***************************************************************************)
EXTENDS Integers

CONSTANTS
    Coffres,            \* the vaults
    Pieces,             \* the documents that order a movement of cash
    Source,             \* piece -> the vault its cash leaves
    Destination,        \* piece -> the vault it goes to, or a place outside
    Montants,           \* amounts that can be counted
    SoldeInitial        \* vault -> its balance at the start

VARIABLES
    solde,              \* vault -> its balance
    parti,              \* piece -> what left for it, 0 before
    arrive              \* piece -> what arrived for it, 0 before

varsRoute == <<solde, parti, arrive>>

Init ==
    /\ solde = SoldeInitial
    /\ parti = [p \in Pieces |-> 0]
    /\ arrive = [p \in Pieces |-> 0]

Depart(p, m) ==
    /\ parti[p] = 0
    /\ solde[Source[p]] >= m
    /\ solde' = [solde EXCEPT ![Source[p]] = @ - m]
    /\ parti' = [parti EXCEPT ![p] = m]
    /\ UNCHANGED arrive

Arrivee(p, m) ==
    /\ parti[p] > 0
    /\ arrive[p] = 0
    /\ solde' = IF Destination[p] \in Coffres
                THEN [solde EXCEPT ![Destination[p]] = @ + m]
                ELSE solde
    /\ arrive' = [arrive EXCEPT ![p] = m]
    /\ UNCHANGED parti

Next == \E p \in Pieces : \E m \in Montants : Depart(p, m) \/ Arrivee(p, m)

Spec == Init /\ [][Next]_varsRoute
=============================================================================
