---------------------------- MODULE OneTimeGrant ----------------------------
(* What a one-time credential promises, with nothing of how it is kept: a    *)
(* grant is issued once, redeemed at most once, and the one redemption and   *)
(* the one thing delivered for it happen together.                           *)
CONSTANTS Grants, Deliveries

VARIABLES
    state,      \* per grant: "none", "issued" or "redeemed"
    delivered   \* per grant: what it was exchanged for

vars == <<state, delivered>>

Init ==
    /\ state = [g \in Grants |-> "none"]
    /\ delivered = [g \in Grants |-> {}]

Issue(g) ==
    /\ state[g] = "none"
    /\ state' = [state EXCEPT ![g] = "issued"]
    /\ UNCHANGED delivered

Redeem(g, d) ==
    /\ state[g] = "issued"
    /\ \A h \in Grants : d \notin delivered[h]
    /\ state' = [state EXCEPT ![g] = "redeemed"]
    /\ delivered' = [delivered EXCEPT ![g] = {d}]

Next ==
    \E g \in Grants :
        \/ Issue(g)
        \/ \E d \in Deliveries : Redeem(g, d)

Spec == Init /\ [][Next]_vars

\* What is redeemed stays redeemed, for what it was redeemed for.
KeepsRedeemed ==
    \A g \in Grants :
        state[g] = "redeemed" => state'[g] = "redeemed" /\ delivered'[g] = delivered[g]

StaysRedeemed == [][KeepsRedeemed]_vars
=============================================================================
