------------------------------ MODULE RiskRouting ------------------------------
(***************************************************************************)
(* How a task's gear is routed (risk_routing.py): the requested gear, the  *)
(* High Risk triggers that fired, a human's elevation and a human's        *)
(* downgrade give the effective gear, or the request is refused.           *)
(***************************************************************************)
HighRisk == "High Risk"
RequestedGears == {"Small Change", "Build"}
Gears == RequestedGears \cup {HighRisk}

\* A downgrade says who authorized it, to which gear, and whether it carries a
\* rationale and an id.
NoDowngrade == [by |-> "nobody", target |-> HighRisk, reasoned |-> FALSE]
Downgrades == [by: {"human", "agent"}, target: Gears, reasoned: BOOLEAN] \cup {NoDowngrade}

Request(Triggers) == [gear: RequestedGears, triggers: SUBSET Triggers, elevated: BOOLEAN,
                      downgrade: Downgrades]

ValidDowngrade(d) == d.by = "human" /\ d.target \in RequestedGears /\ d.reasoned

\* route_risk accepts the request: a downgrade needs a trigger to reduce, a
\* human and a reason, and cannot undo a human's elevation.
MayRoute(r) ==
    r.downgrade # NoDowngrade => ~r.elevated /\ r.triggers # {} /\ ValidDowngrade(r.downgrade)

\* _resolve_gear of a request that is not refused.
EffectiveGear(r) ==
    IF r.downgrade # NoDowngrade THEN r.downgrade.target
    ELSE IF r.elevated \/ r.triggers # {} THEN HighRisk
    ELSE r.gear

=============================================================================
