---------------------------- MODULE ExecutionPolicy ----------------------------
(***************************************************************************)
(* Which model, at which reasoning effort, a role works with               *)
(* (execution_policy.py): the profile its role, gear and kind of work ask  *)
(* for when it is available, else the fallback authorized for it when that *)
(* one is available and its effort is no lower, else none.                 *)
(***************************************************************************)
EXTENDS Integers, Sequences

Models == {"luna", "terra", "sol"}
Efforts == <<"low", "medium", "high", "xhigh", "max", "ultra">>
Profiles == Models \X {Efforts[i] : i \in DOMAIN Efforts}
NoProfile == <<"none", "none">>

EffortRank(effort) == CHOOSE i \in DOMAIN Efforts : Efforts[i] = effort

ModelFor == [simple |-> "luna", general |-> "terra", mechanical |-> "terra",
             complex |-> "sol", system_design |-> "sol"]

EffortFor(role, gear) ==
    CASE role = "software_engineer" -> IF gear = "Small Change" THEN "medium" ELSE "high"
      [] role = "architect"         -> "high"
      [] role = "verifier"          -> "low"
      [] role \in {"orchestrator", "code_reviewer", "security_reviewer"} -> "medium"

RequestedProfile(role, gear, work) == <<ModelFor[work], EffortFor(role, gear)>>

\* As Resolve, accepting an authorized fallback of any effort.
ResolveAnyEffort(role, gear, work, available, fallbacks) ==
    LET requested == RequestedProfile(role, gear, work)
    IN  IF requested \in available THEN requested
        ELSE IF requested \in DOMAIN fallbacks /\ fallbacks[requested] \in available
             THEN fallbacks[requested] ELSE NoProfile

\* resolve_execution_profile: the actual profile; fallbacks maps a requested
\* profile to the one authorized in its place.
Resolve(role, gear, work, available, fallbacks) ==
    LET requested == RequestedProfile(role, gear, work)
        authorized ==
            {f \in available :
                /\ requested \in DOMAIN fallbacks
                /\ f = fallbacks[requested]
                /\ EffortRank(f[2]) >= EffortRank(requested[2])}
    IN  IF requested \in available THEN requested
        ELSE IF authorized # {} THEN fallbacks[requested]
        ELSE NoProfile

=============================================================================
