--------------------------- MODULE MCSpawnTelemetry ---------------------------
(* Two processes; two events of one task run, of different roles, and a    *)
(* third of another run that carries the id of the first.                  *)
EXTENDS SpawnTelemetry

CONSTANTS x1, x2, r1, r2, coder, reviewer

Event(id, run, group, in, out) ==
    [id |-> id, run |-> run, group |-> group, tokens |-> [input |-> in, output |-> out]]

ThreeEvents == {Event(x1, r1, coder, 1, Unknown), Event(x2, r1, reviewer, 4, 2),
                Event(x1, r2, reviewer, 3, 0)}

=============================================================================
