----------------------------- MODULE MCRegistry -----------------------------
(* Instances of Registry for TLC: two callers of one process, a dashboard  *)
(* say, and one of another.                                                *)
EXTENDS Registry, TLC

CONSTANTS w1, w2, cli, dashboard, navgator, a, b

Home == [c \in {w1, w2, cli} |-> IF c = cli THEN navgator ELSE dashboard]

Mutation(kind, paths) == [kind |-> kind, paths |-> paths]
AllOps == {Mutation("register", {a}), Mutation("update", {a}),
           Mutation("add", {a}), Mutation("remove", {a})}
Register == {Mutation("register", {a}), Mutation("register", {b})}
RegisterOne == {Mutation("register", {a})}
Interchangeable == Permutations({w1, w2})

(* What may still matter: not the mutation of a caller that has ended, not   *)
(* the registry there should be once a loss has an excuse, and not whether   *)
(* callers overlapped once the lock was breached.                            *)
Excused == trace.overlapped \/ trace.misled
View ==
    <<dataVars, lockVars, scans, pc,
      [c \in Caller |-> IF pc[c] \in Over THEN {} ELSE {op[c]}],
      Excused, IF Excused THEN {} ELSE {truth},
      trace.breached, trace.overlapped /\ ~trace.breached>>
=============================================================================
