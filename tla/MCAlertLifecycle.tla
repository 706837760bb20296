-------------------------- MODULE MCAlertLifecycle --------------------------
(* A small instance of AlertLifecycle for TLC: every rule once. *)
EXTENDS AlertLifecycle

CONSTANTS e1, e2, s1, s2

MCRules      == {"A2", "A4", "A7", "W1", "PERF"}
MCEvaluators == {e1, e2}
MCSources    == {s1, s2}

\* A7's worlds are many, so its evaluations do not overlap.
MCEvaluating == [r \in MCRules |-> IF r = "A7" THEN {e1} ELSE MCEvaluators]

\* thresholds.py: only A4's notice has to last, only A2 owes quiet evaluations.
MCDebounce ==
  [r \in MCRules |-> [s \in Severities |-> IF r = "A4" /\ s = "notice" THEN 1 ELSE 0]]
MCResolveRounds == [r \in MCRules |-> IF r = "A2" THEN 2 ELSE 0]

\* Two changes, for a later evaluation of PERF or for A2 firing at another
\* severity before its quiet evaluations are served; A2 then does without ticks.
MCMaxTime   == [r \in MCRules |-> IF r = "A2" THEN 2 ELSE 3]
MCMaxChange == [r \in MCRules |-> IF r \in {"A2", "PERF"} THEN 2 ELSE 1]
=============================================================================
