------------------------------- MODULE OneRun -------------------------------
(***************************************************************************)
(* What the CLI promises its operator (README, "One run at a time"): of    *)
(* the `origamy upgrade`, `deploy` and `uninstall` runs started on one     *)
(* Docker project, at most one works on it at any moment.  A run ends its  *)
(* work by finishing, by being refused by one of its own checks, or by     *)
(* being killed; the specification does not tell these apart.              *)
(***************************************************************************)

CONSTANT Run       \* the processes that may ever be started on the project

VARIABLE working   \* the runs that are working on the project now

Init == working = {}

Begin(r) == working = {} /\ working' = {r}

End(r) == working = {r} /\ working' = {}

Next == \E r \in Run : Begin(r) \/ End(r)

Spec == Init /\ [][Next]_working

=============================================================================
