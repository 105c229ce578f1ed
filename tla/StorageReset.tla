---------------------------- MODULE StorageReset ----------------------------
(***************************************************************************)
(* What a storage reset promises the operator, on Docker and on Kubernetes *)
(* (README, "0.1.17 -> 0.1.18 (storage reset)"), in terms of what survives *)
(* the runs only: the reset is recorded before anything is moved; the      *)
(* pre-reset table is moved aside, never dropped in place, and only with   *)
(* its operator's consent; what was moved aside is dropped only once the   *)
(* new table is in its place; and the record goes last.  Runs, their       *)
(* decisions and the order of their questions are left to DockerReset and  *)
(* KubeReset, which implement it.                                          *)
(*                                                                         *)
(* Once a hand the CLI cannot hold off has changed the table or the record *)
(* (interfered), what is moved may be another table than the one that was  *)
(* looked at, and the record may be missing; what is dropped is still only *)
(* what was agreed to.                                                     *)
(***************************************************************************)

CONSTANT AsideName   \* the names events_pre_reset_<unix time>

VARIABLES
    table,      \* the schema of events.events, "missing" without one
    aside,      \* per name: the table a reset moved there
    lost,       \* the tables that were dropped
    recorded,   \* whether an unfinished reset is recorded
    interfered  \* a hand the CLI does not hold off changed one of them

vars == <<table, aside, lost, recorded, interfered>>

Schema == {"string", "json"}
Live == Schema \cup {"missing", "other"}
NoTable == [gen |-> "none", agreed |-> FALSE]

Init ==
    /\ table \in Live
    /\ aside = [n \in AsideName |-> NoTable]
    /\ lost = {}
    /\ recorded = FALSE
    /\ interfered = FALSE

\* The pre-reset tables that wait for the new one.
SetAside == {n \in AsideName : aside[n].gen = "string"}

Record ==
    /\ recorded' = TRUE
    /\ UNCHANGED <<table, aside, lost, interfered>>

MoveAside(n) ==
    /\ aside[n] = NoTable /\ table # "missing"
    /\ interfered \/ (recorded /\ table = "string")
    /\ \E agreed \in BOOLEAN :
          /\ table = "string" => agreed
          /\ aside' = [aside EXCEPT ![n] = [gen |-> table, agreed |-> agreed]]
    /\ table' = "missing"
    /\ UNCHANGED <<lost, recorded, interfered>>

\* By a reset, or by the init container or Job of whichever bundle or chart.
Create ==
    /\ table = "missing"
    /\ table' \in Schema
    /\ UNCHANGED <<aside, lost, recorded, interfered>>

Discard(gone) ==
    /\ \A n \in gone : aside[n].agreed
    /\ interfered \/ (recorded /\ table = "json")
    /\ aside' = [n \in AsideName |-> IF n \in gone THEN NoTable ELSE aside[n]]
    /\ lost' = lost \cup {aside[n] : n \in gone}
    /\ UNCHANGED <<table, recorded, interfered>>

Forget ==
    /\ interfered \/ SetAside = {} \/ table = "json"
    /\ recorded' = FALSE
    /\ UNCHANGED <<table, aside, lost, interfered>>

Interfere ==
    /\ interfered' = TRUE
    /\ table' \in Live
    /\ recorded' \in BOOLEAN
    /\ UNCHANGED <<aside, lost>>

Next ==
    \/ \E n \in AsideName : MoveAside(n)
    \/ \E gone \in SUBSET SetAside : Discard(gone)
    \/ Record \/ Create \/ Forget \/ Interfere

Spec == Init /\ [][Next]_vars

=============================================================================
