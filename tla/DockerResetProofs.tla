-------------------------- MODULE DockerResetProofs --------------------------
(***************************************************************************)
(* Proofs about DockerReset.                                               *)
(*                                                                         *)
(* What a reset may destroy needs no assumption about the plane: whoever   *)
(* changes the events table meanwhile, a table reaches `lost` only through *)
(* `aside`, and `aside` only from a run whose operator agreed (Consent).   *)
(* That an unfinished reset stays recorded, and that a success is one,     *)
(* holds until somebody else than the plane's own containers and the runs  *)
(* has changed the table (meddled): the record has to be there from before *)
(* the table goes (Records) until the new one is seen in its place         *)
(* (Checked).                                                              *)
(***************************************************************************)
EXTENDS DockerReset, TLAPS

-----------------------------------------------------------------------------
(***************************************************************************)
(* The inductive invariants.                                               *)
(***************************************************************************)

InReset == {"schema", "server", "probe", "move", "apply", "verify", "settle"}

Decided == Step \ {"idle", "ask", "plan", "confirm"}

\* A run is in the reset's steps only when it decided to reset, and the
\* operator agreed exactly when it found a pre-reset table.
Consented ==
    /\ pc \in InReset \cup {"record"} => Resets(me)
    /\ pc \in Decided => (me.agreed <=> Resets(me) /\ me.found = "string")
    /\ pc = "move" => me.found = "string"

AsideAgreed == \A n \in AsideName : aside[n].gen = "string" => aside[n].agreed

Consent == TypeOK /\ Consented /\ AsideAgreed /\ DropsOnlyAgreed

\* Some table was moved aside and not dropped yet.
SetAside == \E n \in AsideName : aside[n].gen = "string"

\* What a run knows of the record and of the table, until it acts on it.
Knows ==
    /\ pc = "ask" => me.found = "none" /\ (me.was <=> pending)
    /\ pc # "idle" => (me.was => me.strict /\ pending /\ Gen(me.target) = "json")
    /\ pc # "idle" => (pending => Resets(me))
    /\ pc \notin {"idle", "ask"} /\ Resets(me) => me.strict
    /\ pc = "pull" => me.cmd = "upgrade"

\* The record is there from before anything of the reset is done.
Records ==
    /\ pc \in InReset => pending
    /\ pc = "swap" /\ me.cmd = "upgrade" /\ Creates(me) => pending
    /\ pc \in {"plan", "confirm", "pull", "record", "swap"}
         /\ me.cmd = "upgrade" /\ ~me.was /\ me.found \in {"string", "missing"}
         => ~SetAside

\* What the last check saw is still so when the record is cleared.
Checked ==
    /\ pc = "clear" /\ me.strict => events = Gen(me.target) /\ running = Gen(me.target)
    /\ pc \in {"up", "restart", "check", "clear"} => envTag = me.target
    /\ pc \in InReset \cup {"record"} /\ me.cmd = "deploy" => envTag = me.target

Recorded == ~meddled => Knows /\ Records /\ Checked /\ HalfDoneIsRecorded

\* The run has not moved a pre-reset table yet, or never will.
NotMoved ==
    \/ pc \in {"plan", "confirm", "pull", "record", "swap", "schema", "server", "probe", "move"}
    \/ pc = "commit" /\ (me.cmd = "deploy" \/ ~Resets(me))
    \/ pc = "up" /\ ~Resets(me)

\* The run has seen the new table in place of the pre-reset one.
Replaced ==
    \/ pc = "settle"
    \/ Resets(me) /\ (pc = "up" \/ (pc = "commit" /\ me.cmd = "upgrade"))

\* What the run was told about the table, and did not refuse, is still so.
Sees ==
    /\ pc # "idle" /\ ~me.strict => Gen(envTag) = Gen(me.target)
    /\ pc \notin {"idle", "ask"} =>
          /\ me.found = "none" => ~me.strict
          /\ me.found # "none" => ~Refused(me, me.found)
          /\ me.found = "json" => events = "json"
    /\ me.found = "string" /\ NotMoved => events = "string"
    /\ Replaced => events = "json"

Fitting == ~meddled => Sees

-----------------------------------------------------------------------------
(***************************************************************************)
(* Types.                                                                  *)
(***************************************************************************)

\* A release a run moves to writes one of the two schemas (Gen).
LEMMA GenType == \A t \in {"old", "new", "edge"} : Gen(t) \in Schema
  BY DEF Gen, Schema

\* A new truth value in a run's decisions leaves them decisions.
LEMMA DecisionType ==
    ASSUME NEW m \in Decisions, NEW b \in BOOLEAN, NEW c \in BOOLEAN
    PROVE  /\ [m EXCEPT !.agreed = b] \in Decisions
           /\ \A f \in Live : [m EXCEPT !.found = f, !.strict = b] \in Decisions
           /\ \A r \in Schema \cup {"none"} :
                 /\ [m EXCEPT !.refresh = r] \in Decisions
                 /\ [m EXCEPT !.refresh = r, !.fetched = b] \in Decisions
           /\ \A k \in {"upgrade", "deploy"}, t \in {"old", "new", "edge"} :
                 [NoRun EXCEPT !.cmd = k, !.target = t, !.was = b, !.strict = c] \in Decisions
<1>1. [m EXCEPT !.agreed = b] \in Decisions
  BY DEF Decisions
<1>2. ASSUME NEW f \in Live
      PROVE  [m EXCEPT !.found = f, !.strict = b] \in Decisions
  BY DEF Decisions
<1>3. ASSUME NEW r \in Schema \cup {"none"}
      PROVE  /\ [m EXCEPT !.refresh = r] \in Decisions
             /\ [m EXCEPT !.refresh = r, !.fetched = b] \in Decisions
  BY <1>3 DEF Decisions
<1>4. ASSUME NEW k \in {"upgrade", "deploy"}, NEW t \in {"old", "new", "edge"}
      PROVE  [NoRun EXCEPT !.cmd = k, !.target = t, !.was = b, !.strict = c] \in Decisions
  BY DEF Decisions, NoRun
<1> QED
  BY <1>1, <1>2, <1>3, <1>4

\* What a run decides stays a record of decisions (TypeOK of me).
LEMMA DecisionStep ==
    ASSUME TypeOK, [Next]_vars
    PROVE  me' \in Decisions
<1> USE DEF TypeOK
<1>1. ASSUME NEW c \in Commands, NEW t \in Targets, Begin(c, t)
      PROVE  me' \in Decisions
  <2> DEFINE strict == pending \/ Gen(envTag) # Gen(t)
  <2>1. strict \in BOOLEAN
    OBVIOUS
  <2> HIDE DEF strict
  <2>2. me' = [NoRun EXCEPT !.cmd = c, !.target = t, !.was = pending, !.strict = strict]
    BY <1>1 DEF Begin, strict
  <2> QED
    BY <2>1, <2>2, DecisionType, ResetConstants
<1>2. CASE Ask
  <2> DEFINE strict == me.strict \/ events # Gen(me.target)
  <2>1. strict \in BOOLEAN
    OBVIOUS
  <2> HIDE DEF strict
  <2>2. me' = [me EXCEPT !.found = events, !.strict = strict]
    BY <1>2 DEF Ask, strict
  <2> QED
    BY <2>1, <2>2, DecisionType
<1>3. CASE PlanUpgrade
  <2>1. PICK refresh \in Served \cup {"none"} :
            me' = [me EXCEPT !.refresh = refresh,
                             !.fetched = Creates(me) /\ refresh = "none"]
    BY <1>3 DEF PlanUpgrade
  <2> DEFINE fetched == Creates(me) /\ refresh = "none"
  <2>2. fetched \in BOOLEAN
    OBVIOUS
  <2>3. me' = [me EXCEPT !.refresh = refresh, !.fetched = fetched]
    BY <2>1
  <2>4. refresh \in Schema \cup {"none"}
    BY ResetConstants DEF Schema
  <2> HIDE DEF fetched
  <2> QED
    BY <2>2, <2>3, <2>4, DecisionType
<1>4. CASE PlanDeploy
  <2>1. PICK refresh \in Served \cup {"none"} : me' = [me EXCEPT !.refresh = refresh]
    BY <1>4 DEF PlanDeploy, Set
  <2>2. refresh \in Schema \cup {"none"}
    BY ResetConstants DEF Schema
  <2> QED
    BY <2>1, <2>2, DecisionType
<1>5. CASE Confirm
  <2> DEFINE agreed == Resets(me) /\ me.found = "string"
  <2>1. agreed \in BOOLEAN
    OBVIOUS
  <2>2. me' = [me EXCEPT !.agreed = agreed]
    BY <1>5 DEF Confirm, Set
  <2> HIDE DEF agreed
  <2> QED
    BY <2>1, <2>2, DecisionType
<1>6. ASSUME End
      PROVE  me' \in Decisions
  BY <1>6 DEF End, NoRun, Decisions
<1>7. CASE SwapFails
  <2>1. End \/ Set("refresh", "none")
    BY <1>7 DEF SwapFails
  <2>2. ASSUME Set("refresh", "none")
        PROVE  me' \in Decisions
    <3>1. me' = [me EXCEPT !.refresh = "none"] /\ me \in Decisions
      BY <2>2 DEF Set
    <3> QED
      BY <3>1, DecisionType
  <2> QED
    BY <1>6, <2>1, <2>2
<1>8. CASE Restart
  BY <1>8 DEF Restart, Set, Decisions
<1>9. CASE SwapBroken \/ SchemaCut \/ Stop \/ CheckFails \/ Succeed \/ Refuse
  BY <1>6, <1>9 DEF SwapBroken, SchemaCut, Stop, CheckFails, Succeed, Refuse
<1>10. CASE InitJob \/ Meddle \/ AskUnanswered \/ Pull \/ Record \/ Swap \/ WriteSchema
  BY <1>10 DEF InitJob, Meddle, AskUnanswered, Pull, Record, Swap, WriteSchema
<1>11. CASE StartServer \/ Probe \/ Move \/ Apply \/ Verify \/ Settle \/ Commit \/ Up
            \/ CheckPasses \/ UNCHANGED vars
  BY <1>11 DEF StartServer, Probe, Move, Apply, Verify, Settle, Commit, Up, CheckPasses, vars
<1> QED
  BY <1>1, <1>2, <1>3, <1>4, <1>5, <1>7, <1>8, <1>9, <1>10, <1>11 DEF Next, Work

\* Every step keeps the types.
LEMMA TypeStep ==
    ASSUME TypeOK, [Next]_vars
    PROVE  TypeOK'
<1>0. me' \in Decisions
  BY DecisionStep
<1>a. CASE Meddle
  BY <1>0, <1>a DEF Meddle, Luck, TypeOK
<1>b. CASE UNCHANGED vars
  BY <1>b DEF vars, plane, TypeOK
<1> SUFFICES ASSUME Work \/ SwapBroken \/ SchemaCut \/ Stop \/ InitJob, meddled' = meddled
             PROVE  TypeOK'
  BY <1>a, <1>b DEF Next
<1> USE DEF TypeOK
<1>1. ASSUME NEW c \in Commands, NEW t \in Targets, Begin(c, t)
      PROVE  TypeOK'
  BY <1>0, <1>1 DEF Begin, Goto, plane, Step
<1>2. CASE Ask \/ AskUnanswered \/ PlanUpgrade \/ PlanDeploy
  BY <1>0, <1>2 DEF Ask, AskUnanswered, PlanUpgrade, PlanDeploy, Goto, plane, Step
<1>3. CASE Confirm \/ Pull \/ Record
  BY <1>0, <1>3 DEF Confirm, Pull, Record, Goto, plane, Step
<1>4. \A refresh \in Schema \cup {"none"} : Kept(refresh) \in Schema \cup {"cut"}
  BY DEF Kept, Schema
<1>5. CASE Swap \/ SwapBroken
  BY <1>0, <1>4, <1>5 DEF Swap, SwapBroken, Goto, End, Luck, AfterSwap, Step, Decisions
<1>6. CASE SwapFails
  <2>1. pending' \in BOOLEAN
    BY <1>6 DEF SwapFails
  <2>2. pc' \in Step
    BY <1>6 DEF SwapFails, Goto, End, AfterSwap, Step
  <2>3. mishaps' \in Nat
    BY <1>6 DEF SwapFails, Luck
  <2> QED
    BY <1>0, <1>6, <2>1, <2>2, <2>3 DEF SwapFails
<1>7. CASE WriteSchema \/ SchemaCut
  BY <1>0, <1>7 DEF WriteSchema, SchemaCut, Goto, End, Luck, Step, Schema
<1>8. CASE StartServer \/ Probe \/ Verify
  BY <1>0, <1>8 DEF StartServer, Probe, Verify, Goto, plane, Step
<1>9. CASE Move
  <2>1. [gen |-> events, agreed |-> me.agreed] \in Table
    BY <1>9 DEF Move, Table, Live, Decisions
  <2>2. aside' \in [AsideName -> Table]
    BY <1>9, <2>1 DEF Move
  <2>3. events' \in Live /\ pc' \in Step
    BY <1>9 DEF Move, Goto, Step, Live
  <2> QED
    BY <1>0, <1>9, <2>2, <2>3 DEF Move
<1>10. \A sql \in Schema \cup {"cut"} : Created(sql) \in Live
  BY DEF Created, Schema, Live
<1>11. CASE Apply \/ InitJob
  BY <1>0, <1>10, <1>11 DEF Apply, InitJob, Goto, Luck, Step, Live, Schema
<1>12. CASE Settle
  <2>1. PICK gone \in SUBSET Droppable :
            /\ Luck(gone = Droppable)
            /\ aside' = [n \in AsideName |-> IF n \in gone THEN NoTable ELSE aside[n]]
            /\ lost' = lost \cup {aside[n] : n \in gone}
    BY <1>12 DEF Settle
  <2>2. aside' \in [AsideName -> Table]
    BY <2>1 DEF NoTable, Table
  <2>3. lost' \subseteq Table
    BY <2>1 DEF Droppable
  <2>4. pc' \in Step /\ mishaps' \in Nat
    BY <1>12, <2>1 DEF Settle, AfterReset, Goto, Step, Luck
  <2> QED
    BY <1>0, <1>12, <2>2, <2>3, <2>4 DEF Settle
<1>13. CASE Commit \/ Up
  BY <1>0, <1>13, GenType DEF Commit, Up, Goto, Luck, Step, Decisions, Schema
<1>14. CASE Restart \/ CheckPasses
  BY <1>0, <1>14 DEF Restart, CheckPasses, Goto, Luck, plane, Step
<1>15. CASE CheckFails
  <2>1. pending' \in BOOLEAN
    BY <1>15 DEF CheckFails
  <2> QED
    BY <1>0, <1>15, <2>1 DEF CheckFails, End, Goto, Luck, Step
<1>16. CASE Succeed
  BY <1>0, <1>16 DEF Succeed, End, Goto, Step
<1>17. CASE Stop \/ Refuse
  BY <1>0, <1>17 DEF Stop, Refuse, End, Goto, Luck, plane, Step
<1> QED
  BY <1>1, <1>2, <1>3, <1>5, <1>6, <1>7, <1>8, <1>9, <1>11, <1>12, <1>13, <1>14,
     <1>15, <1>16, <1>17
     DEF Work

-----------------------------------------------------------------------------
(***************************************************************************)
(* Nothing is dropped without consent.                                     *)
(***************************************************************************)

\* Whether a run resets does not depend on what it decides later.
LEMMA ResetsStable ==
    ASSUME TypeOK, NEW b \in BOOLEAN
    PROVE  /\ Resets([me EXCEPT !.agreed = b]) = Resets(me)
           /\ Resets([me EXCEPT !.restarted = b]) = Resets(me)
           /\ Resets([me EXCEPT !.refresh = "none"]) = Resets(me)
  BY DEF Resets, TypeOK, Decisions

\* No run has asked, and none has a table to settle, when the first begins.
LEMMA ConsentInit == Init => Consent
<1> SUFFICES ASSUME Init
             PROVE  Consent
  OBVIOUS
<1>1. me \in Decisions /\ aside \in [AsideName -> Table]
  BY DEF Init, NoRun, Decisions, NoTable, Table, Live, Schema
<1>2. TypeOK
  BY <1>1, ResetConstants DEF Init, TypeOK, Live, Schema, Step
<1>3. Consented /\ AsideAgreed /\ DropsOnlyAgreed
  BY DEF Init, Consented, AsideAgreed, DropsOnlyAgreed, NoTable, Decided, InReset
<1> QED
  BY <1>2, <1>3 DEF Consent

\* Every step of upgradeDocker, applyDocker and whoever meddles keeps what the
\* operator agreed to and what is known of the tables to settle.
LEMMA ConsentStep ==
    ASSUME Consent, [Next]_vars
    PROVE  Consent'
<1> USE DEF Consent
<1>0. TypeOK'
  BY TypeStep
<1>1. ASSUME pc' \in {"idle", "ask", "plan", "confirm"}, UNCHANGED <<aside, lost>>
      PROVE  Consent'
  BY <1>0, <1>1 DEF Consented, AsideAgreed, DropsOnlyAgreed, Decided, InReset
<1>2. ASSUME NEW c \in Commands, NEW t \in Targets, Begin(c, t)
      PROVE  Consent'
  BY <1>1, <1>2 DEF Begin, Goto, plane
<1>3. CASE Ask \/ AskUnanswered \/ PlanUpgrade \/ PlanDeploy
  BY <1>1, <1>3 DEF Ask, AskUnanswered, PlanUpgrade, PlanDeploy, Goto, plane
<1>4. CASE SwapBroken \/ SchemaCut \/ Stop \/ CheckFails \/ Succeed \/ Refuse
  BY <1>1, <1>4 DEF SwapBroken, SchemaCut, Stop, CheckFails, Succeed, Refuse, Goto, End, plane
<1>5. ASSUME Consented', UNCHANGED <<aside, lost>>
      PROVE  Consent'
  BY <1>0, <1>5 DEF AsideAgreed, DropsOnlyAgreed
<1>6. CASE Confirm
  <2> DEFINE agreed == Resets(me) /\ me.found = "string"
  <2>1. agreed \in BOOLEAN
    OBVIOUS
  <2>2. me' = [me EXCEPT !.agreed = agreed] /\ pc' \in {"pull", "swap"}
    BY <1>6 DEF Confirm, Set, Goto
  <2>3. Resets(me') = Resets(me) /\ me'.found = me.found /\ me'.agreed = agreed
    <3> HIDE DEF agreed
    <3> QED
      BY <2>1, <2>2, ResetsStable DEF TypeOK, Decisions
  <2>4. Consented'
    BY <2>2, <2>3 DEF Consented, InReset
  <2> QED
    BY <1>5, <1>6, <2>4 DEF Confirm, plane
<1>7. CASE Pull \/ Record
  <2>1. Consented'
    BY <1>7 DEF Pull, Record, Goto, Consented, Creates, InReset, Decided, Step
  <2> QED
    BY <1>5, <1>7, <2>1 DEF Pull, Record, plane
<1>8. CASE Swap
  <2>1. Consented'
    BY <1>8 DEF Swap, Goto, AfterSwap, Consented, InReset, Decided, Step
  <2> QED
    BY <1>5, <1>8, <2>1 DEF Swap
<1>9. CASE SwapFails
  <2>1. CASE End
    BY <1>1, <1>9, <2>1 DEF SwapFails, End, Goto
  <2>2. CASE Set("refresh", "none") /\ Goto(AfterSwap(me))
    <3>1. /\ Resets(me') = Resets(me)
          /\ me'.found = me.found
          /\ me'.agreed = me.agreed
      BY <2>2, ResetsStable DEF Set, TypeOK, Decisions
    <3>2. Consented'
      BY <1>9, <2>2, <3>1 DEF SwapFails, Goto, AfterSwap, Consented, InReset, Decided, Step
    <3> QED
      BY <1>5, <1>9, <3>2 DEF SwapFails
  <2> QED
    BY <1>9, <2>1, <2>2 DEF SwapFails
<1>10. CASE WriteSchema \/ StartServer \/ Probe \/ Apply \/ Verify
  <2>1. Consented'
    BY <1>10 DEF WriteSchema, StartServer, Probe, Apply, Verify, ToMove, Goto, Consented,
                 InReset, Decided, Step
  <2> QED
    BY <1>5, <1>10, <2>1 DEF WriteSchema, StartServer, Probe, Apply, Verify, plane
<1>11. CASE Move
  <2>1. me.agreed /\ UNCHANGED <<me, lost>> /\ pc' = "apply"
    BY <1>11 DEF Move, Goto, Consented, InReset, Decided, Step
  <2>2. Consented'
    BY <1>11, <2>1 DEF Move, Consented, InReset, Decided, Step
  <2>3. AsideAgreed'
    BY <1>11, <2>1 DEF Move, AsideAgreed, TypeOK
  <2> QED
    BY <1>0, <2>1, <2>2, <2>3 DEF DropsOnlyAgreed
<1>12. CASE Settle
  <2>1. PICK gone \in SUBSET Droppable :
            /\ aside' = [n \in AsideName |-> IF n \in gone THEN NoTable ELSE aside[n]]
            /\ lost' = lost \cup {aside[n] : n \in gone}
    BY <1>12 DEF Settle
  <2>2. AsideAgreed'
    BY <2>1 DEF AsideAgreed, NoTable
  <2>3. DropsOnlyAgreed'
    BY <2>1 DEF DropsOnlyAgreed, AsideAgreed, Droppable
  <2>4. Consented'
    BY <1>12 DEF Settle, AfterReset, Goto, Consented, InReset, Decided, Step
  <2> QED
    BY <1>0, <2>2, <2>3, <2>4
<1>13. CASE Commit \/ Up \/ CheckPasses
  <2>1. Consented'
    BY <1>13 DEF Commit, Up, CheckPasses, Goto, Consented, InReset, Decided, Step
  <2> QED
    BY <1>5, <1>13, <2>1 DEF Commit, Up, CheckPasses, plane
<1>14. CASE Restart
  <2>1. PICK ok \in BOOLEAN : me' = [me EXCEPT !.restarted = ok]
    BY <1>14 DEF Restart, Set
  <2>2. Resets(me') = Resets(me) /\ me'.found = me.found /\ me'.agreed = me.agreed
    BY <2>1, ResetsStable DEF TypeOK, Decisions
  <2>3. Consented'
    BY <1>14, <2>2 DEF Restart, Goto, Consented, InReset, Decided, Step
  <2> QED
    BY <1>5, <1>14, <2>3 DEF Restart, plane
<1>15. CASE InitJob \/ Meddle \/ UNCHANGED vars
  <2>1. Consented'
    BY <1>15 DEF InitJob, Meddle, vars, Consented
  <2> QED
    BY <1>5, <1>15, <2>1 DEF InitJob, Meddle, vars, plane
<1> QED
  BY <1>2, <1>3, <1>4, <1>6, <1>7, <1>8, <1>9, <1>10, <1>11, <1>12, <1>13, <1>14, <1>15
     DEF Next, Work

\* The types, and consent before anything is dropped, hold of every execution.
THEOREM ConsentInvariance == Spec => []Consent
<1>1. Consent /\ [Next]_vars => Consent'
  BY ConsentStep
<1> QED
  BY <1>1, ConsentInit, PTL DEF Spec

\* Type correctness: every variable keeps its type (TypeOK).
THEOREM TypeCorrect == Spec => []TypeOK
<1>1. Consent => TypeOK
  BY DEF Consent
<1> QED
  BY <1>1, ConsentInvariance, PTL

\* A reset drops only pre-reset tables whose operator agreed to discard them,
\* whoever else changes the events table meanwhile (DropsOnlyAgreed).
THEOREM OnlyAgreedDropped == Spec => []DropsOnlyAgreed
<1>1. Consent => DropsOnlyAgreed
  BY DEF Consent
<1> QED
  BY <1>1, ConsentInvariance, PTL

-----------------------------------------------------------------------------
(***************************************************************************)
(* An unfinished reset stays recorded.                                     *)
(***************************************************************************)

\* The decisions that are taken before the run touches anything.
Settled(m, n) ==
    /\ n.cmd = m.cmd /\ n.target = m.target /\ n.was = m.was
    /\ n.found = m.found /\ n.strict = m.strict

\* Two decisions that agree on these reset alike.
LEMMA SettledResets ==
    ASSUME NEW m, NEW n, Settled(m, n)
    PROVE  Resets(n) = Resets(m) /\ Creates(n) = Creates(m)
  BY DEF Settled, Resets, Creates

\* Once it has asked ClickHouse, a run keeps to what it decided.
LEMMA KeepsDecisions ==
    ASSUME TypeOK, [Next]_vars, pc \notin {"idle", "ask"}, pc' # "idle"
    PROVE  Settled(me, me')
<1> USE DEF TypeOK, Decisions, Settled
<1>1. CASE PlanUpgrade \/ PlanDeploy \/ Confirm \/ Restart
  BY <1>1 DEF PlanUpgrade, PlanDeploy, Confirm, Restart, Set
<1>2. CASE SwapFails
  BY <1>2 DEF SwapFails, Set, End, Goto
<1>3. CASE UNCHANGED me
  BY <1>3
<1>4. CASE Pull \/ Record \/ Swap \/ WriteSchema \/ StartServer \/ Probe \/ Move \/ Apply
           \/ Verify \/ Settle \/ Commit \/ Up \/ CheckPasses \/ InitJob \/ Meddle
  BY <1>3, <1>4 DEF Pull, Record, Swap, WriteSchema, StartServer, Probe, Move, Apply, Verify,
                    Settle, Commit, Up, CheckPasses, InitJob, Meddle
<1>5. CASE SwapBroken \/ SchemaCut \/ Stop \/ CheckFails \/ Succeed \/ Refuse
  BY <1>5 DEF SwapBroken, SchemaCut, Stop, CheckFails, Succeed, Refuse, End, Goto
<1>6. CASE Ask \/ AskUnanswered \/ \E c \in Commands, t \in Targets : Begin(c, t)
  BY <1>6 DEF Ask, AskUnanswered, Begin
<1> QED
  BY <1>1, <1>2, <1>3, <1>4, <1>5, <1>6 DEF Next, Work, vars

\* No table is aside and no reset recorded when the first run begins.
LEMMA RecordedInit == Init => Recorded
  BY DEF Init, Recorded, Knows, Records, Checked, HalfDoneIsRecorded, SetAside, NoTable, InReset

\* Every step keeps it known what stands under the name of the events table, as
\* long as the runs are the only ones to change it.
LEMMA RecordedStep ==
    ASSUME Consent, Recorded, [Next]_vars
    PROVE  Recorded'
<1> SUFFICES ASSUME ~meddled'
             PROVE  (Knows /\ Records /\ Checked /\ HalfDoneIsRecorded)'
  BY DEF Recorded
<1>a. ~meddled
  BY DEF Next, Meddle, vars
<1>b. Knows /\ Records /\ Checked /\ HalfDoneIsRecorded
  BY <1>a DEF Recorded
<1> USE <1>a, <1>b
<1>0. TypeOK /\ TypeOK' /\ Consented /\ Consented'
  BY ConsentStep DEF Consent
<1>1. ASSUME pc' = "idle", HalfDoneIsRecorded'
      PROVE  (Knows /\ Records /\ Checked /\ HalfDoneIsRecorded)'
  BY <1>1 DEF Knows, Records, Checked, InReset
<1>2. ASSUME NEW c \in Commands, NEW t \in Targets, Begin(c, t)
      PROVE  (Knows /\ Records /\ Checked /\ HalfDoneIsRecorded)'
  <2>1. /\ me'.found = "none" /\ me'.was = pending /\ me'.target = t
        /\ pending => me'.strict
    BY <1>0, <1>2 DEF Begin, NoRun, TypeOK
  <2>2. Knows'
    BY <1>2, <2>1 DEF Begin, Goto, plane, Knows, Resets
  <2>3. Records' /\ Checked'
    BY <1>2 DEF Begin, Goto, Records, Checked, InReset
  <2> QED
    BY <1>2, <2>2, <2>3 DEF Begin, plane, HalfDoneIsRecorded
<1>3. CASE Ask
  <2>1. /\ me'.cmd = me.cmd /\ me'.target = me.target /\ me'.was = me.was
        /\ me'.found = events
        /\ me'.strict = (me.strict \/ events # Gen(me.target))
    BY <1>0, <1>3 DEF Ask, TypeOK, Decisions
  <2>2. Knows'
    BY <1>3, <2>1 DEF Ask, Goto, plane, Knows, Resets
  <2>3. Records'
    BY <1>3, <2>1 DEF Ask, Goto, plane, Knows, Records, HalfDoneIsRecorded, SetAside, InReset
  <2> QED
    BY <1>3, <2>2, <2>3 DEF Ask, Goto, plane, Checked, HalfDoneIsRecorded, InReset
<1>4. CASE AskUnanswered
  BY <1>4 DEF AskUnanswered, Goto, plane, Knows, Records, Checked, HalfDoneIsRecorded,
              Resets, InReset
<1>5. CASE PlanUpgrade \/ PlanDeploy
  <2>1. Settled(me, me') /\ UNCHANGED plane /\ pc = "plan" /\ pc' = "confirm"
    BY <1>0, <1>5, KeepsDecisions DEF PlanUpgrade, PlanDeploy, Goto
  <2> QED
    BY <2>1, SettledResets
       DEF Settled, plane, Knows, Records, Checked, HalfDoneIsRecorded, SetAside, InReset
<1>6. CASE Confirm
  <2>1. /\ Settled(me, me') /\ UNCHANGED plane /\ pc = "confirm"
        /\ me.cmd = "upgrade" => pc' = "pull"
        /\ me.cmd # "upgrade" => pc' = "swap"
    BY <1>0, <1>6, KeepsDecisions DEF Confirm, Goto
  <2> QED
    BY <2>1, SettledResets
       DEF Settled, plane, Knows, Records, Checked, HalfDoneIsRecorded, SetAside, InReset
<1>7. CASE Pull
  <2>1. /\ UNCHANGED <<plane, me>> /\ pc = "pull"
        /\ Creates(me) => pc' = "record"
        /\ ~Creates(me) => pc' = "swap"
    BY <1>7 DEF Pull, Goto
  <2> QED
    BY <1>0, <2>1
       DEF plane, Knows, Records, Checked, HalfDoneIsRecorded, SetAside, InReset, Consented
<1>8. CASE Record
  <2>1. /\ UNCHANGED <<me, aside, events, envTag, running>> /\ pc = "record" /\ pending'
        /\ pc' = IF me.cmd = "upgrade" THEN "swap" ELSE "server"
    BY <1>8 DEF Record, Goto
  <2>2. Resets(me) /\ me.cmd \in {"upgrade", "deploy"}
    BY <1>0, <2>1 DEF Consented, TypeOK, Decisions
  <2>3. Knows'
    BY <2>1, <2>2 DEF Knows
  <2> QED
    BY <2>1, <2>2, <2>3 DEF Records, Checked, HalfDoneIsRecorded, SetAside, InReset
<1>9. CASE Swap
  <2>1. /\ UNCHANGED <<me, aside, events, envTag, running, pending>> /\ pc = "swap"
        /\ me.cmd = "upgrade" /\ Resets(me) => pc' = "schema"
        /\ ~(me.cmd = "upgrade" /\ Resets(me)) => pc' = "commit"
        /\ me.cmd \in {"upgrade", "deploy"}
    BY <1>0, <1>9 DEF Swap, Goto, AfterSwap, TypeOK, Decisions
  <2>2. pc' = "schema" => pending
    BY <2>1 DEF Knows, Records, Creates, Resets
  <2> QED
    BY <2>1, <2>2 DEF Knows, Records, Checked, HalfDoneIsRecorded, SetAside, InReset
<1>10. CASE SwapFails
  <2>1. CASE me.cmd = "upgrade" /\ ~Creates(me)
    <3>1. /\ UNCHANGED <<aside, events, envTag, running, pending>> /\ pc = "swap"
          /\ pc' = AfterSwap(me)
      BY <1>10, <2>1 DEF SwapFails, Goto
    <3>2. /\ Resets(me) => pc' = "schema"
          /\ ~Resets(me) => pc' = "commit"
      BY <2>1, <3>1 DEF AfterSwap
    <3>3. Settled(me, me')
      BY <1>0, <3>1, <3>2, KeepsDecisions
    <3>4. pc' = "schema" => pending
      BY <2>1, <3>1, <3>2 DEF Knows, Creates, Resets
    <3>5. pc' \in {"schema", "commit"} /\ Resets(me') = Resets(me)
      BY <3>2, <3>3, SettledResets
    <3>6. Knows'
      BY <3>1, <3>3, <3>5 DEF Settled, Knows
    <3>7. Records' /\ Checked'
      BY <2>1, <3>1, <3>3, <3>4, <3>5 DEF Settled, Records, Checked, InReset
    <3> QED
      BY <3>1, <3>6, <3>7 DEF HalfDoneIsRecorded, SetAside
  <2>2. CASE ~(me.cmd = "upgrade" /\ ~Creates(me))
    <3>1. /\ UNCHANGED <<aside, events>> /\ pc = "swap" /\ pc' = "idle"
          /\ pending' \in {FALSE, pending}
          /\ ~(me.cmd = "upgrade" /\ ~me.was) => pending' = pending
      BY <1>10, <2>2 DEF SwapFails, End, Goto
    <3>2. me.cmd = "upgrade" /\ ~me.was => ~SetAside
      BY <2>2, <3>1 DEF Creates, Records
    <3> QED
      BY <1>1, <3>1, <3>2 DEF HalfDoneIsRecorded, SetAside
  <2> QED
    BY <2>1, <2>2
<1>11. CASE SwapBroken \/ SchemaCut \/ Stop \/ Refuse
  BY <1>1, <1>11 DEF SwapBroken, SchemaCut, Stop, Refuse, End, Goto, plane, HalfDoneIsRecorded
<1>12. CASE WriteSchema \/ StartServer \/ Verify \/ Probe
  <2>1. /\ UNCHANGED <<aside, events, envTag, running, pending, me>>
        /\ pc \in InReset /\ pc' \in InReset
    BY <1>12 DEF WriteSchema, StartServer, Verify, Probe, Goto, plane, InReset
  <2> QED
    BY <2>1 DEF Knows, Records, Checked, HalfDoneIsRecorded, SetAside, InReset
<1>13. CASE Move \/ Apply
  <2>1. /\ UNCHANGED <<envTag, running, pending, me>>
        /\ pc \in InReset /\ pc' \in InReset /\ pending
    BY <1>13 DEF Move, Apply, Goto, Records, InReset
  <2> QED
    BY <2>1 DEF Knows, Records, Checked, HalfDoneIsRecorded, InReset
<1>14. CASE Settle
  <2>1. /\ UNCHANGED <<events, envTag, running, pending, me>>
        /\ pc = "settle" /\ pc' = AfterReset(me)
    BY <1>14 DEF Settle, Goto
  <2>2. SetAside' => SetAside
    BY <1>14 DEF Settle, SetAside, NoTable
  <2>3. HalfDoneIsRecorded'
    BY <2>1, <2>2 DEF HalfDoneIsRecorded, SetAside
  <2>4. /\ me.cmd = "upgrade" => pc' = "commit"
        /\ me.cmd = "deploy" => pc' = "up"
        /\ me.cmd \in {"upgrade", "deploy"}
    BY <1>0, <2>1 DEF AfterReset, TypeOK, Decisions
  <2> QED
    BY <2>1, <2>3, <2>4 DEF Knows, Records, Checked, InReset
<1>15. CASE Commit
  <2>1. /\ UNCHANGED <<aside, events, running, pending, me>>
        /\ pc = "commit" /\ envTag' = me.target
        /\ pc' = IF me.cmd = "deploy" /\ Resets(me) THEN "record" ELSE "up"
    BY <1>15 DEF Commit, Goto
  <2> QED
    BY <2>1 DEF Knows, Records, Checked, HalfDoneIsRecorded, SetAside, InReset
<1>16. CASE Up \/ Restart \/ CheckPasses
  <2>1. /\ UNCHANGED <<aside, events, envTag, pending>>
        /\ pc \in {"up", "restart", "check"} /\ pc' \in {"restart", "check", "clear"}
    BY <1>16 DEF Up, Restart, CheckPasses, Goto, plane
  <2>2. Settled(me, me')
    BY <1>0, <2>1, KeepsDecisions
  <2>3. pc' = "clear" /\ me.strict => events = Gen(me.target) /\ running' = Gen(me.target)
    BY <1>16 DEF Up, Restart, CheckPasses, Goto, plane
  <2> QED
    BY <2>1, <2>2, <2>3, SettledResets
       DEF Settled, Knows, Records, Checked, HalfDoneIsRecorded, InReset
<1>17. CASE CheckFails
  BY <1>1, <1>17 DEF CheckFails, End, Goto, HalfDoneIsRecorded
<1>18. CASE Succeed
  <2>1. /\ UNCHANGED <<aside, events>> /\ pc = "clear" /\ pc' = "idle"
        /\ pending' # pending => Resets(me)
    BY <1>18 DEF Succeed, End, Goto
  <2>2. Resets(me) => events = "json"
    BY <2>1 DEF Knows, Checked, Resets
  <2> QED
    BY <1>1, <2>1, <2>2 DEF HalfDoneIsRecorded
<1>19. CASE InitJob
  <2>1. /\ UNCHANGED <<aside, envTag, running, pending, me, pc>>
        /\ events # "missing" => events' = events
    BY <1>19 DEF InitJob
  <2>2. pc = "clear" /\ me.strict => events # "missing"
    BY <1>0, GenType DEF Checked, TypeOK, Decisions, Schema
  <2> QED
    BY <2>1, <2>2 DEF Knows, Records, Checked, HalfDoneIsRecorded, SetAside
<1>20. ~Meddle
  BY DEF Meddle
<1>21. CASE UNCHANGED vars
  BY <1>21 DEF vars, plane, Knows, Records, Checked, HalfDoneIsRecorded, SetAside
<1> QED
  BY <1>2, <1>3, <1>4, <1>5, <1>6, <1>7, <1>8, <1>9, <1>10, <1>11, <1>12, <1>13, <1>14,
     <1>15, <1>16, <1>17, <1>18, <1>19, <1>20, <1>21
     DEF Next, Work

\* What is known of the record and the table holds of every execution, until
\* somebody else changes the table.
THEOREM RecordedInvariance == Spec => [](Consent /\ Recorded)
<1>1. Consent /\ Recorded /\ [Next]_vars => (Consent /\ Recorded)'
  BY ConsentStep, RecordedStep
<1> QED
  BY <1>1, ConsentInit, RecordedInit, PTL DEF Spec

\* A table moved aside is always replaced by the new one or its reset is
\* recorded, wherever a run ended (HalfDoneIsRecorded).
THEOREM NeverForgotten == Spec => []HalfDoneIsRecorded
<1>1. Recorded => HalfDoneIsRecorded
  BY DEF Recorded, HalfDoneIsRecorded
<1> QED
  BY <1>1, RecordedInvariance, PTL

\* A strict run that reports success leaves a plane whose table and images
\* are those of the release in .env, and no unfinished reset on record
\* (SuccessIsTrue).
THEOREM SuccessTrue == Spec => SuccessIsTrue
<1>1. ASSUME Consent, Recorded, [Next]_vars
      PROVE  [Succeed /\ me.strict /\ ~meddled =>
                 /\ events = Gen(envTag) /\ running = Gen(envTag)
                 /\ me.restarted => ~pending']_vars
  BY <1>1 DEF Succeed, Recorded, Knows, Checked
<1> QED
  BY <1>1, RecordedInvariance, PTL DEF Spec, SuccessIsTrue

-----------------------------------------------------------------------------
(***************************************************************************)
(* No release is named or started on a table that does not fit it.         *)
(***************************************************************************)

\* No run has looked at the table when the first one begins.
LEMMA FittingInit == Init => Fitting
  BY DEF Init, Fitting, Sees, NotMoved, Replaced, NoRun

\* Two decisions that agree on these refuse, and get as far, alike.
LEMMA SettledRefused ==
    ASSUME NEW m, NEW n, Settled(m, n), NEW held
    PROVE  Refused(n, held) = Refused(m, held)
  BY DEF Settled, Refused

\* Every step leaves what the run was told about the table true, as long as the
\* runs and the init containers are the only ones to change it.
LEMMA FittingStep ==
    ASSUME Consent, Recorded, Fitting, [Next]_vars
    PROVE  Fitting'
<1> SUFFICES ASSUME ~meddled'
             PROVE  Sees'
  BY DEF Fitting
<1>a. ~meddled
  BY DEF Next, Meddle, vars
<1>b. Knows /\ Sees
  BY <1>a DEF Recorded, Fitting
<1> USE <1>a, <1>b
<1>0. TypeOK /\ TypeOK' /\ Consented
  BY ConsentStep DEF Consent
<1>c. me.cmd \in {"upgrade", "deploy"}
  BY <1>0 DEF TypeOK, Decisions
<1>1. ASSUME pc' = "idle", me' = NoRun
      PROVE  Sees'
  BY <1>1 DEF Sees, NotMoved, Replaced, NoRun
<1>2. ASSUME NEW c \in Commands, NEW t \in Targets, Begin(c, t)
      PROVE  Sees'
  <2>1. /\ me'.found = "none" /\ me'.target = t /\ pc' = "ask" /\ envTag' = envTag
        /\ ~me'.strict => Gen(envTag) = Gen(t)
    BY <1>0, <1>2 DEF Begin, NoRun, TypeOK, Goto, plane
  <2> QED
    BY <2>1 DEF Sees, NotMoved, Replaced
<1>3. CASE Ask
  <2>1. /\ me'.cmd = me.cmd /\ me'.target = me.target /\ me'.was = me.was
        /\ me'.found = events
        /\ me'.strict = (me.strict \/ events # Gen(me.target))
        /\ UNCHANGED <<events, envTag>> /\ pc = "ask" /\ pc' = "plan"
        /\ ~Refused(me, events)
    BY <1>0, <1>3 DEF Ask, TypeOK, Decisions, Goto, plane
  <2>2. events # "none" /\ Refused(me', events) = Refused(me, events)
    BY <1>0, <2>1 DEF TypeOK, Live, Schema, Refused
  <2> QED
    BY <2>1, <2>2 DEF Sees, Replaced
<1>4. CASE AskUnanswered
  <2>1. /\ UNCHANGED <<me, events, envTag>> /\ pc = "ask" /\ pc' = "plan"
        /\ ~me.strict /\ me.found = "none"
    BY <1>4 DEF AskUnanswered, Goto, plane, Knows
  <2> QED
    BY <2>1 DEF Sees, Replaced
<1>5. ASSUME Settled(me, me'), pc \notin {"idle", "ask"}, pc' # "idle",
             me'.found = "json" => events' = "json",
             Gen(envTag') \in {Gen(envTag), Gen(me.target)},
             me'.found = "string" /\ NotMoved' => events' = "string",
             Replaced' => events' = "json"
      PROVE  Sees'
  BY <1>5, SettledRefused DEF Sees, Settled
<1>6. ASSUME Settled(me, me'), UNCHANGED <<events, envTag>>, pc \notin {"idle", "ask"},
             pc' # "idle", NotMoved' => NotMoved, Replaced' => Replaced
      PROVE  Sees'
  BY <1>5, <1>6 DEF Settled, Sees
<1>7. CASE PlanUpgrade \/ PlanDeploy \/ Confirm \/ Pull \/ Record \/ WriteSchema \/ StartServer
  <2>1. /\ UNCHANGED <<events, envTag>> /\ pc' # "idle" /\ pc \notin {"idle", "ask"}
        /\ NotMoved /\ ~Replaced'
    BY <1>7 DEF PlanUpgrade, PlanDeploy, Confirm, Pull, Record, WriteSchema, StartServer,
                Goto, plane, NotMoved, Replaced
  <2> QED
    BY <1>0, <1>6, <2>1, KeepsDecisions
<1>8. CASE Swap \/ SwapFails
  <2>1. CASE pc' = "idle"
    BY <1>1, <1>8, <2>1 DEF Swap, SwapFails, Goto, End, AfterSwap
  <2>2. CASE pc' # "idle"
    <3>1. /\ UNCHANGED <<events, envTag>> /\ pc = "swap" /\ pc' = AfterSwap(me)
      BY <1>8, <2>2 DEF Swap, SwapFails, Goto, End
    <3>2. Settled(me, me')
      BY <1>0, <2>2, <3>1, KeepsDecisions
    <3>3. NotMoved /\ ~Replaced'
      BY <3>1, <3>2, SettledResets DEF NotMoved, Replaced, AfterSwap, Settled
    <3> QED
      BY <1>6, <2>2, <3>1, <3>2, <3>3
  <2> QED
    BY <2>1, <2>2
<1>9. CASE Probe
  <2>1. /\ UNCHANGED <<me, events, envTag>> /\ pc = "probe" /\ pc' \in {"settle", "move", "apply"}
        /\ pc' = "settle" => events = "json"
    BY <1>9 DEF Probe, ToMove, ToApply, Goto, plane
  <2>2. NotMoved /\ (Replaced' => events = "json")
    BY <2>1 DEF NotMoved, Replaced
  <2> QED
    BY <1>5, <2>1, <2>2 DEF Settled, Sees
<1>10. CASE Move
  <2>1. UNCHANGED <<me, envTag>> /\ pc = "move" /\ pc' = "apply" /\ me.found = "string"
    BY <1>0, <1>10 DEF Move, Goto, Consented
  <2> QED
    BY <1>5, <2>1 DEF Settled, NotMoved, Replaced
<1>11. CASE Apply
  <2>1. /\ UNCHANGED <<me, envTag>> /\ pc = "apply" /\ pc' = "verify"
        /\ events # "missing" => events' = events
    BY <1>11 DEF Apply, Goto
  <2> QED
    BY <1>5, <2>1 DEF Settled, NotMoved, Replaced, Sees
<1>12. CASE Verify
  <2>1. UNCHANGED <<me, events, envTag>> /\ pc = "verify" /\ pc' = "settle" /\ events = "json"
    BY <1>12 DEF Verify, Goto, plane
  <2> QED
    BY <1>5, <2>1 DEF Settled, NotMoved, Sees
<1>13. CASE Settle
  <2>1. /\ UNCHANGED <<me, events, envTag>> /\ pc = "settle"
        /\ pc' = IF me.cmd = "upgrade" THEN "commit" ELSE "up"
    BY <1>13 DEF Settle, AfterReset, Goto
  <2>2. Resets(me) /\ events = "json"
    BY <1>0, <2>1 DEF Consented, InReset, Sees, Replaced
  <2>3. ~NotMoved'
    BY <2>1, <2>2, <1>c DEF NotMoved, Resets
  <2> QED
    BY <1>5, <2>1, <2>2, <2>3 DEF Settled, Sees
<1>14. CASE Commit
  <2>1. /\ UNCHANGED <<me, events>> /\ envTag' = me.target /\ pc = "commit"
        /\ pc' = IF me.cmd = "deploy" /\ Resets(me) THEN "record" ELSE "up"
    BY <1>14 DEF Commit, Goto
  <2>2. Resets(me') = Resets(me) /\ Settled(me, me')
    BY <2>1 DEF Settled, Resets
  <2>3. (NotMoved' => NotMoved) /\ (Replaced' => Replaced)
    BY <2>1, <2>2, <1>c DEF NotMoved, Replaced
  <2> QED
    BY <1>5, <2>1, <2>2, <2>3 DEF Sees
<1>15. CASE Up \/ Restart \/ CheckPasses
  <2>1. /\ UNCHANGED <<events, envTag>> /\ pc \in {"up", "restart", "check"}
        /\ pc' \in {"restart", "check", "clear"}
    BY <1>15 DEF Up, Restart, CheckPasses, Goto, plane
  <2>2. Settled(me, me')
    BY <1>0, <2>1, KeepsDecisions
  <2> QED
    BY <1>6, <2>1, <2>2 DEF NotMoved, Replaced
<1>16. CASE SwapBroken \/ SchemaCut \/ Stop \/ CheckFails \/ Succeed \/ Refuse
  BY <1>1, <1>16 DEF SwapBroken, SchemaCut, Stop, CheckFails, Succeed, Refuse, End, Goto
<1>17. CASE InitJob
  <2>1. /\ UNCHANGED <<me, pc, envTag>>
        /\ events # "missing" => events' = events
    BY <1>17 DEF InitJob
  <2> QED
    BY <2>1 DEF Sees, NotMoved, Replaced, Resets, Refused
<1>18. ~Meddle
  BY DEF Meddle
<1>19. CASE UNCHANGED vars
  BY <1>19 DEF vars, plane, Sees, NotMoved, Replaced, Resets, Refused
<1> QED
  BY <1>2, <1>3, <1>4, <1>7, <1>8, <1>9, <1>10, <1>11, <1>12, <1>13, <1>14, <1>15, <1>16,
     <1>17, <1>18, <1>19
     DEF Next, Work

\* What a run was told about the table holds of every execution, until somebody
\* else changes it.
THEOREM FittingInvariance == Spec => [](Consent /\ Recorded /\ Fitting)
<1>1. Consent /\ Recorded /\ Fitting /\ [Next]_vars => (Consent /\ Recorded /\ Fitting)'
  BY ConsentStep, RecordedStep, FittingStep
<1> QED
  BY <1>1, ConsentInit, RecordedInit, FittingInit, PTL DEF Spec

\* Only the upgrade's commit changes the release in .env while an upgrade runs.
LEMMA TagStep ==
    ASSUME Consent, [Next]_vars, envTag' # envTag
    PROVE  Commit
<1>1. ~UNCHANGED vars
  BY DEF vars, plane
<1>2. ~(\E c \in Commands, t \in Targets : Begin(c, t))
  BY DEF Begin, plane
<1>3. ~(Ask \/ AskUnanswered \/ PlanUpgrade \/ PlanDeploy \/ Confirm \/ Pull \/ StartServer
         \/ Probe \/ Verify \/ Restart \/ CheckPasses \/ Stop \/ Refuse)
  BY DEF Ask, AskUnanswered, PlanUpgrade, PlanDeploy, Confirm, Pull, StartServer, Probe,
         Verify, Restart, CheckPasses, Stop, Refuse, plane
<1>4. ~(Record \/ Swap \/ SwapFails \/ WriteSchema \/ Move \/ Apply \/ Settle \/ Up
         \/ CheckFails \/ Succeed \/ SwapBroken \/ SchemaCut \/ InitJob \/ Meddle)
  BY DEF Record, Swap, SwapFails, WriteSchema, Move, Apply, Settle, Up, CheckFails, Succeed,
         SwapBroken, SchemaCut, InitJob, Meddle
<1> QED
  BY <1>1, <1>2, <1>3, <1>4 DEF Next, Work

\* An upgrade names a release that writes the new table only while ClickHouse
\* holds it (TagFollowsSchema).
THEOREM TagFollows == Spec => TagFollowsSchema
<1>1. ASSUME Consent, Recorded, Fitting, [Next]_vars
      PROVE  [ ~meddled /\ me.cmd = "upgrade" /\ Gen(envTag') = "json" /\ Gen(envTag) # "json"
               => events' = "json" ]_vars
  <2> SUFFICES ASSUME ~meddled, me.cmd = "upgrade", Gen(envTag') = "json", Gen(envTag) # "json"
               PROVE  events' = "json"
    OBVIOUS
  <2>1. Commit
    BY <1>1, TagStep
  <2>2. pc = "commit" /\ envTag' = me.target /\ events' = events /\ Sees
    BY <1>1, <2>1 DEF Commit, Fitting
  <2>3. CASE Resets(me)
    BY <2>2, <2>3 DEF Sees, Replaced
  <2>4. CASE ~Resets(me)
    <3>1. me.found # "none"
      BY <2>2 DEF Sees
    <3>2. me.found \notin {"missing", "string", "other"}
      BY <2>2, <2>4, <3>1 DEF Sees, Refused, Resets
    <3>3. me.found = "json"
      BY <1>1, <3>1, <3>2 DEF Consent, TypeOK, Decisions, Live, Schema
    <3> QED
      BY <2>2, <3>3 DEF Sees
  <2> QED
    BY <2>3, <2>4
<1> QED
  BY <1>1, FittingInvariance, PTL DEF Spec, TagFollowsSchema

\* No run starts a numbered release on a table of the other generation that it
\* was told of (WritersFitTable).
THEOREM WritersFit == Spec => WritersFitTable
<1>1. ASSUME Consent, Recorded, Fitting, [Next]_vars
      PROVE  [ Up /\ ~meddled /\ Numbered(me.target)
                 => events = Gen(me.target) \/ me.found \notin Schema ]_vars
  <2> SUFFICES ASSUME Up, ~meddled, Numbered(me.target), me.found \in Schema
               PROVE  events = Gen(me.target)
    OBVIOUS
  <2>1. pc = "up" /\ Sees /\ ~Refused(me, me.found)
    BY <1>1 DEF Up, Fitting, Sees, Schema
  <2>2. Gen(me.target) \in Schema /\ me.cmd \in {"upgrade", "deploy"}
    BY <1>1, GenType DEF Consent, TypeOK, Decisions
  <2>3. CASE me.found = "json"
    BY <2>1, <2>2, <2>3 DEF Sees, Refused, Schema
  <2>4. CASE me.found = "string" /\ Resets(me)
    BY <2>1, <2>4 DEF Sees, Replaced, Resets
  <2>5. CASE me.found = "string" /\ ~Resets(me)
    BY <2>1, <2>2, <2>5 DEF Sees, NotMoved, Refused, Resets, Schema
  <2> QED
    BY <2>3, <2>4, <2>5 DEF Schema
<1> QED
  BY <1>1, FittingInvariance, PTL DEF Spec, WritersFitTable

-----------------------------------------------------------------------------
(***************************************************************************)
(* The promise of the storage reset.                                       *)
(***************************************************************************)

\* The table moved is the one the run asked about, and recorded, until somebody
\* else changes it.
LEMMA MovePromised ==
    ASSUME Consent, Recorded, Fitting, Move, meddled' = meddled
    PROVE  \E n \in AsideName : Promise!MoveAside(n)
<1>1. PICK n \in AsideName : aside[n] = NoTable
  BY DEF Move
<1>2. NewName \in AsideName /\ aside[NewName] = NoTable
  BY <1>1 DEF NewName
<1>3. /\ events # "missing" /\ events' = "missing"
      /\ aside' = [aside EXCEPT ![NewName] = [gen |-> events, agreed |-> me.agreed]]
      /\ UNCHANGED <<lost, pending, meddled>>
  BY DEF Move
<1>4. me.found = "string" /\ me.agreed
  BY DEF Consent, Consented, InReset, Decided, Step, Move
<1>5. ~meddled => pending /\ events = "string"
  BY <1>4 DEF Move, Recorded, Records, InReset, Fitting, Sees, NotMoved
<1>6. \E agreed \in BOOLEAN :
         /\ events = "string" => agreed
         /\ aside' = [aside EXCEPT ![NewName] = [gen |-> events, agreed |-> agreed]]
  BY <1>3, <1>4 DEF Consent, TypeOK, Decisions
<1>7. Promise!MoveAside(NewName)
  BY <1>2, <1>3, <1>5, <1>6 DEF Promise!MoveAside, Promise!NoTable, NoTable
<1> QED
  BY <1>2, <1>7

\* What is dropped was agreed to, and the new table has taken its place.
LEMMA SettlePromised ==
    ASSUME Consent, Recorded, Fitting, Settle, meddled' = meddled
    PROVE  \E gone \in SUBSET Promise!SetAside : Promise!Discard(gone)
<1>1. PICK gone \in SUBSET Droppable :
          /\ aside' = [n \in AsideName |-> IF n \in gone THEN NoTable ELSE aside[n]]
          /\ lost' = lost \cup {aside[n] : n \in gone}
  BY DEF Settle
<1>2. gone \in SUBSET Promise!SetAside /\ \A n \in gone : aside[n].agreed
  BY DEF Droppable, Promise!SetAside, Consent, AsideAgreed
<1>3. ~meddled => pending /\ events = "json"
  BY DEF Settle, Recorded, Records, InReset, Fitting, Sees, Replaced
<1>4. UNCHANGED <<events, pending, meddled>>
  BY DEF Settle
<1>5. Promise!Discard(gone)
  BY <1>1, <1>2, <1>3, <1>4 DEF Promise!Discard, Promise!NoTable, NoTable
<1> QED
  BY <1>2, <1>5

\* The record is taken back only before anything was moved, or once the new
\* table is there.
LEMMA ForgetPromised ==
    ASSUME Consent, Recorded, SwapFails \/ Succeed, meddled' = meddled, pending' # pending
    PROVE  Promise!Forget
<1>1. UNCHANGED <<events, aside, lost, meddled>> /\ pending' = FALSE
  BY DEF SwapFails, Succeed, Consent, TypeOK
<1>2. ASSUME ~meddled
      PROVE  Promise!SetAside = {} \/ events = "json"
  <2>1. Knows /\ Records /\ Checked
    BY <1>2 DEF Recorded
  <2>2. CASE SwapFails
    <3>1. me.cmd = "upgrade" /\ ~me.was /\ Creates(me) /\ pc = "swap"
      BY <2>2 DEF SwapFails
    <3>2. ~SetAside
      BY <2>1, <3>1 DEF Records, Creates
    <3> QED
      BY <3>2 DEF SetAside, Promise!SetAside
  <2>3. CASE Succeed
    <3>1. pc = "clear" /\ Resets(me)
      BY <2>3 DEF Succeed
    <3>2. me.strict
      BY <2>1, <3>1 DEF Knows
    <3> QED
      BY <2>1, <3>1, <3>2 DEF Checked, Resets
  <2> QED
    BY <2>2, <2>3
<1> QED
  BY <1>1, <1>2 DEF Promise!Forget

\* The tables and the record of a Docker plane change only as the storage reset
\* promises (KeepsThePromise).
THEOREM Refinement == Spec => KeepsThePromise
<1>1. Init => Promise!Init
  BY DEF Init, Promise!Init, Live, Schema, NoTable, Promise!Live, Promise!Schema,
         Promise!NoTable
<1>2. Consent /\ Recorded /\ Fitting /\ [Next]_vars => [Promise!Next]_Promise!vars
  <2> SUFFICES ASSUME Consent, Recorded, Fitting, [Next]_vars, ~UNCHANGED Promise!vars
               PROVE  Promise!Next
    OBVIOUS
  <2> USE DEF Promise!vars
  <2>1. CASE Meddle
    BY <2>1, ConsentStep DEF Meddle, Consent, TypeOK, Live, Schema, Promise!Next,
                             Promise!Interfere, Promise!Live, Promise!Schema
  <2>2. CASE UNCHANGED vars
    BY <2>2 DEF vars, plane
  <2> SUFFICES ASSUME Work \/ SwapBroken \/ SchemaCut \/ Stop \/ InitJob, meddled' = meddled
               PROVE  Promise!Next
    BY <2>1, <2>2 DEF Next
  <2>3. ~(\E c \in Commands, t \in Targets : Begin(c, t))
    BY DEF Begin, plane
  <2>4. ~(Ask \/ AskUnanswered \/ PlanUpgrade \/ PlanDeploy \/ Confirm \/ Pull \/ StartServer
           \/ Probe \/ Verify \/ Restart \/ CheckPasses \/ Stop \/ Refuse)
    BY DEF Ask, AskUnanswered, PlanUpgrade, PlanDeploy, Confirm, Pull, StartServer, Probe,
           Verify, Restart, CheckPasses, Stop, Refuse, plane
  <2>5. ~(Swap \/ SwapBroken \/ WriteSchema \/ SchemaCut \/ Commit \/ Up)
    BY DEF Swap, SwapBroken, WriteSchema, SchemaCut, Commit, Up
  <2>6. CASE Record
    BY <2>6 DEF Record, Promise!Next, Promise!Record
  <2>7. CASE Move
    BY <2>7, MovePromised DEF Promise!Next
  <2>8. CASE Apply \/ InitJob
    <3>1. \A sql \in Schema \cup {"cut"} : Created(sql) \in Schema \cup {"missing"}
      BY DEF Created, Schema
    <3>2. UNCHANGED <<aside, lost, pending>> /\ events = "missing" /\ events' \in Schema
      BY <2>8, <3>1 DEF Apply, InitJob, Consent, TypeOK
    <3> QED
      BY <3>2 DEF Promise!Next, Promise!Create, Promise!Schema, Schema
  <2>9. CASE Settle
    BY <2>9, SettlePromised DEF Promise!Next
  <2>10. CASE CheckFails
    BY <2>10 DEF CheckFails, Promise!Next, Promise!Record, Consent, TypeOK
  <2>11. CASE SwapFails \/ Succeed
    <3>1. UNCHANGED <<events, aside, lost>>
      BY <2>11 DEF SwapFails, Succeed
    <3> QED
      BY <2>11, <3>1, ForgetPromised DEF Promise!Next
  <2> QED
    BY <2>3, <2>4, <2>5, <2>6, <2>7, <2>8, <2>9, <2>10, <2>11 DEF Work
<1> QED
  BY <1>1, <1>2, FittingInvariance, PTL DEF Spec, KeepsThePromise, Promise!Spec

\* Whatever keeps the promise drops nothing without consent, and has every
\* half-done reset recorded (DropsOnlyAgreed, HalfDoneIsRecorded): the promise
\* alone says what the operator relies on.
THEOREM PromiseSuffices == KeepsThePromise => [](DropsOnlyAgreed /\ HalfDoneIsRecorded)
<1> DEFINE Named == aside = [n \in AsideName |-> aside[n]]
           Safe == Named /\ DropsOnlyAgreed /\ HalfDoneIsRecorded
<1>1. Promise!Init => Safe
  BY DEF Promise!Init, Promise!NoTable, DropsOnlyAgreed, HalfDoneIsRecorded
<1>2. Safe /\ [Promise!Next]_Promise!vars => Safe'
  <2> SUFFICES ASSUME Safe, [Promise!Next]_Promise!vars
               PROVE  Safe'
    OBVIOUS
  <2> USE DEF DropsOnlyAgreed, HalfDoneIsRecorded
  <2>1. ASSUME NEW n \in AsideName, Promise!MoveAside(n)
        PROVE  Safe'
    BY <2>1 DEF Promise!MoveAside, Promise!NoTable
  <2>2. ASSUME NEW gone \in SUBSET Promise!SetAside, Promise!Discard(gone)
        PROVE  Safe'
    BY <2>2 DEF Promise!Discard, Promise!SetAside, Promise!NoTable
  <2>3. CASE Promise!Forget
    BY <2>3 DEF Promise!Forget, Promise!SetAside
  <2>4. CASE Promise!Record \/ Promise!Create \/ Promise!Interfere
    BY <2>4 DEF Promise!Record, Promise!Create, Promise!Interfere
  <2>5. CASE UNCHANGED Promise!vars
    BY <2>5 DEF Promise!vars
  <2> QED
    BY <2>1, <2>2, <2>3, <2>4, <2>5 DEF Promise!Next
<1> QED
  BY <1>1, <1>2, PTL DEF KeepsThePromise, Promise!Spec

-----------------------------------------------------------------------------
(***************************************************************************)
(* A recorded reset can be finished.                                       *)
(***************************************************************************)

\* A run that creates the new table has its schema in clickhouse-init.sql by
\* the time ClickHouse is asked, or is about to put it there.
Bringing(m) ==
    CASE m.cmd = "deploy" -> Kept(m.refresh) = "json"
      [] m.cmd = "upgrade" -> m.fetched \/ m.refresh = "json"

SchemaFits ==
    /\ pc = "pull" => me.cmd = "upgrade"
    /\ Creates(me) =>
        /\ pc \in {"confirm", "pull", "swap"} => Bringing(me)
        /\ pc = "record" => IF me.cmd = "deploy" THEN initSQL = "json" ELSE Bringing(me)
        /\ pc = "commit" /\ me.cmd = "deploy" => initSQL = "json"
        /\ pc = "schema" => me.fetched \/ initSQL = "json"
        /\ pc \in {"server", "probe", "move", "apply", "verify"} => initSQL = "json"

\* The table is one a reset recognises once a reset is begun, and stays the new
\* one once it is.
Recognised ==
    /\ pending \/ me.found \in {"string", "missing"} => events # "other"
    /\ Resets(me) /\ pc \in {"up", "restart", "check"} => events = "json"

CanFinish == SchemaFits /\ (~meddled => Recognised)

\* No run brings a schema when the first one begins.
LEMMA FinishInit == Init => CanFinish
BY DEF Init, CanFinish, SchemaFits, Recognised, Creates, Resets, NoRun, Gen

\* A run keeps the schema it plans with until the new table is created
\* (planBundleRefresh, writeResetSchema, deployResetPlan).
LEMMA SchemaFitsStep ==
    ASSUME Consent, SchemaFits, [Next]_vars
    PROVE  SchemaFits'
<1>0. TypeOK /\ Consented /\ me.cmd \in {"upgrade", "deploy"}
  BY DEF Consent, TypeOK, Decisions
<1>1. ASSUME pc' \in {"idle", "ask", "plan", "settle", "up", "restart", "check", "clear"}
      PROVE  SchemaFits'
  BY <1>1 DEF SchemaFits
<1>2. ASSUME UNCHANGED <<me, initSQL>>, pc' = pc
      PROVE  SchemaFits'
  BY <1>2 DEF SchemaFits, Creates, Resets, Bringing, Kept
<1>3. CASE PlanUpgrade
  <2>1. PICK refresh \in Served \cup {"none"} :
            /\ Creates(me) => refresh # "string"
            /\ me' = [me EXCEPT !.refresh = refresh,
                                !.fetched = Creates(me) /\ refresh = "none"]
    BY <1>3 DEF PlanUpgrade
  <2>2. /\ me'.refresh = refresh /\ me'.fetched = (Creates(me) /\ refresh = "none")
        /\ pc' = "confirm" /\ pc = "plan" /\ me.cmd = "upgrade"
    BY <1>0, <1>3, <2>1 DEF PlanUpgrade, Goto, TypeOK, Decisions
  <2>3. Creates(me') = Creates(me) /\ me'.cmd = "upgrade"
    BY <1>0, <2>2, KeepsDecisions, SettledResets DEF Settled
  <2>4. Creates(me') => me'.fetched \/ me'.refresh = "json"
    BY <2>1, <2>2, <2>3, ResetConstants
  <2> QED
    BY <2>2, <2>3, <2>4 DEF SchemaFits, Bringing
<1>4. CASE PlanDeploy
  <2>1. PICK refresh \in Served \cup {"none"} :
            /\ Creates(me) => Kept(refresh) = "json"
            /\ me' = [me EXCEPT !.refresh = refresh]
    BY <1>4 DEF PlanDeploy, Set
  <2>2. me'.refresh = refresh /\ me'.cmd = "deploy" /\ pc' = "confirm" /\ initSQL' = initSQL
    BY <1>0, <1>4, <2>1 DEF PlanDeploy, Goto, TypeOK, Decisions, plane
  <2>3. Creates(me') = Creates(me)
    BY <1>0, <2>1, SettledResets DEF Settled, TypeOK, Decisions
  <2> QED
    BY <2>1, <2>2, <2>3 DEF SchemaFits, Bringing, Kept
<1>5. CASE Confirm
  <2> DEFINE agreed == Resets(me) /\ me.found = "string"
  <2>1. /\ pc = "confirm" /\ initSQL' = initSQL
        /\ pc' = IF me.cmd = "upgrade" THEN "pull" ELSE "swap"
        /\ me' = [me EXCEPT !.agreed = agreed]
    BY <1>5 DEF Confirm, Set, Goto, plane
  <2> HIDE DEF agreed
  <2>2. /\ me'.refresh = me.refresh /\ me'.fetched = me.fetched
        /\ Settled(me, me')
    BY <1>0, <2>1 DEF Settled, TypeOK, Decisions
  <2>3. Creates(me') = Creates(me) /\ me'.cmd = me.cmd
    BY <2>2, SettledResets DEF Settled
  <2> QED
    BY <2>1, <2>2, <2>3 DEF SchemaFits, Bringing, Kept
<1>6. CASE Pull \/ Record
  <2>1. UNCHANGED <<me, initSQL>>
    BY <1>6 DEF Pull, Record, plane
  <2>2. \/ pc = "pull" /\ pc' \in {"record", "swap"}
        \/ pc = "record" /\ pc' = IF me.cmd = "upgrade" THEN "swap" ELSE "server"
    BY <1>6 DEF Pull, Record, Goto
  <2>3. Creates(me') = Creates(me) /\ Bringing(me)' = Bringing(me)
    BY <2>1 DEF Creates, Resets, Bringing, Kept
  <2> QED
    BY <1>0, <2>1, <2>2, <2>3 DEF SchemaFits
<1>7. CASE Swap
  <2>1. UNCHANGED me /\ initSQL' = Kept(me.refresh) /\ pc = "swap" /\ pc' = AfterSwap(me)
    BY <1>7 DEF Swap, Goto
  <2>2. Creates(me') = Creates(me)
    BY <2>1 DEF Creates, Resets
  <2>3. Creates(me) => me.found \in {"string", "missing"} /\ Resets(me)
    BY DEF Creates
  <2>4. Creates(me) /\ me.cmd = "deploy" => initSQL' = "json"
    BY <2>1 DEF SchemaFits, Bringing
  <2>5. Creates(me) /\ me.cmd = "upgrade" => me.fetched \/ initSQL' = "json"
    BY <2>1 DEF SchemaFits, Bringing, Kept
  <2> QED
    BY <1>0, <2>1, <2>2, <2>3, <2>4, <2>5 DEF SchemaFits, AfterSwap
<1>8. CASE SwapFails
  <2>1. pc' = "idle" \/ (~Creates(me) /\ Settled(me, me') /\ pc' = AfterSwap(me))
    BY <1>0, <1>8 DEF SwapFails, Set, End, Goto, Settled, TypeOK, Decisions
  <2>2. CASE pc' # "idle"
    BY <1>0, <2>1, <2>2, SettledResets DEF SchemaFits, AfterSwap
  <2> QED
    BY <1>1, <2>2
<1>9. CASE WriteSchema
  <2>1. /\ UNCHANGED me /\ initSQL' = (IF me.fetched THEN "json" ELSE initSQL)
        /\ pc = "schema" /\ pc' = "server"
    BY <1>9 DEF WriteSchema, Goto
  <2> QED
    BY <2>1 DEF SchemaFits, Creates, Resets
<1>10. CASE StartServer \/ Probe \/ Move \/ Apply
  <2>1. /\ UNCHANGED <<me, initSQL>> /\ pc \in {"server", "probe", "move", "apply"}
        /\ pc' \in {"probe", "move", "apply", "verify", "settle"}
    BY <1>10 DEF StartServer, Probe, Move, Apply, Goto, plane
  <2> QED
    BY <2>1 DEF SchemaFits, Creates, Resets
<1>11. CASE Settle
  <2>1. UNCHANGED me /\ pc' = IF me.cmd = "upgrade" THEN "commit" ELSE "up"
    BY <1>11 DEF Settle, AfterReset, Goto
  <2> QED
    BY <2>1 DEF SchemaFits
<1>12. CASE Commit
  <2>1. /\ UNCHANGED <<me, initSQL>> /\ pc = "commit"
        /\ pc' = IF me.cmd = "deploy" /\ Resets(me) THEN "record" ELSE "up"
    BY <1>12 DEF Commit, Goto
  <2> QED
    BY <1>0, <2>1 DEF SchemaFits, Creates, Resets
<1>13. CASE Ask \/ AskUnanswered \/ Verify \/ Up \/ Restart \/ CheckPasses
            \/ \E c \in Commands, t \in Targets : Begin(c, t)
  BY <1>1, <1>13 DEF Ask, AskUnanswered, Verify, Up, Restart, CheckPasses, Begin, Goto
<1>14. CASE SwapBroken \/ SchemaCut \/ Stop \/ CheckFails \/ Succeed \/ Refuse
  BY <1>1, <1>14 DEF SwapBroken, SchemaCut, Stop, CheckFails, Succeed, Refuse, End, Goto
<1>15. CASE InitJob \/ Meddle \/ UNCHANGED vars
  BY <1>2, <1>15 DEF InitJob, Meddle, vars, plane
<1> QED
  BY <1>3, <1>4, <1>5, <1>6, <1>7, <1>8, <1>9, <1>10, <1>11, <1>12, <1>13, <1>14, <1>15
     DEF Next, Work

\* Neither a run nor an init container makes a table no reset recognises, or
\* takes the new one away (CREATE TABLE IF NOT EXISTS, RENAME TABLE).
LEMMA TableStep ==
    ASSUME Consent, Recorded, Fitting, [Next]_vars, ~meddled'
    PROVE  /\ events # "other" => events' # "other"
           /\ events = "json" => events' = "json"
<1>b. ~meddled
  BY DEF Next, Meddle, vars
<1>a. ~meddled /\ Sees /\ Consented /\ TypeOK
  BY <1>b DEF Fitting, Consent
<1>1. \A sql \in Schema \cup {"cut"} : Created(sql) # "other"
  BY DEF Created, Schema
<1>2. initSQL \in Schema \cup {"cut"} /\ initJob \in Schema \cup {"cut", "none"}
  BY <1>a DEF TypeOK
<1>3. CASE Apply
  <2>1. events' = events \/ (events = "missing" /\ events' = Created(initSQL))
    BY <1>3 DEF Apply
  <2> QED
    BY <1>1, <1>2, <2>1
<1>4. CASE InitJob
  <2>1. /\ initJob # "none"
        /\ events' = events \/ (events = "missing" /\ events' \in {"missing", Created(initJob)})
    BY <1>4 DEF InitJob
  <2> QED
    BY <1>1, <1>2, <2>1
<1>5. CASE Move
  <2>1. events = "string" /\ events' = "missing"
    BY <1>a, <1>5 DEF Move, Consented, Sees, NotMoved
  <2> QED
    BY <2>1
<1>6. CASE UNCHANGED events
  BY <1>6
<1>7. CASE Ask \/ AskUnanswered \/ PlanUpgrade \/ PlanDeploy \/ Confirm \/ Pull \/ Record
           \/ Swap \/ SwapFails \/ WriteSchema \/ StartServer \/ Probe \/ Verify \/ Settle
           \/ \E c \in Commands, t \in Targets : Begin(c, t)
  BY <1>6, <1>7 DEF Ask, AskUnanswered, PlanUpgrade, PlanDeploy, Confirm, Pull, Record, Swap,
                    SwapFails, WriteSchema, StartServer, Probe, Verify, Settle, Begin, plane
<1>8. CASE Commit \/ Up \/ Restart \/ CheckPasses \/ CheckFails \/ Succeed \/ Refuse
           \/ SwapBroken \/ SchemaCut \/ Stop \/ UNCHANGED vars
  BY <1>6, <1>8 DEF Commit, Up, Restart, CheckPasses, CheckFails, Succeed, Refuse, SwapBroken,
                    SchemaCut, Stop, plane, vars
<1>9. ~Meddle
  BY DEF Meddle
<1> QED
  BY <1>3, <1>4, <1>5, <1>7, <1>8, <1>9 DEF Next, Work

\* A swap that fails forgets nothing of the decision but the bundle.
LEMMA SwapFailsFound ==
    ASSUME TypeOK, SwapFails
    PROVE  /\ me' = NoRun \/ me'.found = me.found
           /\ pending' => pending
BY DEF SwapFails, Set, End, TypeOK, Decisions

\* The images are started after the reset, and nothing goes back.
LEMMA LateSteps ==
    ASSUME [Next]_vars, pc' \in {"up", "restart", "check"}
    PROVE  /\ pc \in {"settle", "commit", "up", "restart", "check"}
           /\ pc = "commit" => Commit
           /\ pc = "check" => UNCHANGED me
<1>1. CASE Settle \/ Commit \/ Up \/ Restart
  BY <1>1 DEF Settle, Commit, Up, Restart
<1>2. ~(Swap \/ SwapFails)
  BY DEF Swap, SwapFails, AfterSwap, End, Goto
<1>3. ~(Ask \/ AskUnanswered \/ PlanUpgrade \/ PlanDeploy \/ Confirm \/ Pull \/ Record
         \/ WriteSchema \/ StartServer \/ Probe \/ Move \/ Apply \/ Verify \/ CheckPasses
         \/ \E c \in Commands, t \in Targets : Begin(c, t))
  BY DEF Ask, AskUnanswered, PlanUpgrade, PlanDeploy, Confirm, Pull, Record, WriteSchema,
         StartServer, Probe, Move, Apply, Verify, CheckPasses, Begin, Goto
<1>4. ~(SwapBroken \/ SchemaCut \/ Stop \/ CheckFails \/ Succeed \/ Refuse)
  BY DEF SwapBroken, SchemaCut, Stop, CheckFails, Succeed, Refuse, End, Goto
<1>5. CASE InitJob \/ Meddle \/ UNCHANGED vars
  BY <1>5 DEF InitJob, Meddle, vars
<1> QED
  BY <1>1, <1>2, <1>3, <1>4, <1>5 DEF Next, Work

\* A record that is new, and an answer a run did not have, are of a table that a
\* reset recognises (eventsTableFail, askClickHouse).
LEMMA BegunKnown ==
    ASSUME Consent, Recorded, Fitting, CanFinish, [Next]_vars, ~meddled',
           pending' \/ me'.found \in {"string", "missing"}
    PROVE  events # "other"
<1>b. ~meddled
  BY DEF Next, Meddle, vars
<1>a. ~meddled /\ Knows /\ Sees /\ Recognised /\ TypeOK /\ Consented
  BY <1>b DEF Recorded, Fitting, CanFinish, Consent
<1>1. ASSUME UNCHANGED <<me, pending>>
      PROVE  events # "other"
  BY <1>1, <1>a DEF Recognised
<1>2. ASSUME me' = NoRun, pending' => pending
      PROVE  events # "other"
  BY <1>2, <1>a DEF Recognised, NoRun
<1>3. ASSUME me'.found = me.found, pending' => pending
      PROVE  events # "other"
  BY <1>3, <1>a DEF Recognised
<1>4. CASE \E c \in Commands, t \in Targets : Begin(c, t)
  <2>1. me'.found = "none" /\ pending' = pending
    BY <1>4 DEF Begin, NoRun, plane
  <2> QED
    BY <2>1, <1>a DEF Recognised
<1>5. CASE Ask
  BY <1>5 DEF Ask, Refused
<1>6. CASE PlanUpgrade \/ PlanDeploy \/ Confirm \/ Restart
  BY <1>3, <1>6, <1>a DEF PlanUpgrade, PlanDeploy, Confirm, Restart, Set, plane, TypeOK, Decisions
<1>7. CASE Record
  <2>1. Resets(me) /\ pc = "record" /\ me.found # "none"
    BY <1>a, <1>7 DEF Record, Consented, Knows, Sees
  <2>2. me.found \in {"string", "missing", "json"}
    BY <1>a, <2>1 DEF TypeOK, Decisions, Live, Schema, Sees, Refused
  <2> QED
    BY <1>a, <2>1, <2>2 DEF Recognised, Sees
<1>8. CASE SwapFails
  BY <1>2, <1>3, <1>8, <1>a, SwapFailsFound
<1>9. CASE CheckFails
  <2>1. CASE pending' = pending
    BY <1>2, <1>9, <2>1 DEF CheckFails, End
  <2>2. CASE pending' # pending
    BY <1>9, <1>a, <2>2 DEF CheckFails, TypeOK
  <2> QED
    BY <2>1, <2>2
<1>10. CASE Succeed \/ SwapBroken \/ SchemaCut \/ Stop \/ Refuse
  BY <1>2, <1>10 DEF Succeed, SwapBroken, SchemaCut, Stop, Refuse, End, plane
<1>11. CASE AskUnanswered \/ Pull \/ Swap \/ WriteSchema \/ StartServer \/ Probe \/ Move
            \/ Apply \/ Verify \/ Settle
  BY <1>1, <1>11 DEF AskUnanswered, Pull, Swap, WriteSchema, StartServer, Probe, Move, Apply,
                     Verify, Settle, plane
<1>12. CASE Commit \/ Up \/ CheckPasses \/ InitJob \/ UNCHANGED vars
  BY <1>1, <1>12 DEF Commit, Up, CheckPasses, InitJob, vars, plane
<1>13. ~Meddle
  BY DEF Meddle
<1> QED
  BY <1>4, <1>5, <1>6, <1>7, <1>8, <1>9, <1>10, <1>11, <1>12, <1>13 DEF Next, Work

\* What a run looked for when a reset was begun, and what it left, is there.
LEMMA RecognisedStep ==
    ASSUME Consent, Recorded, Fitting, CanFinish, [Next]_vars, ~meddled'
    PROVE  Recognised'
<1>b. ~meddled
  BY DEF Next, Meddle, vars
<1>a. ~meddled /\ Sees /\ Recognised /\ TypeOK /\ Consented
  BY <1>b DEF Fitting, CanFinish, Consent
<1>1. /\ events # "other" => events' # "other"
      /\ events = "json" => events' = "json"
  BY TableStep
<1>2. pending' \/ me'.found \in {"string", "missing"} => events' # "other"
  BY <1>1, BegunKnown
<1>3. ASSUME Resets(me'), pc' \in {"up", "restart", "check"}
      PROVE  events = "json"
  <2>1. /\ pc \in {"settle", "commit", "up", "restart", "check"}
        /\ pc = "commit" => Commit
        /\ pc = "check" => UNCHANGED me
    BY <1>a, <1>3, LateSteps
  <2>2. Settled(me, me')
    BY <1>a, <1>3, <2>1, KeepsDecisions
  <2>3. Resets(me)
    BY <1>3, <2>2, SettledResets
  <2>4. CASE pc = "commit"
    <3>1. me.cmd = "upgrade"
      BY <1>a, <1>3, <2>1, <2>3, <2>4 DEF Commit, Goto, TypeOK, Decisions
    <3> QED
      BY <1>a, <2>3, <2>4, <3>1 DEF Sees, Replaced
  <2>5. CASE pc = "settle"
    BY <1>a, <2>5 DEF Sees, Replaced
  <2> QED
    BY <1>a, <2>1, <2>3, <2>4, <2>5 DEF Recognised
<1> QED
  BY <1>1, <1>2, <1>3 DEF Recognised

\* A recorded reset can be finished at every step of an execution.
THEOREM FinishInvariance == Spec => [](Consent /\ Recorded /\ Fitting /\ CanFinish)
<1>1. Consent /\ Recorded /\ Fitting /\ CanFinish /\ [Next]_vars => CanFinish'
  BY SchemaFitsStep, RecognisedStep DEF CanFinish
<1> QED
  BY <1>1, FinishInit, FittingInvariance, PTL DEF Spec

\* A rerun that finishes a recorded reset is stopped only by what is outside the
\* runs (OnlyOutsideRefuses): no order of failed, killed or refused runs leaves a
\* plane whose reruns refuse it for ever.
THEOREM RerunsGetThrough == Spec => OnlyOutsideRefuses
<1>1. ASSUME Consent, Recorded, Fitting, CanFinish, me.was, ~meddled, Refuse
      PROVE  \/ pc = "plan" /\ "json" \notin Served
             \/ pc = "probe" /\ me.found = "missing" /\ events = "string"
             \/ pc = "verify" /\ events \in {"missing", "string"}
             \/ pc = "check" /\ events = "json" /\ running # "json"
  <2>a. Knows /\ Sees /\ Recognised /\ SchemaFits /\ TypeOK /\ Consented
    BY <1>1 DEF Recorded, Fitting, CanFinish, Consent
  <2>b. pc # "idle" /\ me.strict /\ pending /\ Gen(me.target) = "json"
    BY <1>1, <2>a DEF Refuse, Knows
  <2>c. events \in {"string", "json", "missing"}
    BY <2>a, <2>b DEF Recognised, TypeOK, Live, Schema
  <2>1. ~(pc = "ask" /\ Refused(me, events))
    BY <2>a, <2>b, <2>c DEF Refused, Knows, Numbered
  <2>2. ASSUME pc = "probe", events # "json", ~ToMove, ~ToApply
        PROVE  me.found = "missing" /\ events = "string"
    <3>1. me.found \in {"string", "missing"}
      BY <2>a, <2>b, <2>2 DEF Sees, Refused, TypeOK, Decisions, Live, Schema
    <3>2. initSQL = "json"
      BY <2>a, <2>2, <3>1 DEF SchemaFits, Creates, Consented, InReset
    <3> QED
      BY <2>c, <2>2, <3>1, <3>2 DEF ToMove, ToApply
  <2>3. ~(pc = "move" /\ events = "missing")
    BY <2>a DEF Consented, Sees, NotMoved
  <2> QED
    BY <1>1, <2>b, <2>c, <2>1, <2>2, <2>3 DEF Refuse
<1>2. ASSUME Consent, Recorded, Fitting, CanFinish, me.was, ~meddled
      PROVE  ~CheckFails
  <2>1. SUFFICES ASSUME CheckFails
                 PROVE  FALSE
    OBVIOUS
  <2>2. pc = "check" /\ events # Gen(me.target) /\ Knows /\ Recognised
    BY <1>2, <2>1 DEF CheckFails, Recorded, CanFinish
  <2>3. Resets(me)
    BY <1>2, <2>2 DEF Knows, Resets
  <2> QED
    BY <2>2, <2>3 DEF Recognised, Resets
<1> QED
  BY <1>1, <1>2, FinishInvariance, PTL DEF Spec, OnlyOutsideRefuses

=============================================================================
