--------------------------- MODULE KubeResetProofs ---------------------------
(***************************************************************************)
(* Proofs about KubeReset: for any number of runs, of names a table is     *)
(* moved to, and any commands and releases.                                *)
(***************************************************************************)
EXTENDS KubeReset, TLAPS

-----------------------------------------------------------------------------
(***************************************************************************)
(* Types.                                                                  *)
(***************************************************************************)

LEMMA GenTypes ==
    /\ Gen("old") = "string" /\ Gen("new") = "json" /\ Gen("main") = "unknown"
    /\ \A t \in {"old", "new"} : Gen(t) \in Schema
BY DEF Gen, Schema

LEMMA NoRunTypes == NoRun \in Decisions /\ NoMarker \in Marker /\ NoTable \in Table
BY DEF NoRun, Decisions, NoMarker, Marker, Create, NoTable, Table

\* What is recorded is a record.
LEMMA RecordTypes ==
    ASSUME NEW m \in Decisions, NEW record \in Records(m)
    PROVE  record \in Marker
<1>1. \A n \in Names(m.rec.name) : n \in AsideName
  BY DEF Names, Free
<1> QED
  BY <1>1 DEF Records, Marker, Decisions

\* The end of a run.
LEMMA EndTypes ==
    ASSUME TypeOK, NEW r \in Run, End(r)
    PROVE  /\ pc' \in [Run -> Step]
           /\ me' \in [Run -> Decisions]
           /\ lease' \in Run \cup {Nobody}
BY NoRunTypes DEF End, Goto, TypeOK, Step

\* What is left of a run for its check.
LEMMA SpentTypes ==
    ASSUME NEW m \in Decisions, NEW clears \in BOOLEAN
    PROVE  Spent(m, clears) \in Decisions
BY NoRunTypes DEF Spent, Decisions

LEMMA InitTypes == Init => TypeOK
<1> SUFFICES ASSUME Init PROVE TypeOK
  OBVIOUS
<1>1. installed \in {"old", "new", "main"} /\ running \in Schema \cup {"mixed", "unknown"}
  BY KubeConstants, GenTypes DEF Init
<1> QED
  BY <1>1, NoRunTypes DEF Init, TypeOK, Step

LEMMA ActTypes ==
    ASSUME TypeOK, NEW r \in Run, Act(r)
    PROVE  TypeOK'
<1> USE DEF Goto, cluster
<1>0. me[r] \in Decisions /\ me[r].target \in {"old", "new"} /\ Gen(me[r].target) \in Schema
  BY GenTypes DEF TypeOK, Decisions
<1>1. CASE \E c \in Commands, t \in Targets : Begin(r, c, t)
  <2>1. PICK c \in Commands, t \in Targets : Begin(r, c, t)
    BY <1>1
  <2>2. PICK denied \in BOOLEAN :
           me' = [me EXCEPT ![r] = [NoRun EXCEPT !.cmd = c, !.target = t, !.denied = denied,
                                          !.rec = IF denied THEN NoMarker ELSE marker]]
    BY <2>1 DEF Begin
  <2>3. [NoRun EXCEPT !.cmd = c, !.target = t, !.denied = denied,
                      !.rec = IF denied THEN NoMarker ELSE marker] \in Decisions
    BY KubeConstants, NoRunTypes DEF TypeOK, Decisions
  <2>4. me' \in [Run -> Decisions]
    BY <2>2, <2>3 DEF TypeOK
  <2> QED
    BY <2>1, <2>4 DEF Begin, TypeOK, Step
<1>2. CASE Look(r)
  <2>1. PICK untold \in BOOLEAN :
           me' = [me EXCEPT ![r].relevant = Present(me[r].rec) \/ Crosses(installed, me[r].target)
                                                \/ untold,
                            ![r].denied = FALSE, ![r].rec = NoMarker]
    BY <1>2 DEF Look
  <2>2. PICK now : now = (Present(me[r].rec) \/ Crosses(installed, me[r].target) \/ untold)
    OBVIOUS
  <2>3. now \in BOOLEAN
    BY <2>2 DEF Present, Crosses
  <2>4. [me[r] EXCEPT !.relevant = now, !.denied = FALSE, !.rec = NoMarker] \in Decisions
    BY <1>0, <2>3, NoRunTypes DEF Decisions
  <2>5. me' = [me EXCEPT ![r] = [me[r] EXCEPT !.relevant = now, !.denied = FALSE,
                                              !.rec = NoMarker]]
    BY <2>1, <2>2 DEF TypeOK
  <2>6. me' \in [Run -> Decisions]
    BY <2>4, <2>5 DEF TypeOK
  <2> QED
    BY <1>2, <2>6 DEF Look, TypeOK, Step
<1>3. CASE Acquire(r)
  BY <1>3 DEF Acquire, TypeOK, Step
<1>4. CASE Reread(r)
  BY <1>0, <1>4 DEF Reread, TypeOK, Step, Decisions
<1>5. CASE Ask(r)
  <2>1. /\ [me[r] EXCEPT !.found = events] \in Decisions
        /\ Resets([me[r] EXCEPT !.found = events]) \in BOOLEAN
    BY <1>0 DEF TypeOK, Decisions, Resets
  <2>2. me' \in [Run -> Decisions]
    BY <1>5, <2>1 DEF Ask, TypeOK, Decisions
  <2> QED
    BY <1>5, <2>2 DEF Ask, TypeOK, Step
<1>6. CASE Record(r)
  <2>1. PICK record \in Records(me[r]) :
           marker' = record /\ me' = [me EXCEPT ![r].rec = record, ![r].prev = me[r].rec]
    BY <1>6 DEF Record
  <2>2. record \in Marker
    BY <1>0, RecordTypes
  <2> QED
    BY <1>0, <1>6, <2>1, <2>2 DEF Record, TypeOK, Step, Decisions
<1>7. CASE RecordFails(r)
  BY <1>0, <1>7, EndTypes, RecordTypes DEF RecordFails, TypeOK
<1>8. CASE Helm(r)
  <2>1. me' \in [Run -> Decisions]
    <3>1. CASE me' = [me EXCEPT ![r].prev = NoMarker]
      BY <1>0, <3>1, NoRunTypes DEF TypeOK, Decisions
    <3>2. CASE me' = [me EXCEPT ![r] = Spent(me[r], FALSE)]
      BY <1>0, <3>2, SpentTypes DEF TypeOK
    <3> QED
      BY <1>8, <3>1, <3>2 DEF Helm
  <2>2. (disturbed \/ Strays(r)) \in BOOLEAN
    BY DEF TypeOK, Strays
  <2> QED
    BY <1>0, <1>8, <2>1, <2>2 DEF Helm, TypeOK, Step
<1>9. CASE HelmFails(r)
  BY <1>0, <1>9, EndTypes DEF HelmFails, TypeOK, Decisions
<1>10. CASE HelmFailsMoved(r)
  <2>1. (disturbed \/ Strays(r)) \in BOOLEAN
    BY DEF TypeOK, Strays
  <2> QED
    BY <1>0, <1>10, <2>1, EndTypes DEF HelmFailsMoved, Between, TypeOK
<1>11. CASE Probe(r)
  BY <1>11 DEF Probe, TypeOK, Step
<1>12. CASE Move(r)
  <2>1. PICK n \in Names(me[r].rec.name) :
           /\ aside' = [aside EXCEPT ![n] = [gen |-> events, agreed |-> me[r].agreed]]
           /\ me' = [me EXCEPT ![r].moved = n]
    BY <1>12 DEF Move
  <2>2. n \in AsideName /\ [gen |-> events, agreed |-> me[r].agreed] \in Table
    BY <1>0 DEF Names, Free, Table, TypeOK, Decisions
  <2> QED
    BY <1>0, <1>12, <2>1, <2>2 DEF Move, TypeOK, Step, Decisions, Live
<1>13. CASE MoveGone(r)
  <2>1. PICK n \in Names(me[r].rec.name) : me' = [me EXCEPT ![r].moved = n]
    BY <1>13 DEF MoveGone
  <2>2. n \in AsideName
    BY DEF Names, Free
  <2> QED
    BY <1>0, <1>13, <2>1, <2>2 DEF MoveGone, TypeOK, Step, Decisions
<1>14. CASE Apply(r)
  BY <1>14 DEF Apply, TypeOK, Step, Live, Schema
<1>15. CASE Verify(r)
  BY <1>15 DEF Verify, TypeOK, Step
<1>16. CASE Settle(r)
  <2>1. PICK gone \in SUBSET Droppable(me[r]) :
           /\ aside' = [n \in AsideName |-> IF n \in gone THEN NoTable ELSE aside[n]]
           /\ lost' = lost \cup {aside[n] : n \in gone}
    BY <1>16 DEF Settle
  <2>2. aside' \in [AsideName -> Table] /\ lost' \subseteq Table
    BY <2>1, NoRunTypes DEF Droppable, TypeOK
  <2>3. me' \in [Run -> Decisions]
    BY <1>0, <1>16, SpentTypes DEF Settle, TypeOK
  <2> QED
    BY <1>16, <2>2, <2>3 DEF Settle, TypeOK, Step
<1>17. CASE CheckPasses(r)
  BY <1>17 DEF CheckPasses, TypeOK, Step
<1>18. CASE CheckRecords(r)
  BY <1>18, EndTypes DEF CheckRecords, TypeOK, Marker
<1>19. CASE Succeed(r)
  BY <1>19, EndTypes, NoRunTypes DEF Succeed, TypeOK
<1>20. CASE Stop(r)
  BY <1>20, EndTypes DEF Stop, TypeOK
<1> QED
  BY <1>1, <1>2, <1>3, <1>4, <1>5, <1>6, <1>7, <1>8, <1>9, <1>10, <1>11, <1>12, <1>13,
     <1>14, <1>15, <1>16, <1>17, <1>18, <1>19, <1>20 DEF Act

LEMMA StepTypes == TypeOK /\ [Next]_vars => TypeOK'
<1> SUFFICES ASSUME TypeOK, [Next]_vars PROVE TypeOK'
  OBVIOUS
<1>1. CASE \E r \in Run : Act(r)
  BY <1>1, ActTypes
<1>2. CASE Job
  BY <1>2 DEF Job, TypeOK, Live
<1>3. CASE Outlive
  BY <1>3 DEF Outlive, cluster, TypeOK
<1>4. CASE Meddle
  BY <1>4 DEF Meddle, TypeOK, Live, Schema
<1>5. CASE UNCHANGED vars
  BY <1>5 DEF vars, cluster, TypeOK
<1> QED
  BY <1>1, <1>2, <1>3, <1>4, <1>5 DEF Next

\* The variables stay of their types.
THEOREM TypeCorrect == Spec => []TypeOK
BY InitTypes, StepTypes, PTL DEF Spec

-----------------------------------------------------------------------------
(***************************************************************************)
(* The invariant.                                                          *)
(***************************************************************************)

Early == {"idle", "look", "lease", "reread"}
Held == {"ask", "record", "helm", "probe", "move", "apply", "verify", "settle"}
Checked == {"check", "clear"}

\* The steps from which a run that can touch the table has the lease.
Beyond(r) == me[r].relevant /\ pc[r] \notin {"idle", "look", "lease"}

\* What a run knows of itself, whatever others do.
Local(r) ==
    /\ lease = r => Beyond(r)
    /\ pc[r] \in {"lease", "reread"} \cup (Held \ {"helm"}) => me[r].relevant
    /\ me[r].found # "none" \/ me[r].clears => me[r].relevant
    /\ pc[r] \in Early \cup Checked => me[r].found = "none"
    /\ me[r].clears => pc[r] \in Checked
    /\ Resets(me[r]) /\ me[r].found = "string" => me[r].agreed
    /\ pc[r] \in {"record", "helm"} /\ me[r].found # "none" => ~Refused(me[r], me[r].found)
    /\ pc[r] = "record" => Resets(me[r])
    /\ pc[r] = "helm" /\ me[r].relevant => me[r].found # "none"
    /\ pc[r] = "probe" => Resets(me[r]) \/ Finishes(me[r])
    /\ pc[r] = "move" => Resets(me[r]) /\ me[r].found = "string"

\* A table moved aside while the new one is missing: the record has its name,
\* and nothing brings the old one back.
Kept(record, n) ==
    /\ MayDrop(record, n)
    /\ events = "missing" /\ job # "string" /\ Gen(installed) = "json"

\* What a run knows while it holds the lease.
Holds(r) ==
    /\ lease = r
    /\ pc[r] \in Held => me[r].rec = marker /\ ~OverMarker(me[r], marker)
    /\ pc[r] \in Checked /\ me[r].cmd # "upgrade" => marker = NoMarker
    /\ pc[r] \in {"record", "helm", "probe", "move"} /\ me[r].found \in Schema =>
          events = me[r].found
    /\ pc[r] = "helm" /\ Resets(me[r]) =>
          /\ Present(marker)
          /\ \A n \in AsideName : aside[n].gen = "string" => events = "json" \/ Kept(me[r].prev, n)
    /\ pc[r] \in {"helm", "probe", "move"} /\ Resets(me[r]) /\ me[r].found = "string" =>
          marker.action = "reset" /\ marker.name \in Free
    /\ pc[r] \in {"probe", "move"} => Gen(installed) = "json" /\ job # "string"
    /\ pc[r] = "settle" \/ me[r].clears => events = "json"
    /\ pc[r] \in {"probe", "move", "apply", "verify", "settle", "check", "clear"} =>
          running = Gen(installed)
    /\ pc[r] = "clear" /\ me[r].cmd # "deploy" => running = events

HoldsInv(r) == ~disturbed /\ Beyond(r) => Holds(r)

\* The tables, while the lease holds everybody off.
TablesInv ==
    ~disturbed => \A n \in AsideName :
        /\ aside[n].gen # "json"
        /\ aside[n].gen = "string" => events = "json" \/ Kept(marker, n)

\* The tables in any case.
AgreedInv ==
    /\ \A n \in AsideName : aside[n] # NoTable => aside[n].agreed
    /\ DropsOnlyAgreed

RunInv(r) == Local(r) /\ HoldsInv(r)

Inv == TypeOK /\ (\A r \in Run : RunInv(r)) /\ TablesInv /\ AgreedInv

LEMMA NoRunIsNobody == \A r \in Run : r # Nobody
BY KubeConstants

LEMMA Inits == Init => Inv
<1> SUFFICES ASSUME Init PROVE Inv
  OBVIOUS
<1>1. TypeOK
  BY InitTypes
<1>2. ASSUME NEW r \in Run PROVE RunInv(r)
  <2>1. pc[r] = "idle" /\ me[r] = NoRun /\ lease # r
    BY NoRunIsNobody DEF Init
  <2> QED
    BY <2>1 DEF RunInv, Local, HoldsInv, Beyond, NoRun, Early, Held, Checked, Resets
<1>3. TablesInv /\ AgreedInv
  BY DEF Init, TablesInv, AgreedInv, DropsOnlyAgreed, NoTable
<1> QED
  BY <1>1, <1>2, <1>3 DEF Inv

\* A run that is over knows nothing.
LEMMA Ends ==
    ASSUME TypeOK, NEW r \in Run, End(r)
    PROVE  RunInv(r)'
<1>1. pc'[r] = "idle" /\ me'[r] = NoRun /\ lease' # r
  BY NoRunIsNobody DEF End, Goto, TypeOK
<1> QED
  BY <1>1 DEF RunInv, Local, HoldsInv, Beyond, NoRun, Early, Held, Checked, Resets

\* What another run without the lease, or a Job, may do next to one with it.
Benign ==
    /\ UNCHANGED <<aside, marker>>
    /\ events' = events \/ (events = "missing" /\ job # "none" /\ events' = job)
    /\ Gen(installed') = Gen(installed)
    /\ job' \in {job, "none", Gen(installed)}
    /\ running = Gen(installed) => running' = Gen(installed)

LEMMA BenignTables ==
    ASSUME TypeOK, TablesInv, Benign, disturbed => disturbed'
    PROVE  TablesInv'
BY DEF TypeOK, TablesInv, Benign, Kept, MayDrop, Schema

LEMMA BenignHolds ==
    ASSUME TypeOK, NEW q \in Run, HoldsInv(q), Benign, pc'[q] = pc[q], me'[q] = me[q],
           disturbed => disturbed', lease = q => lease' = q
    PROVE  HoldsInv(q)'
<1> SUFFICES ASSUME ~disturbed, Beyond(q), ~disturbed' PROVE Holds(q)'
  BY DEF HoldsInv, Beyond
<1>1. Holds(q)
  BY DEF HoldsInv
<1>2. /\ UNCHANGED <<aside, marker>> /\ Free' = Free
      /\ lease' = q
      /\ events # "missing" => events' = events
      /\ Gen(installed') = Gen(installed)
      /\ Gen(installed) = "json" /\ job # "string" => job' # "string"
      /\ running = Gen(installed) => running' = Gen(installed)
  BY <1>1 DEF Benign, Free, Holds
<1>3. ASSUME NEW record, NEW n, events = "json" \/ Kept(record, n)
      PROVE  (events = "json" \/ Kept(record, n))'
  BY <1>3 DEF Benign, Kept, MayDrop, TypeOK, Schema
<1>4. Gen(installed) # "missing"
  BY DEF Gen
<1>5. pc[q] \in Held => me[q].rec = marker' /\ ~OverMarker(me[q], marker')
  BY <1>1, <1>2 DEF Holds
<1>6. pc[q] = "helm" /\ Resets(me[q]) =>
         /\ Present(marker')
         /\ \A n \in AsideName : aside[n].gen = "string" => (events = "json" \/ Kept(me[q].prev, n))'
  BY <1>1, <1>2, <1>3 DEF Holds
<1>7. pc[q] \in {"record", "helm", "probe", "move"} /\ me[q].found \in Schema => events' = me[q].found
  BY <1>1, <1>2 DEF Holds, Schema
<1>8. pc[q] = "clear" /\ me[q].cmd # "deploy" => running' = events'
  BY <1>1, <1>2, <1>4 DEF Holds
<1> QED
  BY <1>1, <1>2, <1>5, <1>6, <1>7, <1>8 DEF Holds, Held, Kept

\* One run has the lease.
LEMMA OneHolds ==
    ASSUME Inv, NEW r \in Run, NEW q \in Run, Beyond(r), Beyond(q), ~disturbed
    PROVE  r = q
BY DEF Inv, RunInv, HoldsInv, Holds

\* What a run does to the others: nothing, or they are behind the lease.
LEMMA ActFrame ==
    ASSUME TypeOK, NEW r \in Run, Act(r), NEW q \in Run, q # r
    PROVE  /\ pc'[q] = pc[q] /\ me'[q] = me[q]
           /\ lease' = q <=> lease = q
           /\ disturbed => disturbed'
<1> USE DEF Goto, cluster
<1>1. ASSUME End(r)
      PROVE  pc'[q] = pc[q] /\ me'[q] = me[q] /\ (lease' = q <=> lease = q)
  BY <1>1, NoRunIsNobody DEF End, TypeOK
<1>2. CASE \E c \in Commands, t \in Targets : Begin(r, c, t)
  BY <1>2 DEF Begin, TypeOK
<1>3. CASE Look(r) \/ Reread(r) \/ Ask(r) \/ Record(r)
  BY <1>3 DEF Look, Reread, Ask, Record, TypeOK
<1>4. CASE Acquire(r)
  BY <1>4, NoRunIsNobody DEF Acquire, TypeOK
<1>5. CASE RecordFails(r) \/ HelmFails(r) \/ HelmFailsMoved(r) \/ CheckRecords(r) \/ Succeed(r) \/ Stop(r)
  <2>1. End(r)
    BY <1>5, Zenon DEF RecordFails, HelmFails, HelmFailsMoved, CheckRecords, Succeed, Stop
  <2>2. disturbed => disturbed'
    BY <1>5, Zenon DEF RecordFails, HelmFails, HelmFailsMoved, CheckRecords, Succeed, Stop
  <2> QED
    BY <1>1, <2>1, <2>2
<1>6. CASE Helm(r) \/ Probe(r) \/ Move(r)
  BY <1>6 DEF Helm, Probe, Move, TypeOK
<1>7. CASE MoveGone(r) \/ Apply(r) \/ Verify(r) \/ Settle(r) \/ CheckPasses(r)
  BY <1>7 DEF MoveGone, Apply, Verify, Settle, CheckPasses, TypeOK
<1> QED
  BY <1>2, <1>3, <1>4, <1>5, <1>6, <1>7 DEF Act

\* A run without the lease does nothing to the tables and the record, and moves
\* the images within a generation, or is not held off any more.
LEMMA ActBenign ==
    ASSUME TypeOK, NEW r \in Run, Local(r), ~Beyond(r), Act(r), ~disturbed'
    PROVE  Benign
<1> USE DEF Beyond, Local, Held
<1>1. ASSUME UNCHANGED cluster PROVE Benign
  BY <1>1 DEF cluster, Benign
<1>2. CASE \E c \in Commands, t \in Targets : Begin(r, c, t)
  BY <1>1, <1>2 DEF Begin
<1>3. CASE Look(r) \/ Acquire(r) \/ Reread(r) \/ Ask(r) \/ Probe(r) \/ MoveGone(r) \/ Verify(r)
           \/ CheckPasses(r) \/ Stop(r)
  BY <1>1, <1>3 DEF Look, Acquire, Reread, Ask, Probe, MoveGone, Verify, CheckPasses, Stop
<1>4. CASE Record(r) \/ RecordFails(r) \/ Move(r) \/ Apply(r) \/ Settle(r)
  BY <1>4 DEF Record, RecordFails, Move, Apply, Settle
<1>5. CASE Helm(r)
  <2>1. Gen(installed) = Gen(me[r].target)
    BY <1>5 DEF Helm, Strays
  <2> QED
    BY <1>5, <2>1 DEF Helm, Benign
<1>6. CASE HelmFails(r)
  <2>1. ~Resets(me[r])
    BY <1>6 DEF HelmFails, Resets
  <2> QED
    BY <1>6, <2>1 DEF HelmFails, Benign
<1>7. CASE HelmFailsMoved(r)
  <2>1. Gen(installed) = Gen(me[r].target)
    BY <1>7 DEF HelmFailsMoved, Strays
  <2> QED
    BY <1>7, <2>1 DEF HelmFailsMoved, Between, Benign
<1>8. CASE CheckRecords(r)
  BY <1>8 DEF CheckRecords
<1>9. CASE Succeed(r)
  BY <1>9 DEF Succeed, Benign
<1> QED
  BY <1>2, <1>3, <1>4, <1>5, <1>6, <1>7, <1>8, <1>9 DEF Act

\* So whatever a run does, the others are as they were.
LEMMA Others ==
    ASSUME Inv, NEW r \in Run, Act(r), NEW q \in Run, q # r
    PROVE  RunInv(q)'
<1>1. /\ pc'[q] = pc[q] /\ me'[q] = me[q]
      /\ lease' = q <=> lease = q
      /\ disturbed => disturbed'
  BY ActFrame DEF Inv
<1>2. Local(q)'
  BY <1>1 DEF Inv, RunInv, Local, Beyond
<1>3. HoldsInv(q)'
  <2>1. CASE disturbed' \/ ~Beyond(q)
    BY <1>1, <2>1 DEF HoldsInv, Beyond
  <2>2. CASE ~disturbed' /\ Beyond(q)
    <3>1. ~Beyond(r)
      BY <1>1, <2>2, OneHolds
    <3>2. Benign
      BY <2>2, <3>1, ActBenign DEF Inv, RunInv
    <3> QED
      BY <1>1, <3>2, BenignHolds DEF Inv, RunInv
  <2> QED
    BY <2>1, <2>2
<1> QED
  BY <1>2, <1>3 DEF RunInv

-----------------------------------------------------------------------------
(***************************************************************************)
(* The steps of the run itself.                                            *)
(***************************************************************************)

\* The tables are as they were.
LEMMA SameTables ==
    ASSUME Inv, UNCHANGED cluster, disturbed => disturbed'
    PROVE  TablesInv' /\ AgreedInv'
<1>1. TablesInv'
  BY DEF Inv, TablesInv, Kept, cluster
<1>2. AgreedInv'
  BY DEF Inv, AgreedInv, DropsOnlyAgreed, cluster
<1> QED
  BY <1>1, <1>2

\* The agreement to what was dropped and moved aside does not hang on the rest.
LEMMA SameAgreed ==
    ASSUME Inv, UNCHANGED <<aside, lost>>
    PROVE  AgreedInv'
BY DEF Inv, AgreedInv, DropsOnlyAgreed

LEMMA EarlySteps ==
    ASSUME Inv, NEW r \in Run,
           \/ \E c \in Commands, t \in Targets : Begin(r, c, t)
           \/ Look(r) \/ Acquire(r) \/ Reread(r) \/ Ask(r)
    PROVE  RunInv(r)' /\ TablesInv' /\ AgreedInv'
<1> USE DEF Goto
<1>1. UNCHANGED cluster /\ disturbed' = disturbed
  BY Zenon DEF Begin, Look, Acquire, Reread, Ask
<1>2. TablesInv' /\ AgreedInv'
  BY <1>1, SameTables
<1>3. Local(r) /\ TypeOK
  BY DEF Inv, RunInv
<1>4. CASE \E c \in Commands, t \in Targets : Begin(r, c, t)
  <2>1. PICK c \in Commands, t \in Targets : Begin(r, c, t)
    BY <1>4
  <2>2. pc'[r] = "look" /\ lease' # r
    BY <1>3, <2>1 DEF Begin, Local, Beyond, TypeOK
  <2>3. me'[r].found = "none" /\ me'[r].clears = FALSE
    <3>1. PICK m : /\ m.found = "none" /\ m.clears = FALSE
                   /\ me' = [me EXCEPT ![r] = m]
      BY <2>1 DEF Begin, NoRun
    <3> QED
      BY <1>3, <3>1 DEF TypeOK
  <2> QED
    BY <1>2, <2>2, <2>3 DEF RunInv, Local, HoldsInv, Beyond, Early, Held, Checked, Resets
<1>5. CASE Look(r)
  <2>1. pc[r] = "look" /\ lease' # r
    BY <1>3, <1>5 DEF Look, Local, Beyond
  <2>2. PICK untold \in BOOLEAN :
           LET relevant == Present(me[r].rec) \/ Crosses(installed, me[r].target) \/ untold
           IN  /\ me' = [me EXCEPT ![r].relevant = relevant, ![r].denied = FALSE,
                                   ![r].rec = NoMarker]
               /\ pc' = [pc EXCEPT ![r] = IF relevant THEN "lease" ELSE "helm"]
    BY <1>5 DEF Look
  <2>3. /\ me'[r].found = "none" /\ me'[r].clears = FALSE
        /\ (pc'[r] = "lease" /\ me'[r].relevant) \/ (pc'[r] = "helm" /\ me'[r].relevant = FALSE)
    BY <1>3, <2>1, <2>2 DEF TypeOK, Decisions, Local, Early, Checked, Present, Crosses
  <2> QED
    BY <1>2, <2>1, <2>3 DEF RunInv, Local, HoldsInv, Beyond, Early, Held, Checked, Resets
<1>6. CASE Acquire(r)
  <2>1. pc[r] = "lease" /\ pc'[r] = "reread" /\ me' = me /\ lease' = r
    BY <1>3, <1>6 DEF Acquire, TypeOK
  <2> QED
    BY <1>2, <1>3, <2>1 DEF RunInv, Local, HoldsInv, Holds, Beyond, Early, Held, Checked, Resets
<1>7. CASE Reread(r)
  <2>1. /\ pc[r] = "reread" /\ pc'[r] = "ask" /\ lease' = lease
        /\ ~OverMarker(me[r], marker)
        /\ me'[r] = [me[r] EXCEPT !.rec = marker]
    BY <1>3, <1>7 DEF Reread, TypeOK
  <2>2. ~disturbed => lease = r
    BY <1>3, <2>1 DEF Inv, RunInv, HoldsInv, Holds, Local, Beyond
  <2>3. /\ me'[r].rec = marker /\ ~OverMarker(me'[r], marker)
        /\ me'[r].relevant = me[r].relevant /\ me'[r].found = "none" /\ me'[r].clears = me[r].clears
    BY <1>3, <2>1 DEF TypeOK, Decisions, OverMarker, Local, Early, Checked
  <2>4. Local(r)'
    BY <1>3, <2>1, <2>3 DEF Local, Beyond, Early, Held, Checked, Resets
  <2>5. HoldsInv(r)'
    BY <1>1, <1>3, <2>1, <2>2, <2>3, <2>4
       DEF HoldsInv, Holds, Beyond, Local, Early, Held, Checked, cluster
  <2> QED
    BY <1>2, <2>4, <2>5 DEF RunInv
<1>8. CASE Ask(r)
  <2> DEFINE m == [me[r] EXCEPT !.found = events]
             agreed == Resets(m) /\ m.found = "string"
  <2>0. agreed \in BOOLEAN
    BY DEF Resets
  <2>1. /\ pc[r] = "ask" /\ pc'[r] = IF Resets(m) THEN "record" ELSE "helm"
        /\ lease' = lease
        /\ ~Refused(me[r], events)
        /\ me'[r] = [m EXCEPT !.agreed = agreed]
    BY <1>3, <1>8 DEF Ask, TypeOK
  <2>asked. /\ m \in [cmd : {"upgrade", "rollback", "deploy"}, target : {"old", "new"},
                  denied : BOOLEAN, relevant : BOOLEAN, rec : Marker, prev : Marker,
                  found : {events}, agreed : BOOLEAN, moved : AsideName \cup {NoName},
                  clears : BOOLEAN]
        /\ m.rec = me[r].rec /\ m.found = events
        /\ m.relevant = me[r].relevant /\ m.clears = me[r].clears
        /\ m.cmd = me[r].cmd /\ m.target = me[r].target
    BY <1>3 DEF TypeOK, Decisions
  <2>fields. /\ \A n \in {"rec", "found", "relevant", "clears", "cmd", "target"} : me'[r][n] = m[n]
        /\ me'[r].agreed = agreed
    <3> HIDE DEF m, agreed
    <3> QED
      BY <2>1, <2>asked
  <2>2. /\ me'[r].rec = me[r].rec /\ me'[r].found = events
        /\ me'[r].relevant = me[r].relevant /\ me'[r].clears = me[r].clears
        /\ me'[r].cmd = me[r].cmd /\ me'[r].target = me[r].target
        /\ Resets(me'[r]) /\ me'[r].found = "string" => me'[r].agreed
        /\ Resets(m) <=> Resets(me'[r])
    <3>1. Resets(m) <=> Resets(me'[r])
      BY <2>fields DEF Resets
    <3> HIDE DEF m
    <3> QED
      BY <2>asked, <2>fields, <3>1
  <2>3. /\ OverMarker(me[r], marker) = OverMarker(me'[r], marker)
        /\ ~Refused(me'[r], events)
    BY <2>1, <2>2 DEF OverMarker, Refused
  <2>4. me[r].relevant /\ ~me[r].clears /\ pc'[r] \in {"record", "helm"}
        /\ (pc'[r] = "helm" => ~Resets(me'[r]))
    BY <1>3, <2>1, <2>2 DEF Local, Held, Checked, TypeOK, Decisions
  <2>5. events # "none"
    BY <1>3 DEF TypeOK, Live, Schema
  <2> HIDE DEF m
  <2>6. Local(r)'
    BY <1>3, <2>1, <2>2, <2>3, <2>4, <2>5 DEF Local, Beyond, Early, Held, Checked
  <2>7. HoldsInv(r)'
    <3> SUFFICES ASSUME ~disturbed PROVE Holds(r)'
      BY <1>1 DEF HoldsInv
    <3>1. Holds(r)
      BY <2>1, <2>4 DEF Inv, RunInv, HoldsInv, Beyond
    <3>2. marker' = marker /\ events' = events
      BY <1>1 DEF cluster
    <3> QED
      BY <2>1, <2>2, <2>3, <2>4, <3>1, <3>2 DEF Holds, Held, Checked
  <2> QED
    BY <1>2, <2>6, <2>7 DEF RunInv
<1> QED
  BY <1>4, <1>5, <1>6, <1>7, <1>8

\* A record keeps the consent of the one before it where it is still needed.
LEMMA RecordKeeps ==
    ASSUME Inv, NEW r \in Run, pc[r] = "record", ~disturbed, NEW record \in Records(me[r]),
           NEW n \in AsideName, aside[n].gen = "string", events # "json"
    PROVE  record = marker /\ Kept(record, n)
<1>1. Kept(marker, n) /\ events = "missing"
  BY DEF Inv, TablesInv, Kept
<1>2. Holds(r) /\ Resets(me[r]) /\ me[r] \in Decisions
  BY DEF Inv, RunInv, HoldsInv, Local, Beyond, Held, TypeOK
<1>3. me[r].rec = marker /\ marker.action = "reset" /\ me[r].found # "string"
  BY <1>1, <1>2 DEF Holds, Held, Kept, MayDrop, Schema
<1>4. record = marker
  BY <1>3 DEF Records
<1> QED
  BY <1>1, <1>4

\* What is recorded for a reset, and what it names.
LEMMA RecordNames ==
    ASSUME Inv, NEW r \in Run, pc[r] = "record", NEW record \in Records(me[r])
    PROVE  /\ record \in Marker /\ Present(record)
           /\ me[r].found = "string" => record.action = "reset" /\ record.name \in Free
<1>1. record \in Marker
  BY RecordTypes DEF Inv, TypeOK
<1>2. ASSUME me[r].found = "string"
      PROVE  record.action = "reset" /\ record.name \in Free
  BY <1>2 DEF Records, Names
<1>3. Present(record)
  BY <1>2 DEF Records, Present, NoMarker, Create
<1> QED
  BY <1>1, <1>2, <1>3

LEMMA RecordStep ==
    ASSUME Inv, NEW r \in Run, Record(r) \/ RecordFails(r)
    PROVE  RunInv(r)' /\ TablesInv' /\ AgreedInv'
<1>0. /\ TypeOK /\ Local(r) /\ pc[r] = "record" /\ Resets(me[r]) /\ me[r].relevant
      /\ me[r] \in Decisions
  BY DEF Inv, RunInv, Record, RecordFails, Local, Held, TypeOK
<1>1. /\ UNCHANGED <<events, aside, lost, installed, running, job, disturbed>>
      /\ marker' \in Records(me[r])
  BY DEF Record, RecordFails
<1>2. AgreedInv'
  BY <1>1, SameAgreed
<1>3. ASSUME ~disturbed, NEW n \in AsideName, aside[n].gen = "string", events # "json"
      PROVE  marker' = marker /\ Kept(marker, n)
  BY <1>0, <1>1, <1>3, RecordKeeps
<1>4. TablesInv'
  BY <1>1, <1>3 DEF Inv, TablesInv, Kept
<1>5. CASE RecordFails(r)
  <2>1. End(r)
    BY <1>5 DEF RecordFails
  <2> QED
    BY <1>0, <1>2, <1>4, <2>1, Ends
<1>6. CASE Record(r)
  <2>1. PICK record \in Records(me[r]) :
           marker' = record /\ me' = [me EXCEPT ![r].rec = record, ![r].prev = me[r].rec]
    BY <1>6 DEF Record
  <2>2. /\ me'[r] = [me[r] EXCEPT !.rec = record, !.prev = me[r].rec]
        /\ pc'[r] = "helm" /\ lease' = lease
    BY <1>0, <1>6, <2>1 DEF Record, Goto, TypeOK
  <2>3. /\ me'[r].rec = marker' /\ me'[r].prev = me[r].rec
        /\ me'[r].cmd = me[r].cmd /\ me'[r].target = me[r].target
        /\ me'[r].relevant = me[r].relevant /\ me'[r].found = me[r].found
        /\ me'[r].clears = me[r].clears /\ me'[r].agreed = me[r].agreed
    BY <1>0, <2>1, <2>2 DEF TypeOK, Decisions
  <2>4. /\ Resets(me'[r])
        /\ \A held : Refused(me'[r], held) <=> Refused(me[r], held)
        /\ ~OverMarker(me'[r], marker')
    BY <1>0, <2>3 DEF Resets, Refused, OverMarker
  <2>5. Local(r)'
    BY <1>0, <2>2, <2>3, <2>4 DEF Local, Beyond, Early, Held, Checked, Resets
  <2>6. HoldsInv(r)'
    <3> SUFFICES ASSUME ~disturbed PROVE Holds(r)'
      BY <1>1 DEF HoldsInv
    <3>1. Holds(r)
      BY <1>0 DEF Inv, RunInv, HoldsInv, Beyond
    <3>2. Present(marker') /\ (me[r].found = "string" => marker'.action = "reset" /\ marker'.name \in Free)
      BY <1>0, <1>1, RecordNames
    <3>3. ASSUME NEW n \in AsideName, aside[n].gen = "string", events # "json"
          PROVE  Kept(me[r].rec, n)
      BY <1>0, <1>3, <3>1, <3>3 DEF Holds, Held
    <3>4. Free' = Free
      BY <1>1 DEF Free
    <3>5. events' = events /\ aside' = aside /\ lease' = r
      BY <1>1, <2>2, <3>1 DEF Holds
    <3>6. \A n \in AsideName :
             (aside[n].gen = "string" => events = "json" \/ Kept(me[r].prev, n))'
      BY <1>1, <2>3, <3>3 DEF Kept, MayDrop
    <3> QED
      BY <1>0, <2>2, <2>3, <2>4, <3>1, <3>2, <3>4, <3>5, <3>6 DEF Holds, Held, Checked, Local
  <2> QED
    BY <1>2, <1>4, <2>5, <2>6 DEF RunInv
<1> QED
  BY <1>5, <1>6

\* Helm does not get to its end.
LEMMA HelmFailsStep ==
    ASSUME Inv, NEW r \in Run, HelmFails(r)
    PROVE  RunInv(r)' /\ TablesInv' /\ AgreedInv'
<1>1. /\ UNCHANGED <<events, aside, lost, installed, running, job, disturbed>>
      /\ End(r) /\ pc[r] = "helm"
      /\ marker' = marker \/ (Resets(me[r]) /\ marker' = me[r].prev)
  BY DEF HelmFails
<1>2. RunInv(r)' /\ AgreedInv'
  BY <1>1, Ends, SameAgreed DEF Inv
<1>3. TablesInv'
  <2> SUFFICES ASSUME ~disturbed, NEW n \in AsideName
               PROVE  /\ aside[n].gen # "json"
                      /\ aside[n].gen = "string" => events = "json" \/ Kept(marker', n)
    BY <1>1 DEF TablesInv, Kept
  <2>1. CASE marker' = marker
    BY <2>1 DEF Inv, TablesInv
  <2>2. CASE Resets(me[r]) /\ marker' = me[r].prev
    <3>1. me[r].relevant
      BY <2>2 DEF Inv, RunInv, Local, Resets
    <3>2. Holds(r)
      BY <1>1, <3>1 DEF Inv, RunInv, HoldsInv, Beyond
    <3> QED
      BY <1>1, <2>2, <3>2 DEF Inv, TablesInv, Holds
  <2> QED
    BY <1>1, <2>1, <2>2
<1> QED
  BY <1>2, <1>3

\* The images move: within the table ClickHouse holds, or under a record.
LEMMA HelmTables ==
    ASSUME Inv, NEW r \in Run, pc[r] = "helm", ~disturbed, ~Strays(r),
           NEW n \in AsideName, aside[n].gen = "string", events # "json"
    PROVE  Gen(me[r].target) = "json"
<1>1. Kept(marker, n)
  BY DEF Inv, TablesInv
<1>2. CASE ~me[r].relevant
  BY <1>1, <1>2 DEF Strays, Kept
<1>3. CASE me[r].relevant
  <2>1. ~OverMarker(me[r], marker)
    BY <1>3 DEF Inv, RunInv, HoldsInv, Beyond, Holds, Held
  <2>2. Present(marker)
    BY <1>1 DEF Kept, MayDrop, Present, NoMarker
  <2> QED
    BY <2>1, <2>2 DEF OverMarker
<1> QED
  BY <1>2, <1>3

LEMMA HelmMoves ==
    ASSUME Inv, NEW r \in Run, pc[r] = "helm",
           UNCHANGED <<events, aside, lost, marker>>,
           installed' = me[r].target, job' \in {job, Gen(me[r].target)},
           disturbed' = (disturbed \/ Strays(r))
    PROVE  TablesInv' /\ AgreedInv'
<1>1. AgreedInv'
  BY SameAgreed
<1>2. TablesInv'
  <2> SUFFICES ASSUME ~disturbed, ~Strays(r), NEW n \in AsideName
               PROVE  (/\ aside[n].gen # "json"
                       /\ aside[n].gen = "string" => events = "json" \/ Kept(marker, n))'
    BY Zenon DEF TablesInv
  <2>1. ASSUME aside[n].gen = "string", events # "json" PROVE Kept(marker, n)'
    BY <2>1, HelmTables DEF Inv, TablesInv, Kept, MayDrop
  <2> QED
    BY <2>1 DEF Inv, TablesInv
<1> QED
  BY <1>1, <1>2

LEMMA HelmStep ==
    ASSUME Inv, NEW r \in Run, Helm(r)
    PROVE  RunInv(r)' /\ TablesInv' /\ AgreedInv'
<1>0. TypeOK /\ Local(r) /\ pc[r] = "helm" /\ me[r] \in Decisions
  BY DEF Inv, RunInv, Helm, TypeOK
<1>1. /\ UNCHANGED <<events, aside, lost, marker, lease>>
      /\ installed' = me[r].target /\ running' = Gen(installed') /\ job' = Gen(installed')
      /\ disturbed' = (disturbed \/ Strays(r))
  BY DEF Helm
<1>2. TablesInv' /\ AgreedInv'
  BY <1>0, <1>1, HelmMoves
<1>3. CASE /\ Resets(me[r]) \/ Finishes(me[r])
           /\ Goto(r, "probe")
           /\ me' = [me EXCEPT ![r].prev = NoMarker]
  <2>1. /\ pc'[r] = "probe"
        /\ me'[r] = [me[r] EXCEPT !.prev = NoMarker]
    BY <1>0, <1>3 DEF Goto, TypeOK
  <2>2. /\ me'[r].rec = me[r].rec
        /\ me'[r].cmd = me[r].cmd /\ me'[r].target = me[r].target
        /\ me'[r].relevant = me[r].relevant /\ me'[r].found = me[r].found
        /\ me'[r].clears = me[r].clears /\ me'[r].agreed = me[r].agreed
    BY <1>0, <2>1 DEF Decisions
  <2>3. /\ Resets(me'[r]) <=> Resets(me[r])
        /\ Finishes(me'[r]) <=> Finishes(me[r])
        /\ \A m : OverMarker(me'[r], m) <=> OverMarker(me[r], m)
    BY <2>2 DEF Resets, Finishes, OverMarker
  <2>4. me[r].relevant
    BY <1>0, <1>3 DEF Local, Resets, Finishes
  <2>5. Local(r)'
    BY <1>0, <1>1, <1>3, <2>1, <2>2, <2>3, <2>4 DEF Local, Beyond, Early, Held, Checked
  <2>6. HoldsInv(r)'
    <3> SUFFICES ASSUME ~disturbed PROVE Holds(r)'
      BY <1>1, Zenon DEF HoldsInv
    <3>1. Holds(r)
      BY <1>0, <2>4 DEF Inv, RunInv, HoldsInv, Beyond
    <3>2. Gen(me[r].target) = "json"
      BY <1>0, <1>3, <3>1 DEF Resets, Finishes, Holds, Held, OverMarker
    <3>3. Free' = Free
      BY <1>1 DEF Free
    <3> QED
      BY <1>0, <1>1, <2>1, <2>2, <2>3, <3>1, <3>2, <3>3 DEF Holds, Held, Checked, Local
  <2> QED
    BY <1>2, <2>5, <2>6 DEF RunInv
<1>4. CASE Goto(r, "check") /\ me' = [me EXCEPT ![r] = Spent(me[r], FALSE)]
  <2>1. pc'[r] = "check" /\ me'[r] = Spent(me[r], FALSE)
    BY <1>0, <1>4 DEF Goto, TypeOK
  <2>2. /\ me'[r].cmd = me[r].cmd /\ me'[r].relevant = me[r].relevant
        /\ me'[r].found = "none" /\ me'[r].clears = FALSE
    BY <2>1 DEF Spent, NoRun
  <2>3. Local(r)'
    BY <1>0, <1>1, <2>1, <2>2 DEF Local, Beyond, Early, Held, Checked, Resets
  <2>4. HoldsInv(r)'
    <3> SUFFICES ASSUME ~disturbed, me[r].relevant PROVE Holds(r)'
      BY <1>1, <2>2, Zenon DEF HoldsInv, Beyond
    <3>1. Holds(r)
      BY <1>0 DEF Inv, RunInv, HoldsInv, Beyond
    <3>2. me[r].cmd # "upgrade" => marker = NoMarker
      BY <1>0, <3>1 DEF Holds, Held, OverMarker, Present
    <3> QED
      BY <1>1, <2>1, <2>2, <3>1, <3>2 DEF Holds, Held, Checked
  <2> QED
    BY <1>2, <2>3, <2>4 DEF RunInv
<1> QED
  BY <1>3, <1>4 DEF Helm

LEMMA HelmFailsMovedStep ==
    ASSUME Inv, NEW r \in Run, HelmFailsMoved(r)
    PROVE  RunInv(r)' /\ TablesInv' /\ AgreedInv'
<1>1. TablesInv' /\ AgreedInv'
  BY HelmMoves DEF HelmFailsMoved
<1> QED
  BY <1>1, Ends DEF HelmFailsMoved, Inv

\* A step of the reset that only looks.
LEMMA LookingSteps ==
    ASSUME Inv, NEW r \in Run, Probe(r) \/ Verify(r) \/ CheckPasses(r)
    PROVE  RunInv(r)' /\ TablesInv' /\ AgreedInv'
<1>0. TypeOK /\ Local(r) /\ me[r] \in Decisions
  BY DEF Inv, RunInv, TypeOK
<1>1. UNCHANGED cluster /\ disturbed' = disturbed /\ lease' = lease /\ me' = me
  BY DEF Probe, Verify, CheckPasses
<1>2. TablesInv' /\ AgreedInv'
  BY <1>1, SameTables
<1>3. Free' = Free
  BY <1>1 DEF Free, cluster
<1>4. ASSUME ~disturbed, Beyond(r) PROVE Holds(r)
  BY <1>4 DEF Inv, RunInv, HoldsInv
<1>5. CASE Probe(r)
  <2>1. pc[r] = "probe" /\ me[r].relevant
        /\ \/ pc'[r] = "settle" /\ events = "json"
           \/ pc'[r] = "move" /\ me[r].found = "string" /\ Resets(me[r])
           \/ pc'[r] = "apply"
    BY <1>0, <1>5 DEF Probe, Goto, TypeOK, Local, Held, ToMove, Finishes
  <2>2. Local(r)'
    BY <1>0, <1>1, <2>1 DEF Local, Beyond, Early, Held, Checked
  <2>3. HoldsInv(r)'
    BY <1>1, <1>3, <1>4, <2>1 DEF HoldsInv, Beyond, Holds, Held, Checked, cluster
  <2> QED
    BY <1>2, <2>2, <2>3 DEF RunInv
<1>6. CASE Verify(r)
  <2>1. pc[r] = "verify" /\ pc'[r] = "settle" /\ events = "json" /\ me[r].relevant
    BY <1>0, <1>6 DEF Verify, Goto, TypeOK, Local, Held
  <2>2. Local(r)'
    BY <1>0, <1>1, <2>1 DEF Local, Beyond, Early, Held, Checked
  <2>3. HoldsInv(r)'
    BY <1>1, <1>3, <1>4, <2>1 DEF HoldsInv, Beyond, Holds, Held, Checked, cluster
  <2> QED
    BY <1>2, <2>2, <2>3 DEF RunInv
<1>7. CASE CheckPasses(r)
  <2>1. pc[r] = "check" /\ pc'[r] = "clear"
        /\ (me[r].relevant /\ me[r].cmd # "deploy" => running = events)
    BY <1>0, <1>7 DEF CheckPasses, Goto, TypeOK, Fits
  <2>2. Local(r)'
    BY <1>0, <1>1, <2>1 DEF Local, Beyond, Early, Held, Checked
  <2>3. HoldsInv(r)'
    BY <1>1, <1>3, <1>4, <2>1 DEF HoldsInv, Beyond, Holds, Held, Checked, cluster
  <2> QED
    BY <1>2, <2>2, <2>3 DEF RunInv
<1> QED
  BY <1>5, <1>6, <1>7

\* The table is moved aside, where the record says.
LEMMA MoveStep ==
    ASSUME Inv, NEW r \in Run, Move(r) \/ MoveGone(r)
    PROVE  RunInv(r)' /\ TablesInv' /\ AgreedInv'
<1>0. /\ TypeOK /\ Local(r) /\ me[r] \in Decisions /\ pc[r] = "move" /\ me[r].relevant
      /\ Resets(me[r]) /\ me[r].found = "string" /\ me[r].agreed
  BY DEF Inv, RunInv, Local, Held, Move, MoveGone, TypeOK
<1>1. PICK n \in Names(me[r].rec.name) : me' = [me EXCEPT ![r].moved = n]
                                         /\ (Move(r) => aside' = [aside EXCEPT ![n] =
                                                [gen |-> events, agreed |-> me[r].agreed]])
  <2>1. CASE Move(r)
    BY <2>1 DEF Move
  <2>2. CASE MoveGone(r) /\ ~Move(r)
    BY <2>2 DEF MoveGone
  <2> QED
    BY <2>1, <2>2
<1>2. /\ pc'[r] = "apply" /\ me'[r] = [me[r] EXCEPT !.moved = n]
      /\ UNCHANGED <<lost, marker, installed, running, job, lease, disturbed>>
  BY <1>0, <1>1 DEF Move, MoveGone, Goto, cluster, TypeOK
<1>3. /\ me'[r].rec = me[r].rec
      /\ me'[r].cmd = me[r].cmd /\ me'[r].target = me[r].target
      /\ me'[r].relevant = me[r].relevant /\ me'[r].found = me[r].found
      /\ me'[r].clears = me[r].clears /\ me'[r].agreed = me[r].agreed
  BY <1>0, <1>2 DEF Decisions
<1>4. \A m : OverMarker(me'[r], m) <=> OverMarker(me[r], m)
  BY <1>3 DEF OverMarker
<1>5. Local(r)'
  BY <1>0, <1>2, <1>3 DEF Local, Beyond, Early, Held, Checked, Resets
<1>6. ~disturbed => Holds(r)
  BY <1>0 DEF Inv, RunInv, HoldsInv, Beyond
<1>7. HoldsInv(r)'
  BY <1>0, <1>2, <1>3, <1>4, <1>6 DEF HoldsInv, Holds, Held, Checked, Local
<1>8. CASE MoveGone(r)
  <2>1. TablesInv' /\ AgreedInv'
    BY <1>8, SameTables DEF MoveGone
  <2> QED
    BY <1>5, <1>7, <2>1 DEF RunInv
<1>9. CASE Move(r)
  <2>1. /\ n \in Free
        /\ aside' = [aside EXCEPT ![n] = [gen |-> events, agreed |-> me[r].agreed]]
        /\ events' = "missing"
    BY <1>1, <1>9 DEF Move, Names
  <2>2. AgreedInv'
    BY <1>0, <1>2, <2>1 DEF Inv, AgreedInv, DropsOnlyAgreed, TypeOK
  <2>3. TablesInv'
    <3> SUFFICES ASSUME ~disturbed, NEW k \in AsideName
                 PROVE  (/\ aside[k].gen # "json"
                         /\ aside[k].gen = "string" => Kept(marker, k))'
      BY <1>2 DEF TablesInv
    <3>1. /\ events = "string" /\ marker.action = "reset" /\ marker.name \in Free
          /\ me[r].rec = marker /\ Gen(installed) = "json" /\ job # "string"
      BY <1>0, <1>6 DEF Holds, Held, Schema
    <3>2. n = marker.name
      BY <1>1, <3>1 DEF Names
    <3>3. k # n => aside'[k] = aside[k] /\ aside[k].gen \notin {"string", "json"}
      BY <1>0, <2>1, <3>1 DEF Inv, TablesInv, Kept, TypeOK
    <3>4. k = n => aside'[k].gen = "string"
      BY <1>0, <2>1, <3>1 DEF TypeOK
    <3> QED
      BY <1>2, <2>1, <3>1, <3>2, <3>3, <3>4 DEF Kept, MayDrop
  <2> QED
    BY <1>5, <1>7, <2>2, <2>3 DEF RunInv
<1> QED
  BY <1>8, <1>9

LEMMA ApplyStep ==
    ASSUME Inv, NEW r \in Run, Apply(r)
    PROVE  RunInv(r)' /\ TablesInv' /\ AgreedInv'
<1>0. TypeOK /\ Local(r) /\ me[r] \in Decisions /\ pc[r] = "apply" /\ me[r].relevant
  BY DEF Inv, RunInv, Apply, Local, Held, TypeOK
<1>1. /\ UNCHANGED <<aside, lost, marker, installed, running, job, lease, me, disturbed>>
      /\ events' = IF events = "missing" THEN "json" ELSE events
      /\ pc'[r] = "verify"
  BY <1>0 DEF Apply, Goto, TypeOK
<1>2. AgreedInv'
  BY <1>1, SameAgreed
<1>3. TablesInv'
  BY <1>1 DEF Inv, TablesInv, Kept
<1>4. Local(r)'
  BY <1>0, <1>1 DEF Local, Beyond, Early, Held, Checked
<1>5. ~disturbed => Holds(r)
  BY <1>0 DEF Inv, RunInv, HoldsInv, Beyond
<1>6. HoldsInv(r)'
  BY <1>0, <1>1, <1>5 DEF HoldsInv, Holds, Held, Checked, Local
<1> QED
  BY <1>2, <1>3, <1>4, <1>6 DEF RunInv

LEMMA SettleStep ==
    ASSUME Inv, NEW r \in Run, Settle(r)
    PROVE  RunInv(r)' /\ TablesInv' /\ AgreedInv'
<1>0. TypeOK /\ Local(r) /\ me[r] \in Decisions /\ pc[r] = "settle" /\ me[r].relevant
  BY DEF Inv, RunInv, Settle, Local, Held, TypeOK
<1>1. PICK gone \in SUBSET Droppable(me[r]) :
         /\ aside' = [n \in AsideName |-> IF n \in gone THEN NoTable ELSE aside[n]]
         /\ lost' = lost \cup {aside[n] : n \in gone}
  BY DEF Settle
<1>2. /\ UNCHANGED <<events, marker, installed, running, job, lease, disturbed>>
      /\ pc'[r] = "check" /\ me'[r] = Spent(me[r], TRUE)
  BY <1>0 DEF Settle, Goto, TypeOK
<1>3. /\ me'[r].cmd = me[r].cmd /\ me'[r].relevant = me[r].relevant
      /\ me'[r].found = "none" /\ me'[r].clears
  BY <1>2 DEF Spent, NoRun
<1>4. AgreedInv'
  <2>1. \A n \in gone : n \in AsideName /\ aside[n].gen = "string" /\ aside[n] # NoTable
    BY <1>1 DEF Droppable, NoTable
  <2>2. \A n \in gone : aside[n].agreed
    BY <2>1 DEF Inv, AgreedInv
  <2>3. DropsOnlyAgreed'
    BY <1>1, <2>1, <2>2 DEF Inv, AgreedInv, DropsOnlyAgreed
  <2> QED
    BY <1>1, <2>3 DEF Inv, AgreedInv
<1>5. TablesInv'
  <2>1. \A n \in AsideName : aside'[n].gen \in {"json", "string"} => aside'[n] = aside[n]
    BY <1>1 DEF NoTable
  <2> QED
    BY <1>2, <2>1 DEF Inv, TablesInv, Kept
<1>6. Local(r)'
  BY <1>0, <1>2, <1>3 DEF Local, Beyond, Early, Held, Checked, Resets
<1>7. ~disturbed => Holds(r)
  BY <1>0 DEF Inv, RunInv, HoldsInv, Beyond
<1>8. me[r].cmd # "upgrade" /\ ~disturbed => marker = NoMarker
  BY <1>0, <1>7 DEF Holds, Held, OverMarker, Present
<1>9. HoldsInv(r)'
  BY <1>0, <1>2, <1>3, <1>7, <1>8 DEF HoldsInv, Holds, Held, Checked
<1> QED
  BY <1>4, <1>5, <1>6, <1>9 DEF RunInv

\* The last steps of a run.
LEMMA LastSteps ==
    ASSUME Inv, NEW r \in Run, CheckRecords(r) \/ Succeed(r) \/ Stop(r)
    PROVE  RunInv(r)' /\ TablesInv' /\ AgreedInv'
<1>0. TypeOK /\ Local(r) /\ End(r)
  BY Zenon DEF Inv, RunInv, CheckRecords, Succeed, Stop
<1>1. RunInv(r)'
  BY <1>0, Ends
<1>2. CASE Stop(r)
  BY <1>1, <1>2, SameTables DEF Stop
<1>3. CASE Succeed(r)
  <2>1. /\ UNCHANGED <<events, aside, lost, installed, running, job, disturbed>>
        /\ marker' = IF me[r].clears THEN NoMarker ELSE marker
        /\ pc[r] = "clear"
    BY <1>3 DEF Succeed
  <2>2. me[r].clears /\ ~disturbed => events = "json"
    BY <1>0, <2>1 DEF Inv, RunInv, Local, HoldsInv, Beyond, Holds
  <2>3. TablesInv'
    BY <2>1, <2>2 DEF Inv, TablesInv, Kept
  <2> QED
    BY <1>1, <2>1, <2>3, SameAgreed
<1>4. CASE CheckRecords(r)
  <2>1. /\ UNCHANGED <<events, aside, lost, installed, running, job>>
        /\ pc[r] = "check" /\ me[r].cmd = "deploy" /\ events = "missing"
    BY <1>4 DEF CheckRecords
  <2>2. disturbed' \/ (~disturbed /\ lease = r)
    BY <1>4, Zenon DEF CheckRecords
  <2>3. ASSUME ~disturbed' PROVE ~disturbed /\ marker = NoMarker
    BY <1>0, <2>1, <2>2, <2>3 DEF Inv, RunInv, Local, HoldsInv, Holds, Checked
  <2>4. TablesInv'
    BY <2>1, <2>3 DEF Inv, TablesInv, Kept, MayDrop, NoMarker
  <2> QED
    BY <1>1, <2>1, <2>4, SameAgreed
<1> QED
  BY <1>2, <1>3, <1>4

LEMMA Invariance == Spec => []Inv
<1>1. Inv /\ [Next]_vars => Inv'
  <2> SUFFICES ASSUME Inv, [Next]_vars PROVE Inv'
    OBVIOUS
  <2>1. TypeOK'
    BY StepTypes DEF Inv
  <2>2. CASE \E r \in Run : Act(r)
    <3>1. PICK r \in Run : Act(r)
      BY <2>2
    <3>2. RunInv(r)' /\ TablesInv' /\ AgreedInv'
      BY <3>1, EarlySteps, RecordStep, HelmFailsStep, HelmStep, HelmFailsMovedStep,
         LookingSteps, MoveStep, ApplyStep, SettleStep, LastSteps DEF Act
    <3>3. \A q \in Run : RunInv(q)'
      BY <3>1, <3>2, Others
    <3> QED
      BY <2>1, <3>2, <3>3 DEF Inv
  <2>3. CASE Job
    <3>1. Benign /\ UNCHANGED <<lost, lease, pc, me, disturbed>>
      BY <2>3 DEF Job, Benign
    <3>2. \A q \in Run : RunInv(q)'
      BY <3>1, BenignHolds DEF Inv, RunInv, Local, Beyond
    <3>3. TablesInv' /\ AgreedInv'
      BY <3>1, BenignTables, SameAgreed DEF Inv, Benign
    <3> QED
      BY <2>1, <3>2, <3>3 DEF Inv
  <2>4. CASE Outlive \/ Meddle
    <3>1. disturbed' /\ UNCHANGED <<aside, lost, pc, me>> /\ lease' \in {lease, Nobody}
      BY <2>4 DEF Outlive, Meddle, cluster
    <3>2. \A q \in Run : RunInv(q)'
      BY <3>1, NoRunIsNobody DEF Inv, RunInv, Local, HoldsInv, Beyond
    <3>3. TablesInv' /\ AgreedInv'
      BY <3>1, SameAgreed DEF TablesInv
    <3> QED
      BY <2>1, <3>2, <3>3 DEF Inv
  <2>5. CASE UNCHANGED vars
    <3>1. UNCHANGED <<cluster, lease, pc, me, disturbed>>
      BY <2>5 DEF vars
    <3>2. \A q \in Run : RunInv(q)'
      BY <3>1 DEF Inv, RunInv, Local, HoldsInv, Beyond, Holds, Kept, Free, cluster
    <3> QED
      BY <2>1, <3>1, <3>2, SameTables DEF Inv
  <2> QED
    BY <2>2, <2>3, <2>4, <2>5 DEF Next
<1> QED
  BY Inits, <1>1, PTL DEF Spec

-----------------------------------------------------------------------------
(***************************************************************************)
(* What holds of it.                                                       *)
(***************************************************************************)

\* Only tables whose discarding was agreed to are dropped, with and without the
\* lease (settleAsideOf, mayDrop).
THEOREM DropsAgreed == Spec => []DropsOnlyAgreed
BY Invariance, PTL DEF Inv, AgreedInv

\* The lease keeps the new table from being moved aside (kube_lock.go).
THEOREM NewStays == Spec => []NewTableStays
<1>1. Inv => NewTableStays
  BY DEF Inv, TablesInv, NewTableStays
<1> QED
  BY Invariance, <1>1, PTL

\* A table a run left aside is named, with the consent to drop it, by the record.
THEOREM ConsentStays == Spec => []ConsentSurvives
<1>1. Inv => ConsentSurvives
  BY DEF Inv, TablesInv, Kept, ConsentSurvives
<1> QED
  BY Invariance, <1>1, PTL

\* A reset that is half done is recorded in the cluster (writeResetMarker).
THEOREM HalfDoneStaysRecorded == Spec => []HalfDoneIsRecorded
<1>1. Inv => HalfDoneIsRecorded
  BY DEF Inv, TablesInv, Kept, MayDrop, Present, NoMarker, HalfDoneIsRecorded
<1> QED
  BY Invariance, <1>1, PTL

\* A run with the lease that reports success leaves services that write the
\* table ClickHouse holds (releaseImagesProblem).
THEOREM SuccessHolds == Spec => SuccessIsTrue
<1> DEFINE Success == \A r \in Run :
              Succeed(r) /\ me[r].relevant /\ me[r].cmd # "deploy" /\ ~disturbed =>
                  events = Gen(installed) /\ running = events
<1>1. Inv => [Success]_vars
  <2> SUFFICES ASSUME Inv, NEW r \in Run, Succeed(r), me[r].relevant, me[r].cmd # "deploy",
                      ~disturbed
               PROVE  events = Gen(installed) /\ running = events
    OBVIOUS
  <2>1. pc[r] = "clear" /\ Holds(r)
    BY DEF Succeed, Inv, RunInv, HoldsInv, Beyond
  <2> QED
    BY <2>1 DEF Holds
<1> QED
  BY <1>1, Invariance, PTL DEF SuccessIsTrue

\* A run with the lease moves the release across the reset with a record only
\* (helmFailedAfterRecord, undoMarker).
THEOREM MovesAreFit == Spec => MovesFit
<1> DEFINE Fit == \A r \in Run :
              (Helm(r) \/ HelmFailsMoved(r)) /\ me[r].relevant /\ ~disturbed
              /\ me[r].found # "missing" => events = Gen(me[r].target) \/ Present(marker')
<1>1. Inv => [Fit]_vars
  <2> SUFFICES ASSUME Inv, NEW r \in Run, Helm(r) \/ HelmFailsMoved(r), me[r].relevant,
                      ~disturbed, me[r].found # "missing"
               PROVE  events = Gen(me[r].target) \/ Present(marker')
    OBVIOUS
  <2>1. pc[r] = "helm" /\ marker' = marker
    BY DEF Helm, HelmFailsMoved
  <2>2. Holds(r) /\ Local(r) /\ me[r] \in Decisions
    BY <2>1 DEF Inv, RunInv, HoldsInv, Beyond, TypeOK
  <2>3. me[r].found \in Schema /\ events = me[r].found /\ ~Refused(me[r], me[r].found)
    BY <2>1, <2>2 DEF Local, Holds, Refused, Decisions, Live
  <2>4. Gen(me[r].target) \in Schema
    BY <2>2, GenTypes DEF Decisions
  <2>5. Resets(me[r]) => Present(marker)
    BY <2>1, <2>2 DEF Holds
  <2> QED
    BY <2>1, <2>3, <2>4, <2>5 DEF Refused, Resets, Schema
<1> QED
  BY <1>1, Invariance, PTL DEF MovesFit

-----------------------------------------------------------------------------
(***************************************************************************)
(* The promise of the storage reset.                                       *)
(***************************************************************************)

\* The steps of resetKubernetesEvents.
Resetting == {"probe", "move", "apply", "verify", "settle"}

\* The record of a reset is there as long as its run works on it.
Marked == ~disturbed => \A r \in Run : pc[r] \in Resetting => Present(marker)

LEMMA MarkedInit == Init => Marked
BY DEF Init, Marked, Resetting

\* A run in those steps can touch the table, and so has the lease.
LEMMA ResettingBeyond ==
    ASSUME Inv, NEW r \in Run, pc[r] \in Resetting
    PROVE  Beyond(r)
BY DEF Inv, RunInv, Local, Beyond, Resetting, Held

\* The record outlives every step of the run that works on it.
LEMMA OwnMarked ==
    ASSUME Inv, Marked, NEW r \in Run, Act(r), ~disturbed, pc'[r] \in Resetting
    PROVE  Present(marker')
<1> USE DEF Goto, Resetting
<1>1. pc \in [Run -> Step]
  BY DEF Inv, TypeOK
<1>2. ASSUME End(r) PROVE FALSE
  BY <1>1, <1>2 DEF End
<1>3. CASE Helm(r)
  <2>1. pc[r] = "helm" /\ marker' = marker /\ (Resets(me[r]) \/ Finishes(me[r]))
    BY <1>1, <1>3 DEF Helm
  <2>2. me[r].found # "none" /\ Local(r)
    BY <2>1 DEF Inv, RunInv, Resets, Finishes
  <2>3. Holds(r)
    BY <2>1, <2>2 DEF Inv, RunInv, HoldsInv, Local, Beyond
  <2> QED
    BY <2>1, <2>3 DEF Holds, Held, Finishes
<1>4. CASE Probe(r) \/ Move(r) \/ MoveGone(r) \/ Apply(r) \/ Verify(r)
  <2>1. marker' = marker /\ pc[r] \in Resetting
    BY <1>4 DEF Probe, Move, MoveGone, Apply, Verify, cluster
  <2> QED
    BY <2>1 DEF Marked
<1>5. CASE \/ \E c \in Commands, t \in Targets : Begin(r, c, t)
           \/ Look(r) \/ Acquire(r) \/ Reread(r) \/ Ask(r) \/ Record(r)
           \/ Settle(r) \/ CheckPasses(r)
  BY <1>1, <1>5 DEF Begin, Look, Acquire, Reread, Ask, Record, Settle, CheckPasses
<1>6. CASE RecordFails(r) \/ HelmFails(r) \/ HelmFailsMoved(r) \/ CheckRecords(r)
           \/ Succeed(r) \/ Stop(r)
  BY <1>2, <1>6, Zenon DEF RecordFails, HelmFails, HelmFailsMoved, CheckRecords, Succeed, Stop
<1> QED
  BY <1>3, <1>4, <1>5, <1>6 DEF Act

\* A plane that is disturbed stays so.
LEMMA StaysDisturbed ==
    ASSUME TypeOK, NEW r \in Run, Act(r), disturbed
    PROVE  disturbed'
<1> USE DEF TypeOK
<1>1. CASE \/ \E c \in Commands, t \in Targets : Begin(r, c, t)
           \/ Look(r) \/ Acquire(r) \/ Reread(r) \/ Ask(r) \/ Record(r) \/ RecordFails(r)
           \/ HelmFails(r) \/ Probe(r) \/ Move(r) \/ MoveGone(r)
  BY <1>1 DEF Begin, Look, Acquire, Reread, Ask, Record, RecordFails, HelmFails, Probe, Move,
              MoveGone
<1>2. CASE Apply(r) \/ Verify(r) \/ Settle(r) \/ CheckPasses(r) \/ Succeed(r) \/ Stop(r)
  BY <1>2 DEF Apply, Verify, Settle, CheckPasses, Succeed, Stop
<1>3. CASE Helm(r) \/ HelmFailsMoved(r) \/ CheckRecords(r)
  BY <1>3 DEF Helm, HelmFailsMoved, CheckRecords
<1> QED
  BY <1>1, <1>2, <1>3 DEF Act

\* Nobody else touches it: the lease holds them off.
LEMMA MarkedStep ==
    ASSUME Inv, Marked, [Next]_vars
    PROVE  Marked'
<1> SUFFICES ASSUME ~disturbed', NEW q \in Run, pc'[q] \in Resetting
             PROVE  Present(marker')
  BY DEF Marked
<1>1. CASE \E r \in Run : Act(r)
  <2>1. PICK r \in Run : Act(r)
    BY <1>1
  <2>2. CASE q = r
    <3>1. ~disturbed
      BY <2>1, StaysDisturbed DEF Inv
    <3> QED
      BY <2>1, <2>2, <3>1, OwnMarked
  <2>3. CASE q # r
    <3>1. pc'[q] = pc[q] /\ ~disturbed
      BY <2>1, <2>3, ActFrame DEF Inv
    <3>2. Present(marker) /\ Beyond(q)
      BY <3>1, ResettingBeyond DEF Marked
    <3>3. ~Beyond(r)
      BY <2>3, <3>1, <3>2, OneHolds
    <3>4. Benign
      BY <2>1, <3>3, ActBenign DEF Inv, RunInv
    <3> QED
      BY <3>2, <3>4 DEF Benign
  <2> QED
    BY <2>2, <2>3
<1>2. CASE Job \/ UNCHANGED vars
  BY <1>2 DEF Job, vars, cluster, Marked
<1>3. CASE Outlive \/ Meddle
  BY <1>3 DEF Outlive, Meddle
<1> QED
  BY <1>1, <1>2, <1>3 DEF Next

\* While the lease holds everybody off, a run that works on the events table has
\* its record in the cluster (resetKubernetesEvents).
THEOREM MarkedInvariance == Spec => [](Inv /\ Marked)
BY Invariance, MarkedInit, MarkedStep, PTL DEF Spec

\* What a run may record says that a reset is unfinished.
LEMMA RecordsPresent ==
    ASSUME NEW m, NEW record \in Records(m)
    PROVE  Present(record)
BY DEF Records, Present, NoMarker, Create

\* The table a run moves is the one its operator was asked about.
LEMMA MovePromised ==
    ASSUME Inv, Marked, NEW r \in Run, Move(r)
    PROVE  \E n \in AsideName : Promise!MoveAside(n)
<1>1. PICK n \in Names(me[r].rec.name) :
         aside' = [aside EXCEPT ![n] = [gen |-> events, agreed |-> me[r].agreed]]
  BY DEF Move
<1>2. n \in AsideName /\ aside[n] = NoTable
  BY DEF Names, Free
<1>3. /\ pc[r] = "move" /\ events # "missing" /\ events' = "missing"
      /\ UNCHANGED <<lost, marker, disturbed>>
  BY DEF Move
<1>4. me[r].found = "string" /\ me[r].agreed
  BY <1>3 DEF Inv, RunInv, Local
<1>5. ASSUME ~disturbed PROVE Present(marker) /\ events = "string"
  <2>1. Holds(r)
    BY <1>3, <1>5, ResettingBeyond DEF Resetting, Inv, RunInv, HoldsInv
  <2> QED
    BY <1>3, <1>4, <1>5, <2>1 DEF Marked, Resetting, Holds, Schema
<1>6. \E agreed \in BOOLEAN :
         /\ events = "string" => agreed
         /\ aside' = [aside EXCEPT ![n] = [gen |-> events, agreed |-> agreed]]
  BY <1>1, <1>4 DEF Inv, TypeOK, Decisions
<1>7. Promise!MoveAside(n)
  BY <1>2, <1>3, <1>5, <1>6 DEF Promise!MoveAside, Promise!NoTable, NoTable
<1> QED
  BY <1>2, <1>7

\* What is dropped was agreed to, and the new table has taken its place.
LEMMA SettlePromised ==
    ASSUME Inv, Marked, NEW r \in Run, Settle(r)
    PROVE  \E gone \in SUBSET Promise!SetAside : Promise!Discard(gone)
<1>1. PICK gone \in SUBSET Droppable(me[r]) :
          /\ aside' = [n \in AsideName |-> IF n \in gone THEN NoTable ELSE aside[n]]
          /\ lost' = lost \cup {aside[n] : n \in gone}
  BY DEF Settle
<1>2. gone \in SUBSET Promise!SetAside /\ \A n \in gone : aside[n].agreed
  BY DEF Droppable, Promise!SetAside, Inv, AgreedInv, NoTable
<1>3. pc[r] = "settle" /\ UNCHANGED <<events, marker, disturbed>>
  BY DEF Settle
<1>4. ASSUME ~disturbed PROVE Present(marker) /\ events = "json"
  <2>1. Holds(r)
    BY <1>3, <1>4, ResettingBeyond DEF Resetting, Inv, RunInv, HoldsInv
  <2> QED
    BY <1>3, <1>4, <2>1 DEF Marked, Resetting, Holds
<1>5. Promise!Discard(gone)
  BY <1>1, <1>2, <1>3, <1>4 DEF Promise!Discard, Promise!NoTable, NoTable
<1> QED
  BY <1>2, <1>5

\* undoMarker puts the record before this run's back: it takes the record away
\* only when no table waits for the new one.
LEMMA UndoPromised ==
    ASSUME Inv, NEW r \in Run, HelmFails(r), ~UNCHANGED Promise!vars
    PROVE  Promise!Record \/ Promise!Forget
<1>1. /\ pc[r] = "helm" /\ UNCHANGED <<events, aside, lost, disturbed>>
      /\ marker' # marker => Resets(me[r]) /\ marker' = me[r].prev
  BY DEF HelmFails
<1>2. Resets(me[r]) /\ marker' = me[r].prev
  BY <1>1 DEF Promise!vars
<1>3. CASE Present(marker')
  BY <1>1, <1>3 DEF Promise!Record
<1>4. CASE ~Present(marker')
  <2>1. ASSUME ~disturbed PROVE Promise!SetAside = {} \/ events = "json"
    <3>1. Holds(r)
      BY <1>1, <1>2, <2>1 DEF Inv, RunInv, HoldsInv, Local, Beyond, Resets
    <3>2. \A n \in AsideName : aside[n].gen = "string" => events = "json"
      BY <1>1, <1>2, <1>4, <3>1 DEF Holds, Kept, MayDrop, Present, NoMarker
    <3> QED
      BY <3>2 DEF Promise!SetAside
  <2> QED
    BY <1>1, <1>4, <2>1 DEF Promise!Forget
<1> QED
  BY <1>3, <1>4

\* The record goes once the new table is there.
LEMMA SucceedPromised ==
    ASSUME Inv, NEW r \in Run, Succeed(r), ~UNCHANGED Promise!vars
    PROVE  Promise!Forget
<1>1. pc[r] = "clear" /\ UNCHANGED <<events, aside, lost, disturbed>>
  BY DEF Succeed
<1>2. me[r].clears /\ marker' = NoMarker
  BY <1>1 DEF Succeed, Promise!vars
<1>3. ASSUME ~disturbed PROVE events = "json"
  <2>1. Holds(r)
    BY <1>1, <1>2, <1>3 DEF Inv, RunInv, HoldsInv, Local, Beyond
  <2> QED
    BY <1>2, <2>1 DEF Holds
<1> QED
  BY <1>1, <1>2, <1>3 DEF Promise!Forget, Present

\* A step that only brings a hand in that the lease does not hold off.
LEMMA DisturbPromised ==
    ASSUME Inv, events' \in Live, UNCHANGED <<aside, lost>>, disturbed'
    PROVE  Promise!Next
BY DEF Promise!Next, Promise!Interfere, Promise!Live, Promise!Schema, Live, Schema, Present

\* Whatever a run does, it keeps the promise.
LEMMA ActPromised ==
    ASSUME Inv, Marked, NEW r \in Run, Act(r), ~UNCHANGED Promise!vars
    PROVE  Promise!Next
<1> USE DEF Promise!vars
<1>1. ~(\/ \E c \in Commands, t \in Targets : Begin(r, c, t)
        \/ Look(r) \/ Acquire(r) \/ Reread(r) \/ Ask(r) \/ Probe(r) \/ MoveGone(r)
        \/ Verify(r) \/ CheckPasses(r) \/ Stop(r))
  BY DEF Begin, Look, Acquire, Reread, Ask, Probe, MoveGone, Verify, CheckPasses, Stop, cluster
<1>2. CASE Record(r) \/ RecordFails(r)
  <2>1. UNCHANGED <<events, aside, lost, disturbed>> /\ marker' \in Records(me[r])
    BY <1>2 DEF Record, RecordFails
  <2>2. Present(marker')
    BY <2>1, RecordsPresent
  <2> QED
    BY <2>1, <2>2 DEF Promise!Next, Promise!Record
<1>3. CASE Helm(r) \/ HelmFailsMoved(r)
  <2>1. UNCHANGED <<events, aside, lost, marker>> /\ disturbed' = (disturbed \/ Strays(r))
    BY <1>3 DEF Helm, HelmFailsMoved
  <2>2. disturbed'
    BY <2>1 DEF Inv, TypeOK
  <2> QED
    BY <2>1, <2>2, DisturbPromised DEF Inv, TypeOK
<1>4. CASE HelmFails(r)
  BY <1>4, UndoPromised DEF Promise!Next
<1>5. CASE Move(r)
  BY <1>5, MovePromised DEF Promise!Next
<1>6. CASE Apply(r)
  <2>1. UNCHANGED <<aside, lost, marker, disturbed>> /\ events = "missing" /\ events' = "json"
    BY <1>6 DEF Apply
  <2> QED
    BY <2>1 DEF Promise!Next, Promise!Create, Promise!Schema
<1>7. CASE Settle(r)
  BY <1>7, SettlePromised DEF Promise!Next
<1>8. CASE CheckRecords(r)
  <2>1. UNCHANGED <<events, aside, lost>> /\ Present(marker')
    BY <1>8 DEF CheckRecords, Present, Create, NoMarker
  <2>2. CASE disturbed'
    BY <2>1, <2>2, DisturbPromised DEF Inv, TypeOK
  <2>3. CASE ~disturbed'
    <3>1. disturbed' = disturbed
      BY <1>8, <2>3 DEF CheckRecords, Inv, TypeOK
    <3> QED
      BY <2>1, <3>1 DEF Promise!Next, Promise!Record
  <2> QED
    BY <2>2, <2>3
<1>9. CASE Succeed(r)
  BY <1>9, SucceedPromised DEF Promise!Next
<1> QED
  BY <1>1, <1>2, <1>3, <1>4, <1>5, <1>6, <1>7, <1>8, <1>9 DEF Act

\* The tables and the record of a Kubernetes plane change only as the storage
\* reset promises, however many runs there are (KeepsThePromise).
THEOREM Refinement == Spec => KeepsThePromise
<1>1. Init => Promise!Init
  BY DEF Init, Promise!Init, Live, Schema, NoTable, Promise!Live, Promise!Schema,
         Promise!NoTable, Present
<1>2. Inv /\ Marked /\ [Next]_vars => [Promise!Next]_Promise!vars
  <2> SUFFICES ASSUME Inv, Marked, [Next]_vars, ~UNCHANGED Promise!vars
               PROVE  Promise!Next
    OBVIOUS
  <2>1. CASE \E r \in Run : Act(r)
    BY <2>1, ActPromised
  <2>2. CASE Job
    <3>1. UNCHANGED <<aside, lost, marker, disturbed>> /\ events = "missing" /\ events' \in Schema
      BY <2>2 DEF Job, Promise!vars, Inv, TypeOK
    <3> QED
      BY <3>1 DEF Promise!Next, Promise!Create, Promise!Schema, Schema
  <2>3. CASE Outlive \/ Meddle
    <3>1. events' \in Live /\ UNCHANGED <<aside, lost>> /\ disturbed'
      BY <2>3 DEF Outlive, Meddle, cluster, Inv, TypeOK, Live, Schema
    <3> QED
      BY <3>1, DisturbPromised
  <2>4. CASE UNCHANGED vars
    BY <2>4 DEF vars, cluster, Promise!vars
  <2> QED
    BY <2>1, <2>2, <2>3, <2>4 DEF Next
<1> QED
  BY <1>1, <1>2, MarkedInvariance, PTL DEF Spec, KeepsThePromise, Promise!Spec

-----------------------------------------------------------------------------
(***************************************************************************)
(* A recorded reset can be finished.                                       *)
(***************************************************************************)

\* A reset begins on a table it recognises.
Recognised ==
    ~disturbed =>
        /\ Present(marker) => events # "other"
        /\ \A r \in Run : me[r].found \in {"string", "missing"} => events # "other"

\* What a run that has the chart in place knows of it until it is through.
Charted(r) ==
    /\ pc[r] \in {"apply", "verify", "settle"} \/ me[r].clears => Gen(installed) = "json"
    /\ pc[r] \in {"apply", "verify"} => job # "string"
    /\ pc[r] = "apply" => events \in {"missing", "json"}
    /\ pc[r] = "verify" => events = "json"

ChartedInv == ~disturbed => \A r \in Run : Charted(r)

LEMMA ThroughInit == Init => Recognised /\ ChartedInv
<1> SUFFICES ASSUME Init PROVE Recognised /\ ChartedInv
  OBVIOUS
<1>1. marker = NoMarker /\ \A r \in Run : pc[r] = "idle" /\ me[r] = NoRun
  BY DEF Init
<1> QED
  BY <1>1 DEF Recognised, ChartedInv, Charted, Present, NoRun

\* The steps to the chart do not say that a run is through, and only the question
\* says what it found.
LEMMA EarlyDecisions ==
    ASSUME TypeOK, NEW r \in Run, Look(r) \/ Reread(r) \/ Acquire(r) \/ Record(r) \/ Ask(r)
    PROVE  me'[r].clears = me[r].clears /\ (me'[r].found = me[r].found \/ Ask(r))
<1>0. me[r] \in Decisions
  BY DEF TypeOK
<1>1. CASE Look(r)
  <2>1. \E now : me' = [me EXCEPT ![r].relevant = now, ![r].denied = FALSE, ![r].rec = NoMarker]
    BY <1>1 DEF Look
  <2> QED
    BY <1>0, <2>1 DEF TypeOK, Decisions
<1>2. CASE Reread(r) \/ Acquire(r)
  BY <1>0, <1>2 DEF Reread, Acquire, TypeOK, Decisions
<1>3. CASE Record(r)
  <2>1. \E record : me' = [me EXCEPT ![r].rec = record, ![r].prev = me[r].rec]
    BY <1>3 DEF Record
  <2> QED
    BY <1>0, <2>1 DEF TypeOK, Decisions
<1>4. CASE Ask(r)
  <2>1. \E now : me' = [me EXCEPT ![r] = [[me[r] EXCEPT !.found = events] EXCEPT !.agreed = now]]
    BY <1>4 DEF Ask
  <2> QED
    BY <1>0, <1>4, <2>1 DEF TypeOK, Decisions
<1> QED
  BY <1>1, <1>2, <1>3, <1>4

LEMMA HelmDecisions ==
    ASSUME TypeOK, NEW r \in Run, Helm(r)
    PROVE  me'[r].clears \in {me[r].clears, FALSE} /\ me'[r].found \in {me[r].found, "none"}
<1>0. me[r] \in Decisions
  BY DEF TypeOK
<1>1. me' = [me EXCEPT ![r].prev = NoMarker] \/ me' = [me EXCEPT ![r] = Spent(me[r], FALSE)]
  BY DEF Helm
<1>2. CASE me' = [me EXCEPT ![r].prev = NoMarker]
  BY <1>0, <1>2 DEF TypeOK, Decisions
<1>3. CASE me' = [me EXCEPT ![r] = Spent(me[r], FALSE)]
  <2>1. me'[r] = Spent(me[r], FALSE)
    BY <1>3 DEF TypeOK
  <2> QED
    BY <2>1 DEF Spent, NoRun
<1> QED
  BY <1>1, <1>2, <1>3

\* No step of a run brings a table nobody knows, and no run records a reset of one.
LEMMA ActRecognised ==
    ASSUME Inv, Recognised, NEW r \in Run, Act(r), ~disturbed'
    PROVE  Recognised'
<1> USE DEF Goto, cluster
<1>0. TypeOK /\ ~disturbed
  BY StaysDisturbed DEF Inv
<1>1. events' = "other" => events = "other"
  <2>1. CASE Move(r) \/ Apply(r)
    BY <2>1 DEF Move, Apply
  <2>2. CASE ~(Move(r) \/ Apply(r))
    <3>1. events' = events
      BY <2>2, Zenon DEF Act, Begin, Look, Acquire, Reread, Ask, Record, RecordFails, Helm,
         HelmFails, HelmFailsMoved, Probe, MoveGone, Verify, Settle, CheckPasses,
         CheckRecords, Succeed, Stop
    <3> QED
      BY <3>1
  <2> QED
    BY <2>1, <2>2
<1>2. ASSUME Resets(me[r]) PROVE events # "other"
  BY <1>0, <1>2 DEF Resets, Recognised
<1>3. Present(marker') => Present(marker) \/ events # "other"
  <2>1. CASE Record(r) \/ RecordFails(r)
    <3>1. Resets(me[r])
      BY <2>1 DEF Record, RecordFails, Inv, RunInv, Local
    <3> QED
      BY <1>2, <3>1
  <2>2. CASE HelmFails(r)
    <3>1. marker' = marker \/ Resets(me[r])
      BY <2>2 DEF HelmFails
    <3> QED
      BY <1>2, <3>1
  <2>3. CASE CheckRecords(r)
    BY <2>3 DEF CheckRecords
  <2>4. CASE Succeed(r)
    BY <2>4 DEF Succeed, Present
  <2>5. CASE ~(Record(r) \/ RecordFails(r) \/ HelmFails(r) \/ CheckRecords(r) \/ Succeed(r))
    <3>1. marker' = marker
      BY <2>5, Zenon DEF Act, Begin, Look, Acquire, Reread, Ask, Helm, HelmFailsMoved, Probe,
         Move, MoveGone, Apply, Verify, Settle, CheckPasses, Stop
    <3> QED
      BY <3>1
  <2> QED
    BY <2>1, <2>2, <2>3, <2>4, <2>5
<1>4. ASSUME NEW q \in Run, me'[q].found \in {"string", "missing"}
      PROVE  me[q].found \in {"string", "missing"} \/ events # "other"
  <2>0. CASE q # r
    BY <1>0, <1>4, <2>0, ActFrame
  <2>1. CASE q = r /\ End(r)
    BY <1>0, <1>4, <2>1 DEF End, NoRun, TypeOK
  <2>2. CASE q = r /\ Ask(r)
    BY <2>2 DEF Ask, Refused
  <2>3. CASE q = r /\ \E c \in Commands, t \in Targets : Begin(r, c, t)
    <3>1. me'[r].found = "none"
      BY <1>0, <2>3 DEF Begin, NoRun, TypeOK
    <3> QED
      BY <1>4, <2>3, <3>1
  <2>4. CASE q = r /\ (Look(r) \/ Reread(r) \/ Record(r) \/ Acquire(r))
    <3>1. me'[r].found = me[r].found \/ Ask(r)
      BY <1>0, <2>4, EarlyDecisions
    <3> QED
      BY <1>4, <2>2, <2>4, <3>1
  <2>5. CASE q = r /\ (Helm(r) \/ Settle(r))
    <3>1. CASE Helm(r)
      BY <1>0, <1>4, <2>5, <3>1, HelmDecisions
    <3>2. CASE Settle(r)
      <4>1. me'[r] = Spent(me[r], TRUE)
        BY <1>0, <3>2 DEF Settle, TypeOK
      <4>2. me'[r].found = "none"
        BY <4>1 DEF Spent, NoRun
      <4> QED
        BY <1>4, <2>5, <4>2
    <3> QED
      BY <2>5, <3>1, <3>2
  <2>6. CASE q = r /\ (Probe(r) \/ Move(r) \/ MoveGone(r) \/ Apply(r) \/ Verify(r) \/ CheckPasses(r))
    <3>1. me'[r].found = me[r].found
      BY <1>0, <2>6 DEF Probe, Move, MoveGone, Apply, Verify, CheckPasses, TypeOK, Decisions
    <3> QED
      BY <1>4, <2>6, <3>1
  <2>7. \/ End(r) \/ Ask(r) \/ (\E c \in Commands, t \in Targets : Begin(r, c, t))
        \/ (Look(r) \/ Reread(r) \/ Record(r) \/ Acquire(r)) \/ (Helm(r) \/ Settle(r))
        \/ (Probe(r) \/ Move(r) \/ MoveGone(r) \/ Apply(r) \/ Verify(r) \/ CheckPasses(r))
    BY Zenon DEF Act, RecordFails, HelmFails, HelmFailsMoved, CheckRecords, Succeed, Stop
  <2> QED
    BY <2>0, <2>1, <2>2, <2>3, <2>4, <2>5, <2>6, <2>7
<1> QED
  BY <1>0, <1>1, <1>3, <1>4 DEF Recognised

LEMMA RecognisedStep ==
    ASSUME Inv, Recognised, [Next]_vars
    PROVE  Recognised'
<1>1. CASE \E r \in Run : Act(r)
  <2>1. CASE disturbed'
    BY <2>1 DEF Recognised
  <2>2. CASE ~disturbed'
    BY <1>1, <2>2, ActRecognised
  <2> QED
    BY <2>1, <2>2
<1>2. CASE Job
  <2>1. /\ UNCHANGED <<marker, me, disturbed>>
        /\ events' # events => events' \in Schema
    BY <1>2 DEF Job, Inv, TypeOK
  <2> QED
    BY <2>1 DEF Recognised, Schema
<1>3. CASE Outlive \/ Meddle
  BY <1>3 DEF Outlive, Meddle, Recognised
<1>4. CASE UNCHANGED vars
  BY <1>4 DEF vars, cluster, Recognised
<1> QED
  BY <1>1, <1>2, <1>3, <1>4 DEF Next

\* What others may do next to the run leaves what it knows of the chart true.
LEMMA ChartedBenign ==
    ASSUME TypeOK, NEW q \in Run, Charted(q), Benign, pc'[q] = pc[q], me'[q] = me[q]
    PROVE  Charted(q)'
BY DEF Charted, Benign, TypeOK, Schema

\* What the run itself finds out about it.
LEMMA OwnCharted ==
    ASSUME Inv, ~disturbed, NEW r \in Run, Charted(r), Act(r)
    PROVE  Charted(r)'
<1> USE DEF Goto, cluster
<1>0. TypeOK /\ Local(r)
  BY DEF Inv, RunInv
<1>1. ASSUME pc[r] \in {"probe", "move"}
      PROVE  Gen(installed) = "json" /\ job # "string"
  BY <1>1, ResettingBeyond DEF Resetting, Inv, RunInv, HoldsInv, Holds
<1>2. me[r].clears => pc[r] \in Checked
  BY <1>0 DEF Local
<1>3. CASE End(r)
  <2>1. pc'[r] = "idle" /\ ~me'[r].clears
    BY <1>0, <1>3 DEF End, NoRun, TypeOK
  <2> QED
    BY <2>1 DEF Charted
<1>4. CASE \E c \in Commands, t \in Targets : Begin(r, c, t)
  <2>1. pc'[r] = "look" /\ ~me'[r].clears
    BY <1>0, <1>4 DEF Begin, NoRun, TypeOK
  <2> QED
    BY <2>1 DEF Charted
<1>5. CASE Look(r) \/ Reread(r) \/ Record(r) \/ Acquire(r) \/ Ask(r)
  <2>1. /\ pc'[r] \in {"lease", "helm", "reread", "ask", "record"}
        /\ pc[r] \notin Checked
    BY <1>0, <1>5 DEF Look, Reread, Record, Acquire, Ask, Checked, TypeOK
  <2>2. me'[r].clears = me[r].clears
    BY <1>0, <1>5, EarlyDecisions
  <2> QED
    BY <1>2, <2>1, <2>2 DEF Charted
<1>6. CASE Helm(r)
  <2>0. me'[r].clears \in {me[r].clears, FALSE}
    BY <1>0, <1>6, HelmDecisions
  <2>1. pc[r] = "helm" /\ pc'[r] \in {"probe", "check"}
    BY <1>0, <1>6 DEF Helm, TypeOK
  <2> QED
    BY <1>2, <2>0, <2>1 DEF Charted, Checked
<1>7. CASE Probe(r)
  <2>1. /\ pc[r] = "probe" /\ pc'[r] \in {"settle", "move", "apply"}
        /\ pc'[r] = "apply" => events = "missing"
        /\ UNCHANGED <<events, installed, job, me>>
    BY <1>0, <1>7 DEF Probe, ToApply, TypeOK
  <2> QED
    BY <1>1, <1>2, <2>1 DEF Charted, Checked
<1>8. CASE Move(r) \/ MoveGone(r)
  <2>1. /\ pc[r] = "move" /\ pc'[r] = "apply" /\ events' = "missing"
        /\ UNCHANGED <<installed, job>>
        /\ me'[r].clears = me[r].clears
    BY <1>0, <1>8 DEF Move, MoveGone, TypeOK, Decisions
  <2> QED
    BY <1>1, <1>2, <2>1 DEF Charted, Checked
<1>9. CASE Apply(r) \/ Verify(r)
  <2>1. /\ \/ pc[r] = "apply" /\ pc'[r] = "verify"
           \/ pc[r] = "verify" /\ pc'[r] = "settle"
        /\ events' = IF pc[r] = "apply" /\ events = "missing" THEN "json" ELSE events
        /\ UNCHANGED <<installed, job, me>>
    BY <1>0, <1>9 DEF Apply, Verify, TypeOK
  <2> QED
    BY <1>2, <2>1 DEF Charted, Checked
<1>10. CASE Settle(r) \/ CheckPasses(r)
  <2>1. /\ \/ pc[r] = "settle" /\ pc'[r] = "check"
           \/ pc[r] = "check" /\ pc'[r] = "clear"
        /\ pc[r] = "check" => UNCHANGED me
        /\ UNCHANGED installed
    BY <1>0, <1>10 DEF Settle, CheckPasses, TypeOK
  <2> QED
    BY <2>1 DEF Charted
<1>11. \/ End(r) \/ (\E c \in Commands, t \in Targets : Begin(r, c, t))
       \/ (Look(r) \/ Reread(r) \/ Record(r) \/ Acquire(r) \/ Ask(r)) \/ Helm(r)
       \/ Probe(r) \/ (Move(r) \/ MoveGone(r)) \/ (Apply(r) \/ Verify(r))
       \/ (Settle(r) \/ CheckPasses(r))
  BY Zenon DEF Act, RecordFails, HelmFails, HelmFailsMoved, CheckRecords, Succeed, Stop
<1> QED
  BY <1>3, <1>4, <1>5, <1>6, <1>7, <1>8, <1>9, <1>10, <1>11

\* The lease keeps what a run with the chart in place knows of it true.
LEMMA ChartedStep ==
    ASSUME Inv, ChartedInv, [Next]_vars
    PROVE  ChartedInv'
<1> SUFFICES ASSUME ~disturbed', NEW q \in Run PROVE Charted(q)'
  BY DEF ChartedInv
<1>1. CASE \E r \in Run : Act(r)
  <2>1. PICK r \in Run : Act(r)
    BY <1>1
  <2>2. ~disturbed /\ Charted(q)
    BY <2>1, StaysDisturbed DEF ChartedInv, Inv
  <2>3. CASE q = r
    BY <2>1, <2>2, <2>3, OwnCharted
  <2>4. CASE q # r
    <3>1. pc'[q] = pc[q] /\ me'[q] = me[q]
      BY <2>1, <2>4, ActFrame DEF Inv
    <3>2. CASE pc[q] \in {"apply", "verify", "settle"} \/ me[q].clears
      <4>1. Beyond(q)
        <5>1. CASE pc[q] \in {"apply", "verify", "settle"}
          BY <5>1, ResettingBeyond DEF Resetting
        <5>2. CASE me[q].clears
          BY <5>2 DEF Inv, RunInv, Local, Checked, Beyond
        <5> QED
          BY <3>2, <5>1, <5>2
      <4>2. ~Beyond(r)
        BY <2>2, <2>4, <4>1, OneHolds
      <4>3. Benign
        BY <2>1, <4>2, ActBenign DEF Inv, RunInv
      <4> QED
        BY <2>2, <3>1, <4>3, ChartedBenign DEF Inv
    <3>3. CASE ~(pc[q] \in {"apply", "verify", "settle"} \/ me[q].clears)
      BY <3>1, <3>3 DEF Charted
    <3> QED
      BY <3>2, <3>3
  <2> QED
    BY <2>3, <2>4
<1>2. CASE Job
  <2>1. ~disturbed /\ Benign /\ UNCHANGED <<pc, me>>
    BY <1>2 DEF Job, Benign
  <2> QED
    BY <2>1, ChartedBenign DEF ChartedInv, Inv
<1>3. CASE Outlive \/ Meddle
  BY <1>3 DEF Outlive, Meddle
<1>4. CASE UNCHANGED vars
  BY <1>4 DEF vars, cluster, ChartedInv, Charted
<1> QED
  BY <1>1, <1>2, <1>3, <1>4 DEF Next

\* What a run meets is what it can go on with.
LEMMA GoesOn == Inv /\ Recognised /\ ChartedInv => GoesThrough
<1> SUFFICES ASSUME Inv, Recognised, ChartedInv, ~disturbed, NEW r \in Run
             PROVE  /\ pc[r] = "ask" /\ Present(me[r].rec) => ~Refused(me[r], events)
                    /\ pc[r] = "probe" => \/ events = "json" \/ ToMove(me[r]) \/ ToApply(me[r])
                                          \/ me[r].found = "missing" /\ events = "string"
                    /\ pc[r] = "move" => events = "string"
                    /\ pc[r] = "verify" => events = "json"
                    /\ pc[r] = "check" /\ me[r].clears => Fits
  BY DEF GoesThrough
<1>0. TypeOK /\ Local(r) /\ Charted(r)
  BY DEF Inv, RunInv, ChartedInv
<1>1. ASSUME pc[r] \in {"ask", "probe", "move"} \/ me[r].clears
      PROVE  Holds(r)
  BY <1>0, <1>1 DEF Inv, RunInv, HoldsInv, Beyond, Local, Held, Checked
<1>2. ASSUME pc[r] = "ask", Present(me[r].rec)
      PROVE  ~Refused(me[r], events)
  <2>1. me[r].rec = marker /\ ~OverMarker(me[r], marker)
    BY <1>1, <1>2 DEF Holds, Held
  <2>2. me[r].cmd = "upgrade" /\ Gen(me[r].target) = "json" /\ events # "other"
    BY <1>2, <2>1 DEF OverMarker, Recognised
  <2> QED
    BY <2>2 DEF Refused
<1>3. ASSUME pc[r] = "probe"
      PROVE  \/ events = "json" \/ ToMove(me[r]) \/ ToApply(me[r])
             \/ me[r].found = "missing" /\ events = "string"
  <2>1. Gen(installed) = "json" /\ (me[r].found \in Schema => events = me[r].found)
    BY <1>1, <1>3 DEF Holds
  <2>2. CASE Finishes(me[r])
    BY <2>1, <2>2 DEF Finishes, Schema
  <2>3. CASE Resets(me[r])
    <3>1. events # "other" /\ events \in Live /\ me[r].found \in {"string", "missing"}
      BY <1>0, <2>3 DEF Resets, Recognised, TypeOK
    <3> QED
      BY <2>1, <3>1 DEF ToMove, ToApply, Schema, Live
  <2> QED
    BY <1>0, <1>3, <2>2, <2>3 DEF Local
<1>4. ASSUME pc[r] = "move" PROVE events = "string"
  BY <1>0, <1>1, <1>4 DEF Local, Holds, Schema
<1>5. ASSUME pc[r] = "check", me[r].clears PROVE Fits
  BY <1>0, <1>1, <1>5 DEF Holds, Charted, Fits
<1> QED
  BY <1>0, <1>2, <1>3, <1>4, <1>5 DEF Charted

\* A run that finishes a recorded reset is refused by nothing an earlier run of
\* it left behind, while the lease holds everybody off (kubeEventsRefusal,
\* resetKubernetesEvents, releaseImagesProblem).
THEOREM RecordedGoesThrough == Spec => []GoesThrough
<1>1. Inv /\ Recognised /\ ChartedInv /\ [Next]_vars => (Recognised /\ ChartedInv)'
  BY RecognisedStep, ChartedStep
<1> QED
  BY <1>1, Invariance, ThroughInit, GoesOn, PTL DEF Spec

-----------------------------------------------------------------------------
(***************************************************************************)
(* The lease, taken in one step.                                           *)
(***************************************************************************)

\* The runs that work on the events table, until a hand comes in that the lease
\* does not hold off.
Working == {r \in Run : ~disturbed /\ Beyond(r)}

\* What KubeLease shows of the ConfigMap's several calls.
Leased == INSTANCE OneRun WITH working <- Working

\* A run takes a lease that is free, or gives its own up.
LEMMA LeaseMoves ==
    ASSUME TypeOK, NEW r \in Run, Act(r), lease' # lease
    PROVE  \/ lease = Nobody /\ lease' = r /\ disturbed' = disturbed
           \/ lease = r /\ lease' = Nobody
<1>1. CASE Acquire(r)
  BY <1>1 DEF Acquire
<1>2. CASE End(r)
  BY <1>2 DEF End
<1>3. Acquire(r) \/ End(r)
  BY Zenon DEF Act, Begin, Look, Reread, Ask, Record, RecordFails, Helm, HelmFails,
     HelmFailsMoved, Probe, Move, MoveGone, Apply, Verify, Settle, CheckPasses, CheckRecords,
     Succeed, Stop
<1> QED
  BY <1>1, <1>2, <1>3

\* Upgrades, rollbacks and deploys use the lease as KubeLease gives it to them:
\* one at a time works on the events table, however many are under way
\* (acquireKubeLease, OneRun).
THEOREM OneWorks == Spec => Leased!Spec
<1>1. Init => Leased!Init
  BY DEF Init, Leased!Init, Working, Beyond
<1>2. Inv /\ Inv' /\ [Next]_vars => [Leased!Next]_Working
  <2> SUFFICES ASSUME Inv, Inv', [Next]_vars, Working' # Working
               PROVE  Leased!Next
    OBVIOUS
  <2>0. /\ Working = {r \in Run : ~disturbed /\ lease = r}
        /\ Working' = {r \in Run : ~disturbed' /\ lease' = r}
    BY DEF Inv, RunInv, Local, HoldsInv, Holds, Working
  <2>1. disturbed => disturbed'
    <3>1. CASE \E r \in Run : Act(r)
      BY <3>1, StaysDisturbed DEF Inv
    <3>2. CASE Job \/ Outlive \/ Meddle \/ UNCHANGED vars
      BY <3>2 DEF Job, Outlive, Meddle, vars
    <3> QED
      BY <3>1, <3>2 DEF Next
  <2>2. ~disturbed
    BY <2>0, <2>1
  <2>3. CASE disturbed'
    <3>1. Working' = {} /\ lease \in Run /\ Working = {lease}
      BY <2>0, <2>2, <2>3
    <3> QED
      BY <3>1 DEF Leased!Next, Leased!End
  <2>4. CASE ~disturbed'
    <3>1. lease' # lease
      BY <2>0, <2>2, <2>4
    <3>2. PICK r \in Run : Act(r)
      BY <2>4, <3>1 DEF Next, Job, Outlive, Meddle, vars
    <3>3. CASE lease = Nobody /\ lease' = r
      <4>1. Working = {} /\ Working' = {r}
        BY <2>0, <2>2, <2>4, <3>3, NoRunIsNobody
      <4> QED
        BY <4>1 DEF Leased!Next, Leased!Begin
    <3>4. CASE lease = r /\ lease' = Nobody
      <4>1. Working = {r} /\ Working' = {}
        BY <2>0, <2>2, <2>4, <3>4, NoRunIsNobody
      <4> QED
        BY <4>1 DEF Leased!Next, Leased!End
    <3> QED
      BY <3>1, <3>2, <3>3, <3>4, LeaseMoves DEF Inv
  <2> QED
    BY <2>3, <2>4
<1> QED
  BY <1>1, <1>2, Invariance, PTL DEF Spec, Leased!Spec

=============================================================================
