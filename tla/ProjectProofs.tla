---------------------------- MODULE ProjectProofs ----------------------------
(***************************************************************************)
(* Proofs about Project: for all releases, profiles and kinds of .env, and *)
(* any number of failed steps and edits.                                   *)
(***************************************************************************)
EXTENDS Project, TLAPS

-----------------------------------------------------------------------------
(***************************************************************************)
(* Types.                                                                  *)
(***************************************************************************)

\* A new value is one of a secret's values, and never "unset".
LEMMA FreshIsValue ==
    ASSUME TypeOK, NEW s \in Secret, env.sec[s] = 0
    PROVE  Fresh(s) \in Value /\ Fresh(s) # 0
<1>1. used[s] \in Value
  BY DEF TypeOK
<1>2. \E v \in Value : v > 1 /\ v \notin {env.sec[s], used[s]}
  <2>1. CASE used[s] = 2
    BY <2>1 DEF Value
  <2>2. CASE used[s] # 2
    BY <2>2 DEF Value
  <2> QED
    BY <2>1, <2>2
<1> QED
  BY <1>2 DEF Fresh, Value

\* What existingOrRandom gives is one too.
LEMMA ExistingIsValue ==
    ASSUME TypeOK, NEW s \in Secret
    PROVE  ExistingOrFresh(s) \in Value /\ ExistingOrFresh(s) # 0
BY FreshIsValue DEF ExistingOrFresh, TypeOK, FileOK, Text, Secret

LEMMA UnsetIsSecrets == Unset \in [Secret -> Value]
BY DEF Unset, Value

\* The initial states are of the types.
LEMMA InitTypes == Init => TypeOK
<1> SUFFICES ASSUME Init PROVE TypeOK
  OBVIOUS
<1>1. NoFile \in Text
  BY UnsetIsSecrets DEF NoFile, Text
<1>2. env \in Text /\ con \in [Service -> Tag \cup {"none"}] /\ table \in {"none", "string", "json"}
  <2>1. ASSUME NEW on \in SUBSET Switched
        PROVE  Snippet(on \cup (Profile \ Switched)) \in Text
    <3>1. on \cup (Profile \ Switched) \in SUBSET Profile
      BY ProjectConstants
    <3> QED
      BY <3>1, UnsetIsSecrets DEF Snippet, Text, Tag
  <2> QED
    BY <1>1, <2>1 DEF Init, Tag
<1>3. kind \in Kind /\ twin \in Text
  BY <1>1, <1>2, ProjectConstants DEF Init, Kind
<1>4. used \in [Secret -> Value]
  <2>1. [s \in Secret |-> IF s = "DB_PASSWORD" /\ env.on \cap Managed # {} THEN 1 ELSE 0]
            \in [Secret -> Value]
    BY DEF Value
  <2> QED
    BY <2>1, UnsetIsSecrets, Zenon DEF Init
<1>5. write \in [at : {"none", "put", "cut"}, text : Text]
  BY <1>1 DEF Init, NoWrite
<1>6. me \in Decisions /\ pc \in Step
  BY DEF Init, NoRun, Decisions, Tag, Value, Step
<1> QED
  BY <1>2, <1>3, <1>4, <1>5, <1>6 DEF Init, TypeOK, FileOK, Tag

\* A text handed to writeEnvFile keeps the file's variables of their types.
LEMMA WriteEnvTypes ==
    ASSUME TypeOK, NEW text \in Text, WriteEnv(text)
    PROVE  FileOK'
BY DEF TypeOK, FileOK, WriteEnv

\* So does the end of a run.
LEMMA EndRunTypes ==
    ASSUME EndRun
    PROVE  pc' \in Step /\ me' \in Decisions /\ touched' \in BOOLEAN
<1>1. pc' = "idle" /\ me' = NoRun /\ touched' = FALSE
  BY DEF EndRun
<1>2. NoRun \in Decisions
  BY DEF NoRun, Decisions, Tag, Value
<1> QED
  BY <1>1, <1>2 DEF Step

\* And a counted mishap.
LEMMA LuckTypes ==
    ASSUME TypeOK, NEW ok \in BOOLEAN, Luck(ok)
    PROVE  mishaps' \in Nat
<1>1. mishaps' = mishaps \/ mishaps' = mishaps + 1
  BY Zenon DEF Luck
<1> QED
  BY <1>1 DEF TypeOK

\* What the operators of docker compose return.
LEMMA ImageIsTag ==
    ASSUME TypeOK, NEW s \in Service, NEW tag \in Tag \cup {"none"}
    PROVE  Image(s, tag) \in Tag \cup {"none"}
BY DEF Image, TypeOK

LEMMA StartTypes ==
    ASSUME TypeOK, NEW S \in SUBSET Service, NEW tag \in Tag \cup {"none"},
           StartServices(S, tag)
    PROVE  /\ con' \in [Service -> Tag \cup {"none"}]
           /\ used' \in [Secret -> Value]
           /\ table' \in {"none", "string", "json"}
           /\ pin' \in Tag \cup {"none"}
<1>1. con' \in [Service -> Tag \cup {"none"}]
  BY ImageIsTag DEF StartServices, TypeOK
<1>2. ASSUME NEW s \in Secret
      PROVE  EffectiveIn(env, s) \in Value
  BY DEF EffectiveIn, TypeOK, FileOK, Text, Value
<1>3. used' \in [Secret -> Value]
  BY <1>2 DEF StartServices, TypeOK
<1> QED
  BY <1>1, <1>3 DEF StartServices, TypeOK, Gen

LEMMA RemoveTypes ==
    ASSUME TypeOK, NEW S, RemoveServices(S)
    PROVE  /\ con' \in [Service -> Tag \cup {"none"}]
           /\ used' \in [Secret -> Value]
           /\ table' \in {"none", "string", "json"}
           /\ pin' \in Tag \cup {"none"}
BY DEF RemoveServices, TypeOK

\* The types of what is in no action's own: a step of the run that writes one
\* setting, or none.
LEMMA SetTypes ==
    ASSUME TypeOK, NEW from, NEW to \in Step, NEW needed, NEW text \in Text,
           Set(from, to, needed, text)
    PROVE  TypeOK'
<1>1. FileOK'
  <2>1. CASE WriteEnv(text)
    BY <2>1, WriteEnvTypes
  <2>2. CASE UNCHANGED file
    BY <2>2 DEF file, TypeOK, FileOK
  <2> QED
    BY <2>1, <2>2, Zenon DEF Set
<1>2. UNCHANGED <<con, used, table, pin, me, touched, mishaps>> /\ pc' = to
  BY Zenon DEF Set, Go, world
<1> QED
  BY <1>1, <1>2 DEF TypeOK

LEMMA RemoveStepTypes ==
    ASSUME TypeOK, NEW from, NEW to \in Step, NEW S, Remove(from, to, S)
    PROVE  TypeOK'
<1>1. FileOK' /\ me' = me /\ touched' = touched /\ pc' = to
  BY DEF Remove, file, TypeOK, FileOK
<1>2. CASE RemoveServices(S) /\ UNCHANGED mishaps
  BY <1>1, <1>2, RemoveTypes DEF TypeOK
<1>3. CASE Luck(FALSE) /\ UNCHANGED world
  BY <1>1, <1>3, LuckTypes DEF TypeOK, world
<1> QED
  BY <1>2, <1>3, Zenon DEF Remove

\* The texts the steps write.
LEMMA TextTypes ==
    ASSUME TypeOK
    PROVE  /\ [env EXCEPT !.pending = TRUE] \in Text
           /\ [env EXCEPT !.pending = FALSE] \in Text
           /\ [env EXCEPT !.on = me.on] \in Text
           /\ [env EXCEPT !.tag = me.tag] \in Text
           /\ [env EXCEPT !.sec["ORCH_KEK"] = me.kek] \in Text
           /\ env.sec["ENGAGEMENT_SECRET"] = 0 =>
                [env EXCEPT !.sec["ENGAGEMENT_SECRET"] = Fresh("ENGAGEMENT_SECRET")] \in Text
           /\ Rendered \in Text
<1>1. env \in Text /\ me \in Decisions
  BY DEF TypeOK, FileOK
<1>2. env.sec["ENGAGEMENT_SECRET"] = 0 => Fresh("ENGAGEMENT_SECRET") \in Value
  BY FreshIsValue DEF Secret
<1>3. DeployProfiles(env.on, me.on) \in SUBSET Profile
  BY <1>1 DEF DeployProfiles, Text, Decisions
<1>4. [s \in Secret |->
          CASE s = "DB_PASSWORD" -> KeptPassword
            [] s = "ORCH_KEK" -> IF me.ai = "on" THEN ExistingOrFresh(s) ELSE env.sec[s]
            [] s = "ENGAGEMENT_SECRET" -> ExistingOrFresh(s)] \in [Secret -> Value]
  <2>1. KeptPassword \in Value
    BY ExistingIsValue DEF KeptPassword, Secret, Value
  <2> QED
    BY <1>1, <2>1, ExistingIsValue DEF Secret, Text
<1>5. Rendered \in Text
  BY <1>1, <1>3, <1>4 DEF Rendered, Text, Decisions
<1> QED
  BY <1>1, <1>2, <1>5 DEF Text, Decisions, Secret

\* What a run decides at its beginning.
LEMMA RunTypes ==
    ASSUME TypeOK
    PROVE  /\ \A tag \in Tags, ai \in {"keep", "on", "off"} : UpgradeRun(tag, ai) \in Decisions
           /\ \A tag \in Tags, answers \in Answers : DeployRun(tag, answers) \in Decisions
           /\ NoRun \in Decisions
           /\ [NoRun EXCEPT !.cmd = "uninstall"] \in Decisions
<1>1. ASSUME NEW tag \in Tags, NEW ai \in {"keep", "on", "off"}
      PROVE  UpgradeRun(tag, ai) \in Decisions
  <2>1. TouchesTable(tag) \in BOOLEAN /\ Resets(tag) \in BOOLEAN
    BY Zenon DEF TouchesTable, Resets
  <2>2. env.on \in SUBSET Profile
    BY DEF TypeOK, FileOK, Text
  <2>3. WithProfile(env.on, "agentic", ai = "on") \in SUBSET Profile
    BY <2>2 DEF WithProfile, Profile
  <2>4. ExistingOrFresh("ORCH_KEK") \in Value /\ 0 \in Value
    BY ExistingIsValue DEF Secret, Value
  <2> QED
    BY <2>1, <2>2, <2>3, <2>4, ProjectConstants DEF UpgradeRun, Decisions
<1>2. ASSUME NEW tag \in Tags, NEW answers \in Answers
      PROVE  DeployRun(tag, answers) \in Decisions
  <2>1. answers \in SUBSET Profile
    BY DEF Answers, Managed, Profile
  <2>2. (env # NoFile) \in BOOLEAN /\ (env # NoFile /\ TouchesTable(tag)) \in BOOLEAN
        /\ (env # NoFile /\ Resets(tag)) \in BOOLEAN
    OBVIOUS
  <2> QED
    BY <2>1, <2>2, ProjectConstants DEF DeployRun, Decisions, Value
<1>3. NoRun \in Decisions
  BY DEF NoRun, Decisions, Tag, Value
<1>4. [NoRun EXCEPT !.cmd = "uninstall"] \in Decisions
  BY <1>3 DEF Decisions
<1> QED
  BY <1>1, <1>2, <1>3, <1>4

LEMMA BeginTypes ==
    ASSUME TypeOK, BeginUpgrade \/ BeginDeploy \/ BeginUninstall
    PROVE  TypeOK'
<1>1. ASSUME NEW run \in Decisions, NEW step \in Step, Begin(run, step)
      PROVE  TypeOK'
  BY <1>1 DEF Begin, world, file, TypeOK, FileOK
<1>2. CASE BeginUpgrade
  BY <1>1, <1>2, RunTypes DEF BeginUpgrade, Step
<1>3. CASE BeginDeploy
  BY <1>1, <1>3, RunTypes DEF BeginDeploy, Step
<1>4. CASE BeginUninstall
  BY <1>1, <1>4, RunTypes DEF BeginUninstall, Step
<1> QED
  BY <1>2, <1>3, <1>4

\* A step that leaves the project as it is, and passes or ends the run.
LEMMA PassTypes ==
    ASSUME TypeOK, UNCHANGED <<file, world>>, mishaps' \in Nat,
           \/ EndRun
           \/ pc' \in Step /\ UNCHANGED <<me, touched>>
    PROVE  TypeOK'
BY EndRunTypes DEF file, world, TypeOK, FileOK

\* Every step keeps the types.
LEMMA StepTypes == TypeOK /\ [Next]_vars => TypeOK'
<1> SUFFICES ASSUME TypeOK, [Next]_vars PROVE TypeOK'
  OBVIOUS
<1>1. CASE BeginUpgrade \/ BeginDeploy \/ BeginUninstall
  BY <1>1, BeginTypes
<1>2. CASE Pull
  BY <1>2, PassTypes DEF Pull, Go, Refuse, Step, TypeOK
<1>3. CASE Record
  <2>1. FileOK'
    <3>1. CASE WriteEnv([env EXCEPT !.pending = TRUE])
      BY <3>1, TextTypes, WriteEnvTypes
    <3>2. CASE UNCHANGED file
      BY <3>2 DEF file, TypeOK, FileOK
    <3> QED
      BY <1>3, <3>1, <3>2, Zenon DEF Record
  <2> QED
    BY <1>3, <2>1 DEF Record, Go, world, TypeOK, Step
<1>4. CASE Reset
  BY <1>4 DEF Reset, Go, file, TypeOK, FileOK, Step
<1>5. CASE Commit
  <2>1. CASE SetProfiles
    BY <2>1, SetTypes, TextTypes DEF SetProfiles, Step
  <2>2. CASE SetTag
    BY <2>2, SetTypes, TextTypes DEF SetTag, Step
  <2>3. CASE SetKEK
    BY <2>3, SetTypes, TextTypes DEF SetKEK, Step
  <2>4. CASE BackfillSecret
    <3>1. CASE env.sec["ENGAGEMENT_SECRET"] = 0
      BY <2>4, <3>1, SetTypes, TextTypes DEF BackfillSecret, Step
    <3>2. CASE env.sec["ENGAGEMENT_SECRET"] # 0
      BY <2>4, <3>2 DEF BackfillSecret, Set, Go, file, world, TypeOK, FileOK, Step
    <3> QED
      BY <3>1, <3>2
  <2> QED
    BY <1>5, <2>1, <2>2, <2>3, <2>4 DEF Commit
<1>6. CASE Render
  <2>1. FileOK'
    BY <1>6, TextTypes, WriteEnvTypes DEF Render
  <2>2. DeployProfiles(env.on, me.on) \in SUBSET Profile /\ env.on \in SUBSET Profile
    BY DEF DeployProfiles, TypeOK, FileOK, Text, Decisions
  <2>3. me' \in Decisions
    BY <1>6, <2>2 DEF Render, TypeOK, Decisions
  <2> QED
    BY <1>6, <2>1, <2>3 DEF Render, world, TypeOK, Step
<1>7. CASE StopTurnedOff \/ RemoveInactive
  BY <1>7, RemoveStepTypes DEF StopTurnedOff, RemoveInactive, Step
<1>8. CASE Up
  <2>1. ASSUME NEW on
        PROVE  Runs(on) \in SUBSET Service
    BY DEF Runs, Service
  <2>2. FileOK' /\ me.tag \in Tag
    BY <1>8 DEF Up, file, TypeOK, FileOK, Decisions
  <2>3. CASE StartServices(Runs(UpProfiles), me.tag) /\ Go("check")
    BY <2>1, <2>2, <2>3, StartTypes DEF Go, TypeOK, Step
  <2>4. CASE /\ \E S \in SUBSET Runs(UpProfiles) : StartServices(S, me.tag)
             /\ Luck(FALSE) /\ EndRun
    BY <2>1, <2>2, <2>4, StartTypes, EndRunTypes, LuckTypes DEF TypeOK
  <2> QED
    BY <1>8, <2>3, <2>4 DEF Up
<1>9. CASE Check
  BY <1>9, PassTypes DEF Check, Go, Refuse, Step, TypeOK
<1>10. CASE ClearRecord
  BY <1>10, SetTypes, TextTypes DEF ClearRecord, Step
<1>11. CASE Succeed
  BY <1>11, PassTypes DEF Succeed, Refuse, TypeOK
<1>12. CASE Down
  <2>1. FileOK' /\ pin' = pin
    BY <1>12 DEF Down, file, TypeOK, FileOK
  <2>2. CASE /\ con' = [s \in Service |-> "none"]
             /\ used' = Unset
             /\ table' = "none"
             /\ Go("remove")
    BY <2>1, <2>2, UnsetIsSecrets DEF Go, TypeOK, Step
  <2>3. CASE /\ \E S \in SUBSET Service :
                    con' = [s \in Service |-> IF s \in S THEN "none" ELSE con[s]]
             /\ UNCHANGED <<used, table>>
             /\ Luck(FALSE) /\ EndRun
    <3>1. con' \in [Service -> Tag \cup {"none"}]
      BY <2>3 DEF TypeOK
    <3> QED
      BY <2>1, <2>3, <3>1, EndRunTypes, LuckTypes DEF TypeOK
  <2> QED
    BY <1>12, <2>2, <2>3 DEF Down
<1>13. CASE RemoveDir
  <2>1. NoFile \in Text
    BY UnsetIsSecrets DEF NoFile, Text
  <2> QED
    BY <1>13, <2>1, EndRunTypes DEF RemoveDir, RemoveFile, TypeOK, FileOK, Kind
<1>14. CASE WriteStep
  <2>1. FileOK'
    <3>1. NoWrite \in [at : {"none", "put", "cut"}, text : Text]
      BY UnsetIsSecrets DEF NoWrite, NoFile, Text
    <3>2. CASE Rename
      BY <3>1, <3>2 DEF Rename, TypeOK, FileOK, Kind
    <3>3. CASE WriteOver
      BY <3>3 DEF WriteOver, InPlaceEnd, Linked, TypeOK, FileOK
    <3>4. CASE Truncate
      BY <3>1, <3>4 DEF Truncate, TypeOK, FileOK
    <3> QED
      BY <1>14, <3>2, <3>3, <3>4 DEF WriteStep, Write
  <2> QED
    BY <1>14, <2>1 DEF WriteStep, world, TypeOK
<1>15. CASE Stop \/ MachineLost
  <2>1. FileOK'
    <3>1. NoWrite \in [at : {"none", "put", "cut"}, text : Text]
      BY UnsetIsSecrets DEF NoWrite, NoFile, Text
    <3> QED
      BY <1>15, <3>1 DEF Stop, MachineLost, Abandon, Tear, TypeOK, FileOK
  <2>2. Luck(FALSE) /\ EndRun /\ UNCHANGED world
    BY <1>15 DEF Stop, MachineLost
  <2> QED
    BY <2>1, <2>2, EndRunTypes, LuckTypes DEF world, TypeOK
<1>16. CASE ComposeUp
  <2>1. env.tag \in Tag \cup {"none"} /\ Runs(env.on) \in SUBSET Service
    BY DEF Runs, Service, TypeOK, FileOK, Text
  <2> QED
    BY <1>16, <2>1, StartTypes DEF ComposeUp, file, TypeOK, FileOK
<1>17. CASE ComposeDown
  BY <1>17, RemoveTypes DEF ComposeDown, file, TypeOK, FileOK
<1>18. CASE EditProfiles
  <2>1. mishaps' \in Nat
    BY <1>18, LuckTypes DEF EditProfiles
  <2>2. env' \in Text
    BY <1>18, ProjectConstants DEF EditProfiles, WithProfile, TypeOK, FileOK, Text
  <2> QED
    BY <1>18, <2>1, <2>2 DEF EditProfiles, Linked, world, TypeOK, FileOK
<1>19. CASE PinEngine
  <2>1. mishaps' \in Nat
    BY <1>19, LuckTypes DEF PinEngine
  <2>2. pin' \in Tag \cup {"none"}
    BY <1>19, ProjectConstants DEF PinEngine
  <2> QED
    BY <1>19, <2>1, <2>2 DEF PinEngine, file, TypeOK, FileOK
<1>20. CASE UNCHANGED vars
  BY <1>20 DEF vars, file, world, TypeOK, FileOK
<1> QED
  BY <1>1, <1>2, <1>3, <1>4, <1>5, <1>6, <1>7, <1>8, <1>9, <1>10, <1>11, <1>12, <1>13,
     <1>14, <1>15, <1>16, <1>17, <1>18, <1>19, <1>20
     DEF Next, RunStep, Operator

\* The variables stay of their types.
THEOREM TypeCorrect == Spec => []TypeOK
BY InitTypes, StepTypes, PTL DEF Spec

-----------------------------------------------------------------------------
(***************************************************************************)
(* The file and the run's place.                                           *)
(***************************************************************************)

\* What .env is between the steps of a write.
FileInv ==
    /\ env = NoFile \/ env.tag \in Tag
    /\ env = NoFile => kind = "plain"
    /\ Quiet \/ (write.at # "none" /\ write.text.tag \in Tag)
    /\ write.at = "cut" => env = write.text
    /\ EnvWhole
    /\ LinkKept

\* Where the run is, and what .env is there.
PlaceInv ==
    /\ pc = "idle" => Quiet /\ me = NoRun
    /\ pc = "render" => me.cmd = "deploy" /\ Quiet /\ me.existing = (env # NoFile)
    /\ pc \in {"down", "remove"} <=> me.cmd = "uninstall"
    /\ pc \in {"down", "remove", "pull"} => Quiet
    /\ pc \in {"pull", "profiles", "tag", "kek", "secret"} => me.cmd = "upgrade"
    /\ pc \notin {"idle", "render"} => env # NoFile \/ (pc = "record" /\ write.at = "put")

\* A text has a tag, or is no file's.
LEMMA TaggedIsFile ==
    ASSUME NEW text \in Text, text.tag \in Tag
    PROVE  text # NoFile
BY DEF Text, NoFile, Tag

LEMMA FileInit == Init => FileInv /\ PlaceInv
BY DEF Init, FileInv, PlaceInv, EnvWhole, LinkKept, Quiet, NoWrite, NoRun, Snippet, NoFile, Tag

\* Whatever a step does to the file, it is one of these.
LEMMA FileSteps ==
    ASSUME TypeOK, FileInv,
           \/ UNCHANGED file
           \/ \E text \in Text : text.tag \in Tag /\ WriteEnv(text)
           \/ Write
           \/ Abandon
           \/ Tear
           \/ RemoveFile
           \/ /\ Quiet /\ env # NoFile
              /\ \E on \in SUBSET Profile : env' = [env EXCEPT !.on = on]
              /\ twin' = Linked(env')
              /\ UNCHANGED <<end, kind, write, fault>>
    PROVE  FileInv'
<1> USE DEF FileInv, EnvWhole, LinkKept, Quiet
<1>1. CASE UNCHANGED file
  BY <1>1 DEF file
<1>2. CASE \E text \in Text : text.tag \in Tag /\ WriteEnv(text)
  BY <1>2 DEF WriteEnv, NoWrite
<1>3. CASE Write
  <2>1. CASE Rename
    <3>1. write.text.tag \in Tag /\ write.text # NoFile
      BY <2>1, TaggedIsFile DEF Rename, NoWrite, TypeOK, FileOK
    <3> QED
      BY <2>1, <3>1 DEF Rename, InPlace, NoWrite, TypeOK, FileOK, Kind
  <2>2. CASE WriteOver
    <3>1. write.text.tag \in Tag /\ write.text # NoFile
      BY <2>2, TaggedIsFile DEF WriteOver, NoWrite, TypeOK, FileOK
    <3> QED
      BY <2>2, <3>1 DEF WriteOver, InPlaceEnd, Linked, NoWrite, TypeOK, FileOK
  <2>3. CASE Truncate
    BY <2>3 DEF Truncate, NoWrite
  <2> QED
    BY <1>3, <2>1, <2>2, <2>3 DEF Write
<1>4. CASE Abandon
  BY <1>4 DEF Abandon, NoWrite
<1>5. CASE Tear
  BY <1>5 DEF Tear, NoWrite
<1>6. CASE RemoveFile
  BY <1>6 DEF RemoveFile, NoWrite
<1>7. CASE /\ Quiet /\ env # NoFile
           /\ \E on \in SUBSET Profile : env' = [env EXCEPT !.on = on]
           /\ twin' = Linked(env')
           /\ UNCHANGED <<end, kind, write, fault>>
  <2>1. env'.tag = env.tag /\ env' # NoFile
    BY <1>7 DEF TypeOK, FileOK, Text, NoFile, Tag
  <2> QED
    BY <1>7, <2>1 DEF Linked, NoWrite
<1> QED
  BY <1>1, <1>2, <1>3, <1>4, <1>5, <1>6, <1>7

\* Between two writes a run that is past its beginning has a .env.
LEMMA FileThere ==
    ASSUME TypeOK, FileInv, PlaceInv, NEW step, At(step), step \notin {"idle", "render"}
    PROVE  env # NoFile /\ env.tag \in Tag
BY DEF At, Quiet, NoWrite, FileInv, PlaceInv

\* A step that writes one setting writes a text with a tag.
LEMMA SetFile ==
    ASSUME TypeOK, FileInv, PlaceInv, NEW from, NEW to, NEW needed,
           from \notin {"idle", "render"}, NEW text,
           needed => (env.tag \in Tag => text \in Text /\ text.tag \in Tag),
           Set(from, to, needed, text)
    PROVE  FileInv'
<1>1. env.tag \in Tag
  BY FileThere DEF Set
<1>2. CASE needed
  BY <1>1, <1>2, FileSteps DEF Set
<1>3. CASE ~needed
  BY <1>3, FileSteps DEF Set
<1> QED
  BY <1>2, <1>3

LEMMA FileStep ==
    ASSUME TypeOK, FileInv, PlaceInv, [Next]_vars
    PROVE  FileInv'
<1>1. CASE UNCHANGED file
  BY <1>1, FileSteps
<1>2. CASE BeginUpgrade \/ BeginDeploy \/ BeginUninstall
  BY <1>1, <1>2 DEF BeginUpgrade, BeginDeploy, BeginUninstall, Begin
<1>3. CASE Pull \/ Reset \/ Up \/ Check \/ Succeed \/ Down
  BY <1>1, <1>3 DEF Pull, Reset, Up, Check, Succeed, Down, Refuse
<1>4. CASE Record
  <2>1. env.tag \in Tag
    BY <1>4, FileThere DEF Record
  <2>2. [env EXCEPT !.pending = TRUE] \in Text /\ [env EXCEPT !.pending = TRUE].tag = env.tag
    BY TextTypes DEF TypeOK, FileOK, Text
  <2> QED
    BY <1>4, <2>1, <2>2, FileSteps, Zenon DEF Record
<1>5. CASE SetProfiles
  BY <1>5, SetFile, TextTypes DEF SetProfiles, TypeOK, FileOK, Text
<1>6. CASE SetTag
  BY <1>6, SetFile, TextTypes DEF SetTag, TypeOK, FileOK, Text, Decisions
<1>7. CASE SetKEK
  BY <1>7, SetFile, TextTypes DEF SetKEK, TypeOK, FileOK, Text
<1>8. CASE BackfillSecret
  BY <1>8, SetFile, TextTypes DEF BackfillSecret, TypeOK, FileOK, Text
<1>9. CASE ClearRecord
  BY <1>9, SetFile, TextTypes DEF ClearRecord, TypeOK, FileOK, Text
<1>10. CASE Render
  <2>1. Rendered \in Text /\ Rendered.tag \in Tag
    BY TextTypes DEF Rendered, TypeOK, Decisions
  <2> QED
    BY <1>10, <2>1, FileSteps DEF Render
<1>11. CASE StopTurnedOff \/ RemoveInactive
  BY <1>1, <1>11 DEF StopTurnedOff, RemoveInactive, Remove
<1>12. CASE WriteStep
  BY <1>12, FileSteps DEF WriteStep
<1>13. CASE RemoveDir
  BY <1>13, FileSteps DEF RemoveDir
<1>14. CASE Stop
  BY <1>14, FileSteps DEF Stop
<1>15. CASE MachineLost
  BY <1>15, FileSteps DEF MachineLost
<1>16. CASE ComposeUp \/ ComposeDown \/ PinEngine
  BY <1>1, <1>16 DEF ComposeUp, ComposeDown, PinEngine
<1>17. CASE EditProfiles
  <2>1. PICK p \in Switched : env' = [env EXCEPT !.on = WithProfile(env.on, p, p \notin env.on)]
    BY <1>17 DEF EditProfiles
  <2>2. WithProfile(env.on, p, p \notin env.on) \in SUBSET Profile
    BY ProjectConstants DEF WithProfile, TypeOK, FileOK, Text
  <2> QED
    BY <1>17, <2>1, <2>2, FileSteps DEF EditProfiles
<1>18. CASE UNCHANGED vars
  BY <1>1, <1>18 DEF vars
<1> QED
  BY <1>2, <1>3, <1>4, <1>5, <1>6, <1>7, <1>8, <1>9, <1>10, <1>11, <1>12, <1>13,
     <1>14, <1>15, <1>16, <1>17, <1>18 DEF Next, RunStep, Operator, Commit

LEMMA PlaceStep ==
    ASSUME TypeOK, FileInv, PlaceInv, [Next]_vars
    PROVE  PlaceInv'
<1> USE DEF PlaceInv
<1>1. ASSUME EndRun, Quiet' PROVE PlaceInv'
  BY <1>1 DEF EndRun, NoRun
<1>2. CASE BeginUpgrade
  BY <1>2 DEF BeginUpgrade, Begin, UpgradeRun, file, Quiet
<1>3. CASE BeginDeploy
  BY <1>3 DEF BeginDeploy, Begin, DeployRun, file, Quiet
<1>4. CASE BeginUninstall
  BY <1>4 DEF BeginUninstall, Begin, NoRun, file, Quiet
<1>5. CASE Pull
  BY <1>1, <1>5 DEF Pull, Refuse, Go, At, file, Quiet
<1>6. CASE Record
  BY <1>6, FileThere DEF Record, Go, At, WriteEnv, file, Quiet
<1>7. CASE Reset
  BY <1>7, FileThere DEF Reset, Go, At, file, Quiet, TypeOK, Decisions
<1>8. ASSUME NEW from \in Step, NEW to \in Step, NEW needed, NEW text,
             Set(from, to, needed, text),
             from \notin {"idle", "render", "down", "remove"},
             to \notin {"idle", "render", "down", "remove", "pull"},
             to \in {"profiles", "tag", "kek", "secret"} => me.cmd = "upgrade"
      PROVE  PlaceInv'
  <2>1. At(from) /\ pc' = to /\ me' = me /\ env' = env
    BY <1>8, Zenon DEF Set, Go, WriteEnv, file
  <2>2. env # NoFile
    BY <1>8, <2>1, FileThere
  <2> QED
    BY <1>8, <2>1, <2>2 DEF At
<1>9. CASE Commit
  BY <1>8, <1>9 DEF Commit, SetProfiles, SetTag, SetKEK, BackfillSecret, Step, Set, At
<1>10. CASE Render
  BY <1>10 DEF Render, At, WriteEnv
<1>11. CASE StopTurnedOff \/ RemoveInactive
  BY <1>11, FileThere DEF StopTurnedOff, RemoveInactive, Remove, At, file, Quiet
<1>12. CASE Up
  BY <1>1, <1>12, FileThere DEF Up, Go, At, file, Quiet
<1>13. CASE Check
  BY <1>1, <1>13, FileThere DEF Check, Refuse, Go, At, file, Quiet
<1>14. CASE ClearRecord
  BY <1>8, <1>14 DEF ClearRecord, Step
<1>15. CASE Succeed
  BY <1>1, <1>15 DEF Succeed, Refuse, At, file, Quiet
<1>16. CASE Down
  BY <1>1, <1>16, FileThere DEF Down, Go, At, file, Quiet
<1>17. CASE RemoveDir
  BY <1>1, <1>17 DEF RemoveDir, RemoveFile, At, Quiet
<1>18. CASE WriteStep
  <2>1. pc \notin {"idle", "render", "down", "remove", "pull"}
    BY <1>18 DEF WriteStep, Write, Rename, WriteOver, Truncate, Quiet, NoWrite
  <2>2. env' # NoFile
    <3>1. CASE Rename \/ WriteOver
      <4>1. env' = write.text /\ write.text.tag \in Tag
        BY <3>1 DEF Rename, WriteOver, FileInv, Quiet, NoWrite
      <4> QED
        BY <4>1 DEF NoFile, Tag
    <3>2. CASE Truncate
      <4>1. env' = env /\ env = write.text /\ write.text.tag \in Tag
        BY <3>2 DEF Truncate, FileInv, Quiet, NoWrite
      <4> QED
        BY <4>1 DEF NoFile, Tag
    <3> QED
      BY <1>18, <3>1, <3>2 DEF WriteStep, Write
  <2> QED
    BY <1>18, <2>1, <2>2 DEF WriteStep
<1>19. CASE Stop \/ MachineLost
  BY <1>1, <1>19 DEF Stop, MachineLost, Abandon, Tear, Quiet
<1>20. CASE ComposeUp \/ ComposeDown \/ PinEngine
  BY <1>20 DEF ComposeUp, ComposeDown, PinEngine, file, Quiet
<1>21. CASE EditProfiles
  <2>1. env' # NoFile /\ env # NoFile
    <3>1. env.tag \in Tag /\ env'.tag = env.tag
      BY <1>21 DEF EditProfiles, FileInv, TypeOK, FileOK, Text
    <3> QED
      BY <3>1 DEF NoFile, Tag
  <2> QED
    BY <1>21, <2>1 DEF EditProfiles, Quiet
<1>22. CASE UNCHANGED vars
  BY <1>22 DEF vars, file, Quiet
<1> QED
  BY <1>2, <1>3, <1>4, <1>5, <1>6, <1>7, <1>9, <1>10, <1>11, <1>12, <1>13, <1>14, <1>15,
     <1>16, <1>17, <1>18, <1>19, <1>20, <1>21, <1>22 DEF Next, RunStep, Operator

Inv == TypeOK /\ FileInv /\ PlaceInv

LEMMA Invariance == Spec => []Inv
<1>1. Init => Inv
  BY InitTypes, FileInit DEF Inv
<1>2. Inv /\ [Next]_vars => Inv'
  BY StepTypes, FileStep, PlaceStep DEF Inv
<1> QED
  BY <1>1, <1>2, PTL DEF Spec

\* However the runs end, .env holds one text, unless the machine is lost while
\* one is written in place (writeInPlace).
THEOREM FileIsWhole == Spec => []EnvWhole
BY Invariance, PTL DEF Inv, FileInv

\* The other hard link of .env stays one (writeEnvFile).
THEOREM LinkIsKept == Spec => []LinkKept
BY Invariance, PTL DEF Inv, FileInv

-----------------------------------------------------------------------------
(***************************************************************************)
(* The secrets.                                                            *)
(***************************************************************************)

\* An upgrade that turns AI features on has not written their key yet.
BeforeKEK ==
    /\ me.cmd = "upgrade" /\ me.ai = "on"
    /\ pc \in {"pull", "record", "reset", "profiles", "tag", "kek"}

\* Both the text in .env and the one on its way into it fit the data.
SecretInv ==
    /\ Fits(env)
    /\ ~Quiet => Fits(write.text)
    /\ pc = "remove" => used = Unset
    /\ BeforeKEK => /\ me.kek # 0
                    /\ env.sec["ORCH_KEK"] \in {0, me.kek}
                    /\ ~Quiet => write.text.sec["ORCH_KEK"] = env.sec["ORCH_KEK"]

LEMMA SecretInit == Init => SecretInv
<1> SUFFICES ASSUME Init PROVE SecretInv
  OBVIOUS
<1>1. Fits(env)
  <2>1. CASE used = Unset
    BY <2>1 DEF Fits, Unset
  <2>2. CASE \E on \in SUBSET Profile : env = Snippet(on)
    <3>1. env # NoFile /\ \A s \in Secret : env.sec[s] = 0
      BY <2>2 DEF Snippet, NoFile, Unset
    <3>2. \A s \in Secret : used[s] = 0 \/ (s = "DB_PASSWORD" /\ used[s] = 1)
      BY DEF Init, Unset
    <3> QED
      BY <3>1, <3>2 DEF Fits, EffectiveIn
  <2> QED
    <3>1. \A on \in SUBSET Switched : on \cup (Profile \ Switched) \in SUBSET Profile
      BY ProjectConstants
    <3> QED
      BY <2>1, <2>2, <3>1 DEF Init
<1> QED
  BY <1>1 DEF Init, SecretInv, BeforeKEK, Quiet

\* A text with the same secrets fits as well.
LEMMA SameSecrets ==
    ASSUME NEW old, NEW new, new # NoFile, new.sec = old.sec, Fits(old)
    PROVE  Fits(new)
BY DEF Fits, EffectiveIn

\* What a step writes keeps every secret that is in use.
LEMMA TextsFit ==
    ASSUME Inv, Fits(env), env # NoFile
    PROVE  /\ Fits([env EXCEPT !.pending = TRUE])
           /\ Fits([env EXCEPT !.pending = FALSE])
           /\ \A on \in SUBSET Profile : Fits([env EXCEPT !.on = on])
           /\ Fits([env EXCEPT !.tag = me.tag])
           /\ env.sec["ORCH_KEK"] \in {0, me.kek} =>
                Fits([env EXCEPT !.sec["ORCH_KEK"] = me.kek])
           /\ env.sec["ENGAGEMENT_SECRET"] = 0 =>
                Fits([env EXCEPT !.sec["ENGAGEMENT_SECRET"] = Fresh("ENGAGEMENT_SECRET")])
<1>1. env \in Text /\ env.tag \in Tag /\ me.tag \in Tag
  BY DEF Inv, TypeOK, FileOK, FileInv, Decisions
<1>2. ASSUME NEW t, t.tag \in Tag PROVE t # NoFile
  BY <1>2 DEF NoFile, Tag
<1>3. Fits([env EXCEPT !.pending = TRUE]) /\ Fits([env EXCEPT !.pending = FALSE])
  BY <1>1, <1>2, SameSecrets DEF Text
<1>4. ASSUME NEW on \in SUBSET Profile
      PROVE  Fits([env EXCEPT !.on = on])
  BY <1>1, <1>2, SameSecrets DEF Text
<1>5. Fits([env EXCEPT !.tag = me.tag])
  BY <1>1, <1>2, SameSecrets DEF Text
<1>6. ASSUME env.sec["ORCH_KEK"] \in {0, me.kek}
      PROVE  Fits([env EXCEPT !.sec["ORCH_KEK"] = me.kek])
  <2> DEFINE t == [env EXCEPT !.sec["ORCH_KEK"] = me.kek]
  <2>1. t # NoFile
    BY <1>1, <1>2 DEF Text
  <2>2. \A s \in Secret : t.sec[s] = IF s = "ORCH_KEK" THEN me.kek ELSE env.sec[s]
    BY <1>1 DEF Text
  <2> QED
    BY <1>6, <2>1, <2>2 DEF Fits, EffectiveIn
<1>7. ASSUME env.sec["ENGAGEMENT_SECRET"] = 0
      PROVE  Fits([env EXCEPT !.sec["ENGAGEMENT_SECRET"] = Fresh("ENGAGEMENT_SECRET")])
  <2> DEFINE t == [env EXCEPT !.sec["ENGAGEMENT_SECRET"] = Fresh("ENGAGEMENT_SECRET")]
  <2>1. t # NoFile
    BY <1>1, <1>2 DEF Text
  <2>2. \A s \in Secret \ {"ENGAGEMENT_SECRET"} : t.sec[s] = env.sec[s]
    BY <1>1 DEF Text
  <2> QED
    BY <1>7, <2>1, <2>2 DEF Fits, EffectiveIn, Secret
<1> QED
  BY <1>3, <1>4, <1>5, <1>6, <1>7

\* A deploy's new .env too, over the one of a plane or where there is none.
LEMMA RenderedFits ==
    ASSUME Inv, Fits(env), me.existing = (env # NoFile)
    PROVE  Fits(Rendered)
<1>1. Rendered # NoFile
  BY DEF Rendered, NoFile, Inv, TypeOK, Decisions, Tag
<1>2. ASSUME used["DB_PASSWORD"] # 0
      PROVE  EffectiveIn(Rendered, "DB_PASSWORD") = used["DB_PASSWORD"]
  <2>1. env # NoFile /\ EffectiveIn(env, "DB_PASSWORD") = used["DB_PASSWORD"]
    BY <1>2 DEF Fits, Secret
  <2> QED
    BY <2>1 DEF Rendered, EffectiveIn, KeptPassword, ExistingOrFresh, Secret
<1>3. ASSUME used["ORCH_KEK"] # 0
      PROVE  EffectiveIn(Rendered, "ORCH_KEK") = used["ORCH_KEK"]
  BY <1>3 DEF Fits, Rendered, EffectiveIn, ExistingOrFresh, Secret
<1>4. ASSUME used["ENGAGEMENT_SECRET"] # 0
      PROVE  EffectiveIn(Rendered, "ENGAGEMENT_SECRET") = used["ENGAGEMENT_SECRET"]
  BY <1>4 DEF Fits, Rendered, EffectiveIn, ExistingOrFresh, Secret
<1> QED
  BY <1>1, <1>2, <1>3, <1>4 DEF Fits, Secret

\* Services that start use what .env gives them.
LEMMA StartFits ==
    ASSUME Inv, Fits(env), env # NoFile, NEW S, NEW tag, StartServices(S, tag), UNCHANGED file
    PROVE  Fits(env)'
BY DEF StartServices, Fits, EffectiveIn, file

\* A step that neither moves the run past a write nor changes what is in use.
LEMMA SecretsUnchanged ==
    ASSUME SecretInv, UNCHANGED <<file, used>>,
           \/ UNCHANGED me /\ pc' # "remove" /\ (BeforeKEK' => BeforeKEK)
           \/ UNCHANGED <<me, pc>>
           \/ EndRun
    PROVE  SecretInv'
<1>1. Fits(env)' /\ (~Quiet => Fits(write.text))'
  BY DEF SecretInv, Fits, EffectiveIn, file, Quiet
<1>2. CASE EndRun
  BY <1>1, <1>2 DEF SecretInv, EndRun, NoRun, BeforeKEK
<1>3. CASE UNCHANGED <<me, pc>>
  BY <1>1, <1>3 DEF SecretInv, BeforeKEK, file, Quiet
<1>4. CASE UNCHANGED me /\ pc' # "remove" /\ (BeforeKEK' => BeforeKEK)
  BY <1>1, <1>4 DEF SecretInv, file, Quiet
<1> QED
  BY <1>2, <1>3, <1>4

\* A write that is begun.
LEMMA SecretsWrite ==
    ASSUME SecretInv, NEW text, WriteEnv(text), Fits(text), UNCHANGED used, pc' # "remove",
           BeforeKEK' => /\ BeforeKEK /\ me' = me
                         /\ text.sec["ORCH_KEK"] = env.sec["ORCH_KEK"]
    PROVE  SecretInv'
<1>1. Fits(env)' /\ Fits(write.text)'
  BY DEF SecretInv, Fits, EffectiveIn, WriteEnv
<1> QED
  BY <1>1 DEF SecretInv, WriteEnv

LEMMA SecretStep ==
    ASSUME Inv, SecretInv, [Next]_vars
    PROVE  SecretInv'
<1> USE DEF Inv
<1>1. Fits(env)
  BY DEF SecretInv
<1>2. CASE BeginUpgrade
  <2>1. PICK tag \in Tags, ai \in {"keep", "on", "off"} : Begin(UpgradeRun(tag, ai), "pull")
    BY <1>2 DEF BeginUpgrade
  <2>2. Fits(env)' /\ Quiet'
    BY <1>1, <2>1 DEF Begin, file, world, Fits, EffectiveIn, PlaceInv, Quiet
  <2>3. ai = "on" => UpgradeRun(tag, ai).kek # 0 /\ env.sec["ORCH_KEK"] \in {0, UpgradeRun(tag, ai).kek}
    BY ExistingIsValue DEF UpgradeRun, ExistingOrFresh, Secret
  <2>4. UpgradeRun(tag, ai).ai = ai
    BY DEF UpgradeRun
  <2> QED
    BY <2>1, <2>2, <2>3, <2>4 DEF SecretInv, BeforeKEK, Begin, file
<1>3. CASE BeginDeploy \/ BeginUninstall
  <2>1. Fits(env)' /\ Quiet' /\ pc' \in {"render", "down"}
    BY <1>1, <1>3 DEF BeginDeploy, BeginUninstall, Begin, file, world, Fits, EffectiveIn, PlaceInv, Quiet
  <2> QED
    BY <2>1 DEF SecretInv, BeforeKEK
<1>4. CASE Pull
  BY <1>4, SecretsUnchanged DEF Pull, Refuse, Go, At, world, BeforeKEK
<1>5. CASE Record
  <2>1. env # NoFile /\ UNCHANGED used /\ pc' = "reset" /\ me' = me
    BY <1>5, FileThere DEF Record, Go, At, world
  <2>2. BeforeKEK' => BeforeKEK
    BY <1>5, <2>1 DEF Record, At, BeforeKEK
  <2>3. CASE WriteEnv([env EXCEPT !.pending = TRUE])
    <3>1. [env EXCEPT !.pending = TRUE].sec = env.sec
      BY DEF TypeOK, FileOK, Text
    <3> QED
      BY <1>1, <2>1, <2>2, <2>3, <3>1, TextsFit, SecretsWrite
  <2>4. CASE UNCHANGED file
    BY <2>1, <2>2, <2>4, SecretsUnchanged
  <2> QED
    BY <1>5, <2>3, <2>4, Zenon DEF Record
<1>6. CASE Reset
  <2>1. BeforeKEK' => BeforeKEK
    BY <1>6 DEF Reset, Go, At, BeforeKEK
  <2> QED
    BY <1>6, <2>1, SecretsUnchanged DEF Reset, Go
<1>7. ASSUME NEW from \in Step, NEW to \in Step, NEW needed, NEW text,
             Set(from, to, needed, text), from \notin {"idle", "render"}, to # "remove",
             to \in {"tag", "kek"} => from \in {"profiles", "tag"},
             to \notin {"pull", "record", "reset", "profiles"},
             needed => Fits(text) /\ (to # "secret" => text.sec["ORCH_KEK"] = env.sec["ORCH_KEK"])
      PROVE  SecretInv'
  <2>1. At(from) /\ pc' = to /\ me' = me /\ used' = used
    BY <1>7, Zenon DEF Set, Go, world
  <2>2. BeforeKEK' => BeforeKEK /\ to # "secret"
    BY <1>7, <2>1 DEF At, BeforeKEK
  <2>3. CASE needed /\ WriteEnv(text)
    BY <1>7, <2>1, <2>2, <2>3, SecretsWrite
  <2>4. CASE UNCHANGED file
    BY <1>7, <2>1, <2>2, <2>4, SecretsUnchanged
  <2> QED
    BY <1>7, <2>3, <2>4, Zenon DEF Set
<1>8. CASE SetProfiles
  <2>1. env # NoFile
    BY <1>8, FileThere DEF SetProfiles, Set
  <2>2. me.on \in SUBSET Profile /\ [env EXCEPT !.on = me.on].sec = env.sec
    BY DEF TypeOK, FileOK, Text, Decisions
  <2> QED
    BY <1>1, <1>7, <1>8, <2>1, <2>2, TextsFit DEF SetProfiles, Step
<1>9. CASE SetTag
  <2>1. env # NoFile
    BY <1>9, FileThere DEF SetTag, Set
  <2>2. [env EXCEPT !.tag = me.tag].sec = env.sec
    BY DEF TypeOK, FileOK, Text
  <2> QED
    BY <1>1, <1>7, <1>9, <2>1, <2>2, TextsFit DEF SetTag, Step
<1>10. CASE SetKEK
  <2> DEFINE text == [env EXCEPT !.sec["ORCH_KEK"] = me.kek]
  <2>1. env # NoFile
    BY <1>10, FileThere DEF SetKEK, Set
  <2>2. me.ai = "on" => env.sec["ORCH_KEK"] \in {0, me.kek}
    BY <1>10 DEF SetKEK, Set, At, SecretInv, BeforeKEK, PlaceInv
  <2>3. me.ai = "on" => Fits(text)
    BY <1>1, <2>1, <2>2, TextsFit
  <2>4. Set("kek", "secret", me.ai = "on", text)
    BY <1>10 DEF SetKEK
  <2>5. "kek" \in Step /\ "secret" \in Step
    BY DEF Step
  <2> HIDE DEF text
  <2> QED
    BY <1>7, <2>3, <2>4, <2>5, Zenon
<1>11. CASE BackfillSecret
  <2> DEFINE text == [env EXCEPT !.sec["ENGAGEMENT_SECRET"] = Fresh("ENGAGEMENT_SECRET")]
  <2>1. env # NoFile
    BY <1>11, FileThere DEF BackfillSecret, Set
  <2>2. text.sec["ORCH_KEK"] = env.sec["ORCH_KEK"]
    BY DEF TypeOK, FileOK, Text, Secret
  <2>3. env.sec["ENGAGEMENT_SECRET"] = 0 => Fits(text)
    BY <1>1, <2>1, TextsFit
  <2>4. Set("secret", "off", env.sec["ENGAGEMENT_SECRET"] = 0, text)
    BY <1>11 DEF BackfillSecret
  <2>5. "secret" \in Step /\ "off" \in Step
    BY DEF Step
  <2> HIDE DEF text
  <2> QED
    BY <1>7, <2>2, <2>3, <2>4, <2>5, Zenon
<1>12. CASE ClearRecord
  <2>1. env # NoFile
    BY <1>12, FileThere DEF ClearRecord, Set
  <2>2. [env EXCEPT !.pending = FALSE].sec = env.sec
    BY DEF TypeOK, FileOK, Text
  <2> QED
    BY <1>1, <1>7, <1>12, <2>1, <2>2, TextsFit DEF ClearRecord, Step
<1>13. CASE Render
  <2>1. me.existing = (env # NoFile) /\ me.cmd = "deploy"
    BY <1>13 DEF Render, At, PlaceInv
  <2>2. Fits(Rendered)
    BY <1>1, <2>1, RenderedFits
  <2>3. ~BeforeKEK'
    <3>1. me'.cmd = me.cmd
      BY <1>13 DEF Render, TypeOK, Decisions
    <3> QED
      BY <2>1, <3>1 DEF BeforeKEK
  <2> QED
    BY <1>13, <2>2, <2>3, SecretsWrite DEF Render, world
<1>14. CASE StopTurnedOff \/ RemoveInactive
  <2>1. UNCHANGED <<file, used, me>> /\ pc' \in {"leftovers", "up"}
    BY <1>14, Zenon DEF StopTurnedOff, RemoveInactive, Remove, RemoveServices, world
  <2> QED
    BY <2>1, SecretsUnchanged DEF BeforeKEK
<1>15. CASE Up
  <2>1. env # NoFile /\ Quiet /\ UNCHANGED file
    BY <1>15, FileThere DEF Up, At
  <2>2. Fits(env)'
    BY <1>1, <1>15, <2>1, StartFits DEF Up
  <2>3. pc' \in {"check", "idle"} /\ Quiet'
    BY <1>15, <2>1 DEF Up, Go, EndRun, Quiet, file
  <2> QED
    BY <2>2, <2>3 DEF SecretInv, BeforeKEK
<1>16. CASE Check
  BY <1>16, SecretsUnchanged DEF Check, Refuse, Go, world, BeforeKEK
<1>17. CASE Succeed
  BY <1>17, SecretsUnchanged DEF Succeed, Refuse, world
<1>18. CASE Down
  <2>1. CASE /\ used' = Unset
             /\ Go("remove")
    <3>1. Fits(env)' /\ Fits(write.text)'
      BY <2>1 DEF Fits, Unset
    <3> QED
      BY <2>1, <3>1 DEF SecretInv, Go, BeforeKEK
  <2>2. CASE UNCHANGED used /\ EndRun
    BY <1>18, <2>2, SecretsUnchanged DEF Down
  <2> QED
    BY <1>18, <2>1, <2>2 DEF Down
<1>19. CASE RemoveDir
  <2>1. used' = Unset /\ Quiet' /\ pc' = "idle"
    BY <1>19 DEF RemoveDir, RemoveFile, At, SecretInv, EndRun, Quiet
  <2>2. Fits(env)'
    BY <2>1 DEF Fits, Unset
  <2> QED
    BY <2>1, <2>2 DEF SecretInv, BeforeKEK
<1>20. CASE WriteStep
  <2>1. UNCHANGED <<used, pc, me>>
    BY <1>20 DEF WriteStep, world
  <2>2. write.at \in {"put", "cut"} /\ Fits(write.text)
    BY <1>20 DEF WriteStep, Write, Rename, WriteOver, Truncate, SecretInv, Quiet, NoWrite
  <2>3. env' \in {env, write.text} /\ (env' = write.text \/ Quiet')
    BY <1>20 DEF WriteStep, Write, Rename, WriteOver, Truncate, Quiet
  <2>4. Fits(env)'
    BY <1>1, <2>1, <2>2, <2>3 DEF Fits, EffectiveIn
  <2>5. ~Quiet' => write'.text = write.text
    BY <1>20 DEF WriteStep, Write, Rename, WriteOver, Truncate, Quiet, TypeOK, FileOK
  <2>6. (~Quiet => Fits(write.text))'
    BY <2>1, <2>2, <2>5 DEF Fits, EffectiveIn
  <2>7. BeforeKEK' => BeforeKEK /\ env'.sec["ORCH_KEK"] = env.sec["ORCH_KEK"]
    BY <2>1, <2>2, <2>3 DEF BeforeKEK, SecretInv, Quiet, NoWrite
  <2>8. BeforeKEK' /\ ~Quiet' => write'.text.sec["ORCH_KEK"] = env'.sec["ORCH_KEK"]
    BY <2>2, <2>3, <2>5, <2>7 DEF SecretInv, Quiet, NoWrite
  <2> QED
    BY <2>1, <2>4, <2>6, <2>7, <2>8 DEF SecretInv
<1>21. CASE Stop \/ MachineLost
  <2>1. env' = env /\ used' = used /\ Quiet' /\ pc' = "idle"
    BY <1>21 DEF Stop, MachineLost, Abandon, Tear, EndRun, world, Quiet
  <2>2. Fits(env)'
    BY <1>1, <2>1 DEF Fits, EffectiveIn
  <2> QED
    BY <2>1, <2>2 DEF SecretInv, BeforeKEK
<1>22. CASE ComposeUp
  <2>1. Fits(env)'
    BY <1>1, <1>22, StartFits DEF ComposeUp
  <2>2. Quiet' /\ UNCHANGED <<file, pc, me>> /\ pc # "remove"
    BY <1>22 DEF ComposeUp, PlaceInv, file, Quiet
  <2> QED
    BY <2>1, <2>2 DEF SecretInv, BeforeKEK, file
<1>23. CASE ComposeDown \/ PinEngine
  BY <1>23, SecretsUnchanged DEF ComposeDown, RemoveServices, PinEngine
<1>24. CASE EditProfiles
  <2>1. Quiet' /\ UNCHANGED <<used, pc, me>>
    BY <1>24 DEF EditProfiles, world, Quiet
  <2>2. env'.sec = env.sec /\ env' # NoFile
    <3>1. env.tag \in Tag /\ env'.tag = env.tag /\ env'.sec = env.sec
      BY <1>24 DEF EditProfiles, FileInv, TypeOK, FileOK, Text
    <3> QED
      BY <3>1 DEF NoFile, Tag
  <2>3. Fits(env)'
    BY <1>1, <2>1, <2>2 DEF Fits, EffectiveIn
  <2> QED
    BY <2>1, <2>2, <2>3 DEF SecretInv, BeforeKEK
<1>25. CASE UNCHANGED vars
  BY <1>25, SecretsUnchanged DEF vars, world
<1> QED
  BY <1>2, <1>3, <1>4, <1>5, <1>6, <1>8, <1>9, <1>10, <1>11, <1>12, <1>13, <1>14, <1>15, <1>16,
     <1>17, <1>18, <1>19, <1>20, <1>21, <1>22, <1>23, <1>24, <1>25
     DEF Next, RunStep, Operator, Commit

\* No run, finished or stopped at any point, takes the plane's data its secrets
\* (existingOrRandom, applyDocker, backfillEngagementSecret, uninstallDocker).
THEOREM SecretsStay == Spec => []SecretsFit
<1>1. Inv /\ SecretInv /\ [Next]_vars => SecretInv'
  BY SecretStep
<1>2. SecretInv => SecretsFit
  BY DEF SecretInv, SecretsFit
<1> QED
  BY SecretInit, Invariance, <1>1, <1>2, PTL DEF Spec

-----------------------------------------------------------------------------
(***************************************************************************)
(* What a run writes, starts and checks.                                   *)
(***************************************************************************)

\* The text .env has once the write under way is over.
Coming == IF Quiet THEN env ELSE write.text

Started == {"check", "clear", "done"}
AfterCommit == {"off", "leftovers", "up"} \cup Started

\* The run has handed .env its release; its profiles.
TagGiven ==
    \/ me.cmd = "upgrade" /\ pc \in {"kek", "secret"} \cup AfterCommit
    \/ me.cmd = "deploy" /\ pc \in {"record", "reset"} \cup AfterCommit
OnGiven ==
    me.cmd = "upgrade" /\ me.ai # "keep" /\ pc \in {"tag", "kek", "secret"} \cup AfterCommit

\* The profiles that are the operator's are the same in every text.
OwnInv ==
    /\ ~touched /\ ~Quiet => write.text.on \ Managed = env.on \ Managed
    /\ ~touched /\ me.cmd = "upgrade" /\ pc \in {"pull", "record", "reset", "profiles"} =>
          me.on \ Managed = env.on \ Managed
    /\ pc = "render" => me.on \subseteq Managed

\* What the run works with is what .env says or will say.
GivenInv ==
    /\ TagGiven => Coming.tag = me.tag
    /\ ~touched /\ OnGiven => Coming.on = me.on
    /\ pc \in Started => Coming.on = env.on /\ Coming.tag = env.tag /\ (pc # "done" => Quiet)

\* What the run has started, and what it has checked.
CheckedInv ==
    /\ ~touched /\ pc \in Started => \A s \in Runs(env.on) : con[s] = Image(s, me.tag)
    /\ ~touched /\ pc \in {"clear", "done"} =>
          /\ table = Gen(me.tag)
          /\ \A s \in Service : con[s] # "none" => Gen(con[s]) = Gen(me.tag)

RunInv == OwnInv /\ GivenInv /\ CheckedInv

LEMMA RunInit == Init => RunInv
BY DEF Init, NoRun, RunInv, OwnInv, GivenInv, CheckedInv, Quiet, Started, AfterCommit, TagGiven, OnGiven

\* Between runs there is nothing to keep.
LEMMA RunEnds ==
    ASSUME pc' = "idle", Quiet'
    PROVE  RunInv'
BY DEF RunInv, OwnInv, GivenInv, CheckedInv, Started, AfterCommit, TagGiven, OnGiven

LEMMA RunBegins ==
    ASSUME Inv, BeginUpgrade \/ BeginDeploy \/ BeginUninstall
    PROVE  RunInv'
<1>1. Quiet' /\ env' = env
  BY DEF Inv, PlaceInv, BeginUpgrade, BeginDeploy, BeginUninstall, Begin, file, Quiet
<1>2. pc' \in {"pull", "render", "down"}
  BY DEF BeginUpgrade, BeginDeploy, BeginUninstall, Begin
<1>3. pc' = "pull" => me'.on \ Managed = env'.on \ Managed
  <2>1. CASE BeginUpgrade
    <3>1. PICK tag \in Tags, ai \in {"keep", "on", "off"} : me' = UpgradeRun(tag, ai)
      BY <2>1 DEF BeginUpgrade, Begin
    <3> QED
      BY <1>1, <3>1 DEF UpgradeRun, WithProfile, Managed
  <2>2. CASE BeginDeploy \/ BeginUninstall
    BY <2>2 DEF BeginDeploy, BeginUninstall, Begin
  <2> QED
    BY <2>1, <2>2
<1>4. pc' = "render" => me'.on \subseteq Managed
  <2>1. CASE BeginDeploy
    BY <2>1 DEF BeginDeploy, Begin, DeployRun, Answers
  <2>2. CASE BeginUpgrade \/ BeginUninstall
    BY <2>2 DEF BeginUpgrade, BeginUninstall, Begin
  <2> QED
    BY <2>1, <2>2
<1> QED
  BY <1>1, <1>2, <1>3, <1>4
     DEF RunInv, OwnInv, GivenInv, CheckedInv, Started, AfterCommit, TagGiven, OnGiven

\* A write under way keeps the text that comes.
LEMMA WriteKeeps ==
    ASSUME Inv, Write
    PROVE  /\ Coming' = Coming
           /\ ~Quiet
           /\ env' \in {env, write.text}
           /\ ~Quiet' => write'.text = write.text /\ env' = write.text
BY DEF Inv, TypeOK, FileOK, FileInv, Write, Rename, WriteOver, Truncate, Coming, Quiet, NoWrite

\* A write that is begun, by a run that has not started the services.
LEMMA RunWrites ==
    ASSUME Inv, RunInv, NEW text, WriteEnv(text), touched' = touched,
           pc' \notin {"render"} \cup Started,
           text.on \ Managed = env.on \ Managed \/ touched,
           me'.cmd = "upgrade" /\ pc' \in {"pull", "record", "reset", "profiles"} =>
               me' = me /\ pc \in {"pull", "record", "reset", "profiles"},
           TagGiven' => text.tag = me'.tag,
           ~touched /\ OnGiven' => text.on = me'.on
    PROVE  RunInv'
<1>1. ~Quiet' /\ env' = env /\ write'.text = text
  BY DEF WriteEnv, Quiet, NoWrite
<1> QED
  BY <1>1 DEF RunInv, OwnInv, GivenInv, CheckedInv, Coming, Started

\* A step that goes on without a write, before the services are started.
LEMMA RunGoesOn ==
    ASSUME Inv, RunInv, Quiet, UNCHANGED <<file, me, touched>>,
           pc' \notin {"render"} \cup Started,
           pc' \in {"pull", "record", "reset", "profiles"} =>
               pc \in {"pull", "record", "reset", "profiles"},
           TagGiven' => env.tag = me.tag,
           ~touched /\ OnGiven' => env.on = me.on
    PROVE  RunInv'
<1>1. Quiet' /\ env' = env /\ me' = me /\ touched' = touched
  BY DEF file, Quiet
<1> QED
  BY <1>1 DEF RunInv, OwnInv, GivenInv, CheckedInv, Coming, Started

\* The steps before the services are started.
LEMMA EarlySteps ==
    ASSUME Inv, RunInv,
           Pull \/ Record \/ Reset \/ Commit \/ Render \/ StopTurnedOff \/ RemoveInactive
    PROVE  RunInv'
<1> USE DEF Started, AfterCommit
<1>1. Quiet => Coming = env
  BY DEF Coming
<1>2. env \in Text /\ me \in Decisions
  BY DEF Inv, TypeOK, FileOK
<1>3. CASE Pull
  <2>1. CASE Refuse
    BY <1>3, <2>1, RunEnds DEF Pull, Refuse, EndRun, At, file, Quiet
  <2>2. CASE Go("record") /\ UNCHANGED file
    <3>1. me.cmd = "upgrade"
      BY <1>3 DEF Pull, At, Inv, PlaceInv
    <3> QED
      BY <1>3, <2>2, <3>1, RunGoesOn DEF Pull, At, Go, TagGiven, OnGiven
  <2> QED
    BY <1>3, <2>1, <2>2 DEF Pull
<1>4. CASE Record
  <2>1. Quiet /\ pc = "record" /\ pc' = "reset" /\ UNCHANGED <<me, touched>>
    BY <1>4 DEF Record, At, Go
  <2>2. /\ TagGiven' => env.tag = me.tag
        /\ ~touched /\ OnGiven' => env.on = me.on
    BY <1>1, <2>1 DEF RunInv, GivenInv, TagGiven, OnGiven
  <2>3. CASE UNCHANGED file
    BY <2>1, <2>2, <2>3, RunGoesOn
  <2>4. CASE WriteEnv([env EXCEPT !.pending = TRUE])
    <3> DEFINE text == [env EXCEPT !.pending = TRUE]
    <3>1. text.on = env.on /\ text.tag = env.tag /\ WriteEnv(text)
      BY <1>2, <2>4 DEF Text
    <3> HIDE DEF text
    <3> QED
      BY <2>1, <2>2, <3>1, RunWrites
  <2> QED
    BY <1>4, <2>3, <2>4, Zenon DEF Record
<1>5. CASE Reset
  <2>1. Quiet /\ pc = "reset" /\ UNCHANGED <<file, me, touched>>
        /\ pc' = IF me.cmd = "upgrade" THEN "profiles" ELSE "off"
    BY <1>5 DEF Reset, At, Go
  <2>2. me.cmd \in {"upgrade", "deploy"}
    BY <1>2, <2>1 DEF Inv, PlaceInv, Decisions
  <2>3. /\ TagGiven' => env.tag = me.tag
        /\ ~touched /\ OnGiven' => env.on = me.on
    BY <1>1, <2>1, <2>2 DEF RunInv, GivenInv, TagGiven, OnGiven
  <2> QED
    BY <2>1, <2>2, <2>3, RunGoesOn
<1>6. CASE SetProfiles
  <2> DEFINE text == [env EXCEPT !.on = me.on]
  <2>1. Quiet /\ pc = "profiles" /\ pc' = "tag" /\ UNCHANGED <<me, touched>>
    BY <1>6, Zenon DEF SetProfiles, Set, At, Go
  <2>2. text.on = me.on /\ (~touched => me.on \ Managed = env.on \ Managed)
    BY <1>2, <2>1 DEF Text, RunInv, OwnInv, Inv, PlaceInv
  <2>3. CASE me.ai # "keep" /\ WriteEnv(text)
    <3> HIDE DEF text
    <3> QED
      BY <2>1, <2>2, <2>3, RunWrites DEF TagGiven
  <2>4. CASE me.ai = "keep" /\ UNCHANGED file
    BY <2>1, <2>4, RunGoesOn DEF TagGiven, OnGiven
  <2> QED
    BY <1>6, <2>3, <2>4 DEF SetProfiles, Set
<1>7. CASE SetTag
  <2> DEFINE text == [env EXCEPT !.tag = me.tag]
  <2>1. Quiet /\ pc = "tag" /\ pc' = "kek" /\ UNCHANGED <<me, touched>> /\ WriteEnv(text)
    BY <1>7, Zenon DEF SetTag, Set, At, Go
  <2>2. text.on = env.on /\ text.tag = me.tag
    BY <1>2 DEF Text
  <2>3. ~touched /\ OnGiven' => env.on = me.on
    BY <1>1, <2>1 DEF RunInv, GivenInv, OnGiven
  <2> HIDE DEF text
  <2> QED
    BY <2>1, <2>2, <2>3, RunWrites
<1>8. ASSUME NEW from, NEW to, NEW needed, NEW text, Set(from, to, needed, text),
             from \in {"kek", "secret"}, to \in {"secret", "off"},
             needed => text.on = env.on /\ text.tag = env.tag
      PROVE  RunInv'
  <2>1. Quiet /\ pc = from /\ pc' = to /\ UNCHANGED <<me, touched>>
    BY <1>8, Zenon DEF Set, At, Go
  <2>2. me.cmd = "upgrade"
    BY <1>8, <2>1 DEF Inv, PlaceInv
  <2>3. /\ env.tag = me.tag
        /\ ~touched /\ OnGiven' => env.on = me.on
    BY <1>1, <1>8, <2>1, <2>2 DEF RunInv, GivenInv, TagGiven, OnGiven
  <2>4. CASE needed /\ WriteEnv(text)
    BY <1>8, <2>1, <2>3, <2>4, RunWrites
  <2>5. CASE UNCHANGED file
    BY <1>8, <2>1, <2>3, <2>5, RunGoesOn
  <2> QED
    BY <1>8, <2>4, <2>5, Zenon DEF Set
<1>9. CASE SetKEK
  <2> DEFINE text == [env EXCEPT !.sec["ORCH_KEK"] = me.kek]
  <2>1. Set("kek", "secret", me.ai = "on", text) /\ text.on = env.on /\ text.tag = env.tag
    BY <1>2, <1>9 DEF SetKEK, Text
  <2> HIDE DEF text
  <2> QED
    BY <1>8, <2>1
<1>10. CASE BackfillSecret
  <2> DEFINE text == [env EXCEPT !.sec["ENGAGEMENT_SECRET"] = Fresh("ENGAGEMENT_SECRET")]
  <2>1. /\ Set("secret", "off", env.sec["ENGAGEMENT_SECRET"] = 0, text)
        /\ text.on = env.on /\ text.tag = env.tag
    BY <1>2, <1>10 DEF BackfillSecret, Text
  <2> HIDE DEF text
  <2> QED
    BY <1>8, <2>1
<1>11. CASE Render
  <2>1. Quiet /\ pc = "render" /\ pc' = "record" /\ me.cmd = "deploy" /\ touched' = touched
        /\ WriteEnv(Rendered)
    BY <1>11 DEF Render, At, Inv, PlaceInv
  <2>2. me'.cmd = "deploy" /\ me'.tag = me.tag
    BY <1>2, <1>11, <2>1 DEF Render, Decisions
  <2>3. Rendered.tag = me.tag /\ Rendered.on \ Managed = env.on \ Managed
    BY <2>1 DEF Rendered, DeployProfiles, RunInv, OwnInv
  <2> QED
    BY <2>1, <2>2, <2>3, RunWrites DEF OnGiven
<1>12. CASE StopTurnedOff \/ RemoveInactive
  <2>1. /\ Quiet /\ UNCHANGED <<file, me, touched>>
        /\ pc \in {"off", "leftovers"} /\ pc' \in {"leftovers", "up"}
    BY <1>12, Zenon DEF StopTurnedOff, RemoveInactive, Remove, At
  <2>2. /\ TagGiven' => env.tag = me.tag
        /\ ~touched /\ OnGiven' => env.on = me.on
    BY <1>1, <2>1 DEF RunInv, GivenInv, TagGiven, OnGiven
  <2> QED
    BY <2>1, <2>2, RunGoesOn
<1> QED
  BY <1>3, <1>4, <1>5, <1>6, <1>7, <1>9, <1>10, <1>11, <1>12 DEF Commit

\* `up`: what it started is what .env names.
LEMMA UpStep ==
    ASSUME Inv, RunInv, Up
    PROVE  RunInv'
<1> USE DEF Started, AfterCommit
<1>1. Quiet /\ Quiet' /\ pc = "up" /\ env' = env /\ Coming = env /\ Coming' = env
  BY DEF Up, At, file, Quiet, Coming
<1>2. CASE EndRun
  BY <1>1, <1>2, RunEnds DEF EndRun
<1>3. CASE StartServices(Runs(UpProfiles), me.tag) /\ Go("check")
  <2>1. pc' = "check" /\ UNCHANGED <<me, touched>> /\ pin' = pin
    BY <1>3 DEF Go, StartServices
  <2>2. me.cmd \in {"upgrade", "deploy"}
    BY <1>1 DEF Inv, PlaceInv, TypeOK, Decisions
  <2>3. env.tag = me.tag
    BY <1>1, <2>2 DEF RunInv, GivenInv, TagGiven
  <2>4. ~touched => UpProfiles = env.on
    BY <1>1, <2>2 DEF RunInv, GivenInv, OnGiven, UpProfiles
  <2>5. ~touched => \A s \in Runs(env.on) : con'[s] = Image(s, me.tag)
    BY <1>3, <2>4 DEF StartServices, Runs, Service
  <2>6. OwnInv'
    BY <1>1, <2>1 DEF OwnInv
  <2>7. GivenInv'
    BY <1>1, <2>1, <2>3, <2>4, <2>2 DEF GivenInv, UpProfiles, OnGiven, RunInv
  <2>8. CheckedInv'
    BY <1>1, <2>1, <2>5 DEF CheckedInv, Image, Runs
  <2> QED
    BY <2>6, <2>7, <2>8 DEF RunInv
<1> QED
  BY <1>2, <1>3 DEF Up

\* The check of what runs.
LEMMA CheckStep ==
    ASSUME Inv, RunInv, Check
    PROVE  RunInv'
<1> USE DEF Started, AfterCommit
<1>1. Quiet /\ pc = "check" /\ UNCHANGED <<file, world>>
  BY DEF Check, At, Refuse
<1>2. Quiet' /\ env' = env /\ Coming = env /\ Coming' = env
  BY <1>1 DEF file, Quiet, Coming
<1>3. CASE Refuse
  BY <1>2, <1>3, RunEnds DEF Refuse, EndRun
<1>4. CASE RunningFit /\ Go("clear")
  <2>1. pc' = "clear" /\ UNCHANGED <<me, touched, con, table, pin>>
    BY <1>1, <1>4 DEF Go, world
  <2>2. table = Gen(me.tag) /\ \A s \in Service : con[s] # "none" => Gen(con[s]) = Gen(me.tag)
    BY <1>4 DEF RunningFit, CheckedServices
  <2>3. OwnInv'
    BY <1>2, <2>1 DEF OwnInv
  <2>4. GivenInv'
    BY <1>1, <1>2, <2>1 DEF GivenInv, RunInv, TagGiven, OnGiven
  <2>5. CheckedInv'
    BY <1>1, <1>2, <2>1, <2>2 DEF CheckedInv, RunInv, Image, Runs
  <2> QED
    BY <2>3, <2>4, <2>5 DEF RunInv
<1> QED
  BY <1>3, <1>4 DEF Check

\* The record of the reset is taken away.
LEMMA ClearStep ==
    ASSUME Inv, RunInv, ClearRecord
    PROVE  RunInv'
<1> USE DEF Started, AfterCommit
<1> DEFINE text == [env EXCEPT !.pending = FALSE]
<1>1. /\ Quiet /\ pc = "clear" /\ pc' = "done"
      /\ UNCHANGED <<me, touched, con, table, pin>>
      /\ WriteEnv(text) \/ UNCHANGED file
  BY Zenon DEF ClearRecord, Set, At, Go, world
<1>2. env' = env /\ Coming = env
  BY <1>1 DEF WriteEnv, file, Coming
<1>3. Coming'.on = env.on /\ Coming'.tag = env.tag
  <2>1. text.on = env.on /\ text.tag = env.tag
    BY DEF Inv, TypeOK, FileOK, Text
  <2>2. CASE WriteEnv(text)
    BY <2>1, <2>2 DEF WriteEnv, Coming, Quiet, NoWrite
  <2>3. CASE UNCHANGED file
    BY <1>1, <2>3 DEF file, Coming, Quiet
  <2> QED
    BY <1>1, <2>2, <2>3
<1>4. ~Quiet' => write'.text.on = env.on
  BY <1>3 DEF Coming
<1>5. OwnInv'
  BY <1>1, <1>2, <1>4 DEF OwnInv
<1>6. GivenInv'
  BY <1>1, <1>2, <1>3 DEF GivenInv, RunInv, TagGiven, OnGiven
<1>7. CheckedInv'
  BY <1>1, <1>2 DEF CheckedInv, RunInv, Image, Runs
<1> QED
  BY <1>5, <1>6, <1>7 DEF RunInv

\* A step of a write under way.
LEMMA WriteStepKeeps ==
    ASSUME Inv, RunInv, WriteStep
    PROVE  RunInv'
<1>1. UNCHANGED <<con, table, pin, pc, me, touched>>
  BY DEF WriteStep, world
<1>2. /\ Coming' = Coming /\ ~Quiet /\ env' \in {env, write.text}
      /\ ~Quiet' => write'.text = write.text /\ env' = write.text
  BY WriteKeeps DEF WriteStep
<1>3. Coming = write.text
  BY <1>2 DEF Coming
<1>4. ~touched => env'.on \ Managed = env.on \ Managed
  BY <1>2 DEF RunInv, OwnInv
<1>5. pc \in Started => env'.on = env.on /\ env'.tag = env.tag /\ pc = "done"
  BY <1>2, <1>3 DEF RunInv, GivenInv
<1>6. OwnInv'
  BY <1>1, <1>2, <1>4 DEF RunInv, OwnInv
<1>7. GivenInv'
  BY <1>1, <1>2, <1>5 DEF RunInv, GivenInv, TagGiven, OnGiven
<1>8. CheckedInv'
  BY <1>1, <1>5 DEF RunInv, CheckedInv, Image, Runs, Started
<1> QED
  BY <1>6, <1>7, <1>8 DEF RunInv

\* The operator between two writes; what touches the project is not answered for.
LEMMA OperatorKeeps ==
    ASSUME Inv, RunInv, Operator
    PROVE  RunInv'
<1>1. /\ Quiet /\ Quiet' /\ UNCHANGED <<pc, me>> /\ env'.tag = env.tag
      /\ Coming = env /\ Coming' = env'
  BY DEF Operator, ComposeUp, ComposeDown, EditProfiles, PinEngine, file, Quiet, Coming,
         Inv, TypeOK, FileOK, Text
<1>2. pc = "idle" => RunInv'
  BY <1>1, RunEnds
<1>3. CASE ComposeDown \/ EditProfiles \/ PinEngine
  <2>1. touched' = (pc # "idle")
    BY <1>3 DEF ComposeDown, EditProfiles, PinEngine
  <2>2. ASSUME pc # "idle" PROVE RunInv'
    <3>1. touched'
      BY <2>1, <2>2
    <3>2. OwnInv'
      BY <1>1, <3>1 DEF RunInv, OwnInv
    <3>3. GivenInv'
      BY <1>1, <3>1 DEF RunInv, GivenInv, TagGiven
    <3>4. CheckedInv'
      BY <3>1 DEF CheckedInv
    <3> QED
      BY <3>2, <3>3, <3>4 DEF RunInv
  <2> QED
    BY <1>2, <2>2
<1>4. CASE ComposeUp
  <2>1. UNCHANGED <<file, touched, pin>> /\ StartServices(Runs(env.on), env.tag)
    BY <1>4 DEF ComposeUp, StartServices
  <2>2. env' = env
    BY <2>1 DEF file
  <2>3. OwnInv'
    BY <1>1, <2>1, <2>2 DEF RunInv, OwnInv
  <2>4. GivenInv'
    BY <1>1, <2>1, <2>2 DEF RunInv, GivenInv, TagGiven, OnGiven
  <2>5. CheckedInv'
    <3>1. ASSUME ~touched, pc \in Started
          PROVE  \A s \in Runs(env.on) : con'[s] = Image(s, me.tag)
      <4>1. me.cmd # "uninstall"
        BY <1>4 DEF ComposeUp
      <4>2. env.tag = me.tag
        BY <1>1, <3>1, <4>1 DEF RunInv, GivenInv, TagGiven, AfterCommit, Inv, TypeOK, Decisions
      <4> QED
        BY <2>1, <4>2 DEF StartServices, Runs, Service
    <3>2. ASSUME ~touched, pc \in {"clear", "done"}
          PROVE  /\ table' = Gen(me.tag)
                 /\ \A s \in Service : con'[s] # "none" => Gen(con'[s]) = Gen(me.tag)
      <4>1. table = Gen(me.tag) /\ table' = table
        BY <2>1, <3>2 DEF RunInv, CheckedInv, StartServices, Gen
      <4>2. \A s \in Runs(env.on) : con'[s] = con[s]
        BY <3>1, <3>2 DEF RunInv, CheckedInv, Started
      <4>3. \A s \in Service \ Runs(env.on) : con'[s] = con[s]
        BY <2>1 DEF StartServices
      <4> QED
        BY <3>2, <4>1, <4>2, <4>3 DEF RunInv, CheckedInv
    <3> QED
      BY <1>1, <2>1, <2>2, <3>1, <3>2 DEF CheckedInv, Image, Runs
  <2> QED
    BY <2>3, <2>4, <2>5 DEF RunInv
<1> QED
  BY <1>3, <1>4 DEF Operator

LEMMA RunStepKeeps ==
    ASSUME Inv, RunInv, [Next]_vars
    PROVE  RunInv'
<1>1. CASE Succeed
  BY <1>1, RunEnds DEF Succeed, Refuse, At, EndRun, file, Quiet
<1>2. CASE Down
  <2>1. Quiet' /\ env' = env /\ pc' \in {"idle", "remove"}
    BY <1>2 DEF Down, At, Go, EndRun, file, Quiet
  <2> QED
    BY <2>1 DEF RunInv, OwnInv, GivenInv, CheckedInv, Started, AfterCommit, TagGiven, OnGiven
<1>3. CASE RemoveDir
  BY <1>3, RunEnds DEF RemoveDir, RemoveFile, At, EndRun, Quiet
<1>4. CASE Stop \/ MachineLost
  BY <1>4, RunEnds DEF Stop, MachineLost, Abandon, Tear, EndRun, Quiet
<1>5. CASE UNCHANGED vars
  BY <1>5 DEF vars, file, world, RunInv, OwnInv, GivenInv, CheckedInv, Coming, Quiet,
              TagGiven, OnGiven, Image, Runs
<1> QED
  BY <1>1, <1>2, <1>3, <1>4, <1>5, RunBegins, EarlySteps, UpStep, CheckStep, ClearStep,
     WriteStepKeeps, OperatorKeeps DEF Next, RunStep

LEMMA RunInvariance == Spec => [](Inv /\ RunInv)
BY RunInit, Invariance, RunStepKeeps, PTL DEF Spec

\* No run turns a profile on or off that is the operator's (deployProfiles,
\* withProfile).
THEOREM ProfilesStay == Spec => OwnProfilesKept
<1>1. Inv /\ RunInv => [WriteStep /\ ~touched => env'.on \ Managed = env.on \ Managed]_vars
  <2> SUFFICES ASSUME Inv, RunInv, WriteStep, ~touched
               PROVE  env'.on \ Managed = env.on \ Managed
    OBVIOUS
  <2> QED
    BY WriteKeeps DEF WriteStep, RunInv, OwnInv
<1> QED
  BY <1>1, RunInvariance, PTL DEF OwnProfilesKept

\* A run that reports success left no container that writes another table, one
\* it never started included (checkAfterUp).
THEOREM SuccessIsFit == Spec => SuccessFits
<1>1. Inv /\ RunInv =>
        [Succeed /\ ~touched => \A s \in Service : con[s] # "none" => Gen(con[s]) = table]_vars
  BY DEF Succeed, At, RunInv, CheckedInv
<1> QED
  BY <1>1, RunInvariance, PTL DEF SuccessFits

\* And a .env that starts the plane as it is (upgradeDocker's commit point).
THEOREM LaterUpIsSame == Spec => LaterUpSame
<1>1. Inv /\ RunInv =>
        [Succeed /\ ~touched => \A s \in Runs(env.on) : con[s] = Image(s, env.tag)]_vars
  <2> SUFFICES ASSUME Inv, RunInv, Succeed, ~touched
               PROVE  \A s \in Runs(env.on) : con[s] = Image(s, env.tag)
    OBVIOUS
  <2>1. pc = "done" /\ env.tag = me.tag
    BY DEF Succeed, At, Coming, RunInv, GivenInv, TagGiven, AfterCommit, Started, Inv, PlaceInv,
           TypeOK, Decisions
  <2> QED
    BY <2>1 DEF RunInv, CheckedInv, Started
<1> QED
  BY <1>1, RunInvariance, PTL DEF LaterUpSame

-----------------------------------------------------------------------------
(***************************************************************************)
(* What stands in the way of a run that resets: the part of LeftoversGo    *)
(* that says nothing of fairness.                                          *)
(***************************************************************************)

\* The containers of the services the run does not start.
LeftOver == {s \in Service \ Runs(me.on) : con[s] # "none"}

\* A run that resets checks every container, and has put the new table there.
ResetInv ==
    me.reset =>
        /\ me.strict /\ Gen(me.tag) = "json"
        /\ pc \in {"profiles", "tag", "kek", "secret"} \cup AfterCommit => table = "json"

\* The profiles of a run that turns none on or off, or that has rendered .env.
OnKept ==
    \/ me.cmd = "upgrade" /\ me.ai = "keep" /\ pc # "idle"
    \/ me.cmd = "deploy" /\ pc \in {"record", "reset"} \cup AfterCommit
OnInv == ~touched /\ OnKept => Coming.on = me.on

WayInv == ResetInv /\ OnInv

LEMMA WayInit == Init => WayInv
BY DEF Init, NoRun, WayInv, ResetInv, OnInv, OnKept

\* Between runs there is nothing to keep.
LEMMA WayEnds ==
    ASSUME pc' = "idle", me' = NoRun
    PROVE  WayInv'
BY DEF NoRun, WayInv, ResetInv, OnInv, OnKept

LEMMA WayBegins ==
    ASSUME Inv, BeginUpgrade \/ BeginDeploy \/ BeginUninstall
    PROVE  WayInv'
<1>1. Quiet' /\ env' = env /\ Coming' = env
  BY DEF Inv, PlaceInv, BeginUpgrade, BeginDeploy, BeginUninstall, Begin, file, Quiet, Coming
<1>2. CASE BeginUpgrade
  <2>1. PICK tag \in Tags, ai \in {"keep", "on", "off"} :
           /\ me' = UpgradeRun(tag, ai) /\ pc' = "pull"
           /\ env.pending => Gen(tag) = "json"
    BY <1>2 DEF BeginUpgrade, Begin
  <2>2. ResetInv'
    BY <2>1 DEF ResetInv, UpgradeRun, Resets, TouchesTable, AfterCommit, Started
  <2>3. OnInv'
    BY <1>1, <2>1 DEF OnInv, OnKept, UpgradeRun
  <2> QED
    BY <2>2, <2>3 DEF WayInv
<1>3. CASE BeginDeploy
  <2>1. PICK tag \in Tags, answers \in Answers :
           /\ me' = DeployRun(tag, answers) /\ pc' = "render"
           /\ env.pending => Gen(tag) = "json"
    BY <1>3 DEF BeginDeploy, Begin
  <2>2. ResetInv'
    BY <2>1 DEF ResetInv, DeployRun, Resets, TouchesTable, AfterCommit, Started
  <2>3. OnInv'
    BY <2>1 DEF OnInv, OnKept, DeployRun, AfterCommit, Started
  <2> QED
    BY <2>2, <2>3 DEF WayInv
<1>4. CASE BeginUninstall
  BY <1>4 DEF BeginUninstall, Begin, NoRun, WayInv, ResetInv, OnInv, OnKept
<1> QED
  BY <1>2, <1>3, <1>4

\* A step of a run that keeps its decisions, the profiles that come, and a
\* table that is there.
LEMMA WayGoesOn ==
    ASSUME WayInv, UNCHANGED <<me, touched>>, Coming'.on = Coming.on \/ ~OnKept, pc # "idle",
           me.cmd = "deploy" /\ pc' \in {"record", "reset"} \cup AfterCommit =>
               pc \in {"record", "reset"} \cup AfterCommit,
           me.reset /\ pc' \in {"profiles", "tag", "kek", "secret"} \cup AfterCommit =>
               \/ table' = "json"
               \/ table' = table /\ pc \in {"profiles", "tag", "kek", "secret"} \cup AfterCommit
    PROVE  WayInv'
<1>1. ResetInv'
  BY DEF WayInv, ResetInv
<1>2. OnInv'
  BY DEF WayInv, OnInv, OnKept
<1> QED
  BY <1>1, <1>2 DEF WayInv

\* A text that is written comes; a file that is left alone stays.
LEMMA ComesNext ==
    ASSUME Quiet
    PROVE  /\ \A text : WriteEnv(text) => Coming' = text
           /\ UNCHANGED file => Coming' = Coming
<1>1. ASSUME NEW text, WriteEnv(text) PROVE Coming' = text
  BY <1>1 DEF WriteEnv, Coming, Quiet, NoWrite
<1>2. ASSUME UNCHANGED file PROVE Coming' = Coming
  BY <1>2 DEF file, Coming, Quiet
<1> QED
  BY <1>1, <1>2

\* A step that writes one setting, and not the profiles.
LEMMA WaySets ==
    ASSUME Inv, WayInv, NEW from, NEW to, NEW needed, NEW text, Set(from, to, needed, text),
           needed => text.on = env.on \/ ~OnKept,
           from \in {"profiles", "tag", "kek", "secret", "clear"}
    PROVE  WayInv'
<1>1. /\ Quiet /\ pc = from /\ UNCHANGED <<me, touched, table>>
      /\ \/ needed /\ WriteEnv(text)
         \/ UNCHANGED file
  BY Zenon DEF Set, At, Go, world
<1>2. Coming = env
  BY <1>1 DEF Coming
<1>3. Coming'.on = Coming.on \/ ~OnKept
  BY <1>1, <1>2, ComesNext
<1>4. me.cmd = "deploy" => pc \in AfterCommit
  BY <1>1 DEF Inv, PlaceInv, AfterCommit, Started
<1>5. pc \in {"profiles", "tag", "kek", "secret"} \cup AfterCommit /\ pc # "idle"
  BY <1>1 DEF AfterCommit, Started
<1> QED
  BY <1>1, <1>3, <1>4, <1>5, WayGoesOn

LEMMA WaySteps ==
    ASSUME Inv, WayInv, [Next]_vars
    PROVE  WayInv'
<1>1. ASSUME EndRun PROVE WayInv'
  BY <1>1, WayEnds DEF EndRun
<1>2. env \in Text /\ me \in Decisions
  BY DEF Inv, TypeOK, FileOK
<1>3. CASE Pull
  <2>1. CASE Go("record") /\ UNCHANGED file
    <3>1. Quiet /\ pc = "pull" /\ pc' = "record" /\ me.cmd = "upgrade" /\ UNCHANGED <<me, touched>>
      BY <1>3, <2>1 DEF Pull, At, Go, Inv, PlaceInv
    <3> QED
      BY <2>1, <3>1, ComesNext, WayGoesOn DEF AfterCommit, Started
  <2> QED
    BY <1>1, <1>3, <2>1 DEF Pull, Refuse
<1>4. CASE Record
  <2>1. /\ Quiet /\ pc = "record" /\ pc' = "reset" /\ UNCHANGED <<me, touched>>
        /\ WriteEnv([env EXCEPT !.pending = TRUE]) \/ UNCHANGED file
    BY <1>4, Zenon DEF Record, At, Go
  <2>2. [env EXCEPT !.pending = TRUE].on = env.on /\ Coming = env
    BY <1>2, <2>1 DEF Text, Coming
  <2>3. Coming'.on = Coming.on
    BY <2>1, <2>2, ComesNext
  <2> QED
    BY <2>1, <2>3, WayGoesOn DEF AfterCommit, Started
<1>5. CASE Reset
  <2>1. /\ Quiet /\ pc = "reset" /\ UNCHANGED <<me, touched, file>>
        /\ me.reset => table' = "json"
    BY <1>5 DEF Reset, At, Go
  <2> QED
    BY <2>1, ComesNext, WayGoesOn
<1>6. CASE SetProfiles
  <2>1. me.ai # "keep" => ~OnKept
    BY <1>6 DEF SetProfiles, Set, At, OnKept, Inv, PlaceInv
  <2> QED
    BY <1>6, <2>1, WaySets DEF SetProfiles
<1>7. CASE SetTag
  <2>1. [env EXCEPT !.tag = me.tag].on = env.on
    BY <1>2 DEF Text
  <2> QED
    BY <1>7, <2>1, WaySets DEF SetTag
<1>8. CASE SetKEK
  <2>1. [env EXCEPT !.sec["ORCH_KEK"] = me.kek].on = env.on
    BY <1>2 DEF Text
  <2> QED
    BY <1>8, <2>1, WaySets DEF SetKEK
<1>9. CASE BackfillSecret
  <2>1. [env EXCEPT !.sec["ENGAGEMENT_SECRET"] = Fresh("ENGAGEMENT_SECRET")].on = env.on
    BY <1>2 DEF Text
  <2> QED
    BY <1>9, <2>1, WaySets DEF BackfillSecret
<1>10. CASE Render
  <2>1. /\ Quiet /\ pc' = "record" /\ WriteEnv(Rendered)
        /\ me' = [me EXCEPT !.before = env.on, !.on = DeployProfiles(env.on, me.on)]
    BY <1>10 DEF Render, At
  <2>2. /\ me'.on = DeployProfiles(env.on, me.on)
        /\ me'.reset = me.reset /\ me'.strict = me.strict /\ me'.tag = me.tag
    BY <1>2, <2>1 DEF Decisions
  <2>3. ResetInv'
    BY <2>1, <2>2 DEF WayInv, ResetInv, AfterCommit, Started
  <2>4. Coming'.on = me'.on
    BY <2>1, <2>2, ComesNext DEF Rendered
  <2> QED
    BY <2>3, <2>4 DEF WayInv, OnInv
<1>11. CASE StopTurnedOff \/ RemoveInactive
  <2>1. /\ Quiet /\ pc \in AfterCommit /\ pc # "idle" /\ UNCHANGED <<me, touched, file, table>>
    BY <1>11 DEF StopTurnedOff, RemoveInactive, Remove, At, RemoveServices, world,
                 AfterCommit, Started
  <2> QED
    BY <2>1, ComesNext, WayGoesOn
<1>12. CASE Up
  <2>1. CASE StartServices(Runs(UpProfiles), me.tag) /\ Go("check")
    <3>1. Quiet /\ pc = "up" /\ UNCHANGED <<me, touched, file>>
      BY <1>12, <2>1 DEF Up, At, Go
    <3>2. table = "json" => table' = "json"
      BY <2>1 DEF StartServices
    <3>3. me.reset => table' = "json"
      BY <3>1, <3>2 DEF WayInv, ResetInv, AfterCommit
    <3> QED
      BY <3>1, <3>3, ComesNext, WayGoesOn DEF AfterCommit
  <2> QED
    BY <1>1, <1>12, <2>1 DEF Up
<1>13. CASE Check
  <2>1. CASE Go("clear") /\ UNCHANGED <<file, world>>
    <3>1. Quiet /\ pc = "check" /\ UNCHANGED <<me, touched, file, table>>
      BY <1>13, <2>1 DEF Check, At, Go, world
    <3> QED
      BY <3>1, ComesNext, WayGoesOn DEF AfterCommit, Started
  <2> QED
    BY <1>1, <1>13, <2>1 DEF Check, Refuse
<1>14. CASE ClearRecord
  <2>1. [env EXCEPT !.pending = FALSE].on = env.on
    BY <1>2 DEF Text
  <2> QED
    BY <1>14, <2>1, WaySets DEF ClearRecord
<1>15. CASE Succeed \/ RemoveDir \/ Stop \/ MachineLost
  BY <1>1, <1>15 DEF Succeed, Refuse, RemoveDir, Stop, MachineLost
<1>16. CASE Down
  <2>1. CASE Go("remove")
    <3>1. me.cmd = "uninstall" /\ me' = me /\ pc' = "remove"
      BY <1>16, <2>1 DEF Down, At, Go, Inv, PlaceInv
    <3>2. ResetInv'
      BY <3>1 DEF WayInv, ResetInv, AfterCommit, Started
    <3> QED
      BY <3>1, <3>2 DEF WayInv, OnInv, OnKept
  <2> QED
    BY <1>1, <1>16, <2>1 DEF Down
<1>17. CASE WriteStep
  <2>1. UNCHANGED <<me, touched, pc, table>> /\ Coming' = Coming
    BY <1>17, WriteKeeps DEF WriteStep, world
  <2>2. pc # "idle"
    BY <1>17, WriteKeeps DEF WriteStep, Inv, PlaceInv
  <2> QED
    BY <2>1, <2>2, WayGoesOn
<1>18. CASE ComposeDown \/ EditProfiles \/ PinEngine
  <2>1. UNCHANGED <<me, pc, table>> /\ touched' = (pc # "idle")
    BY <1>18 DEF ComposeDown, RemoveServices, EditProfiles, PinEngine, world
  <2>2. CASE pc = "idle"
    BY <2>1, <2>2, WayEnds DEF Inv, PlaceInv
  <2>3. CASE pc # "idle"
    BY <2>1, <2>3 DEF WayInv, ResetInv, OnInv
  <2> QED
    BY <2>2, <2>3
<1>19. CASE ComposeUp
  <2>1. Quiet /\ UNCHANGED <<me, pc, touched, file>> /\ (table = "json" => table' = "json")
    BY <1>19 DEF ComposeUp, StartServices
  <2>2. CASE pc = "idle"
    BY <2>1, <2>2, WayEnds DEF Inv, PlaceInv
  <2>3. CASE pc # "idle"
    BY <2>1, <2>3, ComesNext, WayGoesOn DEF WayInv, ResetInv
  <2> QED
    BY <2>2, <2>3
<1>20. CASE UNCHANGED vars
  BY <1>20 DEF vars, file, world, WayInv, ResetInv, OnInv, OnKept, Coming, Quiet
<1> QED
  BY <1>3, <1>4, <1>5, <1>6, <1>7, <1>8, <1>9, <1>10, <1>11, <1>12, <1>13, <1>14, <1>15,
     <1>16, <1>17, <1>18, <1>19, <1>20, WayBegins DEF Next, RunStep, Operator, Commit

LEMMA WayInvariance == Spec => [](Inv /\ RunInv /\ WayInv)
BY WayInit, RunInvariance, WaySteps, PTL DEF Spec

\* Past its commit point a run nobody touched works with the profiles of .env.
LEMMA WorksWithEnv ==
    ASSUME Inv, RunInv, WayInv, ~touched, pc \in AfterCommit, Quiet, me.cmd # "uninstall"
    PROVE  env.on = me.on
<1>1. Coming = env
  BY DEF Coming
<1>2. CASE OnKept
  BY <1>1, <1>2 DEF WayInv, OnInv
<1>3. CASE ~OnKept
  <2>1. me.cmd = "upgrade" /\ me.ai # "keep"
    BY <1>3 DEF OnKept, AfterCommit, Started, Inv, TypeOK, Decisions
  <2> QED
    BY <1>1, <2>1 DEF RunInv, GivenInv, OnGiven
<1> QED
  BY <1>2, <1>3

\* The check after `up` turns away a run that resets for one reason only, where
\* nobody touched the project and no override pins the engine: a container of a
\* service that is off is still there (checkAfterUp, runningImagesProblem).
OnlyLeftoversRefuse ==
    At("check") /\ me.reset /\ ~touched /\ pin = "none" => RunningFit \/ LeftOver # {}

\* Removing them leaves none, once it goes through; and none comes back before
\* the run is over, from the run's `up` or from the operator's
\* (removeInactiveDataPlane, which a run that resets never skips).
RemovalLeavesNone ==
    [][RemoveInactive /\ me.reset /\ con' # con => LeftOver' = {}]_vars
NoneComesBack ==
    [][~touched' /\ pc \in AfterCommit /\ pc' \in AfterCommit => LeftOver' \subseteq LeftOver]_vars

\* The check has no other reason to turn such a run away (checkAfterUp).
THEOREM LeftoversAlone == Spec => []OnlyLeftoversRefuse
<1>1. Inv /\ RunInv /\ WayInv => OnlyLeftoversRefuse
  <2> SUFFICES ASSUME Inv, RunInv, WayInv, At("check"), me.reset, ~touched, pin = "none",
                      LeftOver = {}
               PROVE  RunningFit
    BY DEF OnlyLeftoversRefuse
  <2>1. pc = "check" /\ pc \in AfterCommit /\ pc \in Started /\ Quiet
    BY DEF At, AfterCommit, Started
  <2>2. env.on = me.on
    BY <2>1, WorksWithEnv DEF Inv, PlaceInv
  <2>3. table = "json" /\ Gen(me.tag) = "json"
    BY <2>1 DEF WayInv, ResetInv
  <2>4. \A s \in Runs(env.on) : con[s] = me.tag
    BY <2>1 DEF RunInv, CheckedInv, Image
  <2>5. \A s \in Service \ Runs(env.on) : con[s] = "none"
    BY <2>2 DEF LeftOver
  <2>6. me.tag # "none" /\ Runs(env.on) \subseteq Service
    BY DEF Inv, TypeOK, Decisions, Tag, Runs, Service
  <2> QED
    BY <2>3, <2>4, <2>5, <2>6 DEF RunningFit, CheckedServices
<1> QED
  BY <1>1, WayInvariance, PTL

\* A removal that goes through leaves no container of a service that is off
\* (removeInactiveDataPlane).
LEMMA LeftoversRemoved == Spec => RemovalLeavesNone
<1>1. Inv /\ RunInv /\ WayInv => [RemoveInactive /\ me.reset /\ con' # con => LeftOver' = {}]_vars
  <2> SUFFICES ASSUME Inv, WayInv, RemoveInactive, me.reset, con' # con
               PROVE  LeftOver' = {}
    OBVIOUS
  <2>1. me.strict
    BY DEF WayInv, ResetInv
  <2>2. RemoveServices({s \in Service \ Runs(me.on) : con[s] # "none"}) /\ me' = me
    BY <2>1 DEF RemoveInactive, Remove, world
  <2> QED
    BY <2>2 DEF LeftOver, RemoveServices, Runs
<1> QED
  BY <1>1, WayInvariance, PTL DEF RemovalLeavesNone

\* Nothing brings one back before the run is over: neither its own `up` nor the
\* operator's (removeInactiveDataPlane, checkAfterUp).
THEOREM LeftoversStayGone == Spec => NoneComesBack
<1>1. Inv /\ RunInv /\ WayInv /\ [Next]_vars =>
        [~touched' /\ pc \in AfterCommit /\ pc' \in AfterCommit => LeftOver' \subseteq LeftOver]_vars
  <2> SUFFICES ASSUME Inv, RunInv, WayInv, [Next]_vars, ~touched',
                      pc \in AfterCommit, pc' \in AfterCommit
               PROVE  LeftOver' \subseteq LeftOver
    OBVIOUS
  <2> USE DEF AfterCommit, Started
  <2>1. ASSUME me' = me, \A s \in Service : con'[s] \in {con[s], "none"}
        PROVE  LeftOver' \subseteq LeftOver
    BY <2>1 DEF LeftOver, Runs
  <2>2. ASSUME me' = me, NEW tag, StartServices(Runs(me.on), tag)
        PROVE  LeftOver' \subseteq LeftOver
    BY <2>2 DEF LeftOver, StartServices, Runs, Service
  <2>3. CASE Pull \/ Record \/ Reset \/ Commit \/ Render \/ Down \/ RemoveDir
             \/ BeginUpgrade \/ BeginDeploy \/ BeginUninstall
    <3>1. pc # "idle"
      OBVIOUS
    <3> QED
      BY <2>1, <2>3, <3>1
         DEF Pull, Record, Reset, Commit, SetProfiles, SetTag, SetKEK, BackfillSecret, Set,
             Render, Down, RemoveDir, BeginUpgrade, BeginDeploy, BeginUninstall, Begin, At
  <2>4. CASE StopTurnedOff \/ RemoveInactive
    <3>1. me' = me /\ (UNCHANGED con \/ \E S : RemoveServices(S))
      BY <2>4 DEF StopTurnedOff, RemoveInactive, Remove, world
    <3> QED
      BY <2>1, <3>1 DEF RemoveServices
  <2>5. CASE Up
    <3>1. StartServices(Runs(UpProfiles), me.tag) /\ UNCHANGED <<me, touched>> /\ pc = "up" /\ Quiet
      BY <2>5 DEF Up, At, Go, EndRun
    <3>2. env.on = me.on
      BY <3>1, WorksWithEnv DEF Inv, PlaceInv
    <3>3. UpProfiles = me.on
      BY <3>2 DEF UpProfiles
    <3> QED
      BY <2>2, <3>1, <3>3
  <2>6. CASE Check \/ ClearRecord \/ Succeed \/ WriteStep \/ Stop \/ MachineLost
    <3>1. me' = me /\ con' = con
      BY <2>6 DEF Check, Go, Refuse, ClearRecord, Set, Succeed, WriteStep, Stop, MachineLost,
                  EndRun, world
    <3> QED
      BY <2>1, <3>1
  <2>7. CASE ComposeUp
    <3>1. /\ StartServices(Runs(env.on), env.tag) /\ UNCHANGED <<me, touched>> /\ Quiet
          /\ me.cmd # "uninstall"
      BY <2>7 DEF ComposeUp
    <3>2. env.on = me.on
      BY <3>1, WorksWithEnv
    <3> QED
      BY <2>2, <3>1, <3>2
  <2>8. CASE ComposeDown \/ EditProfiles \/ PinEngine
    <3>1. touched'
      BY <2>8 DEF ComposeDown, EditProfiles, PinEngine
    <3> QED
      BY <3>1
  <2>9. CASE UNCHANGED vars
    BY <2>1, <2>9 DEF vars, world
  <2> QED
    BY <2>3, <2>4, <2>5, <2>6, <2>7, <2>8, <2>9 DEF Next, RunStep, Operator
<1> QED
  BY <1>1, WayInvariance, PTL DEF NoneComesBack, Spec

=============================================================================
