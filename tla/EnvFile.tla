------------------------------- MODULE EnvFile -------------------------------
(***************************************************************************)
(* How a run replaces the .env of a compose project (writeEnvFile,         *)
(* writeInPlace): a new file renamed over it, or, where a rename would     *)
(* break its hard links or take it from its owner, the file itself written *)
(* over, padded, and cut to size.  A run reads the file, works out the new *)
(* text and hands it to WriteEnv; it goes on once the write is over.       *)
(*                                                                         *)
(* A text is the settings the model tells apart.  `end` is what follows    *)
(* the text in the file: nothing, blank lines, the rest of an older text,  *)
(* or no telling where one ends and the other begins.                      *)
(***************************************************************************)
EXTENDS Naturals, FiniteSets

VARIABLES
    env,    \* the text of .env
    end,    \* what follows it in the file
    kind,   \* what the file is to this user
    twin,   \* the text under the file's other hard link, if it has one
    write,  \* the write under way, and its text
    fault   \* the machine was lost, or its disk full, during a write in place

file == <<env, end, kind, twin, write, fault>>

\* "linked" has another hard link; "theirs" is a file whose owner this user
\* cannot give a new one; "readonly" one it may not write either.
Kind == {"plain", "linked", "theirs", "readonly"}

Tag == {"old", "new", "newer"}
Profile == {"full", "agentic", "logs"}
Secret == {"DB_PASSWORD", "ORCH_KEK", "ENGAGEMENT_SECRET"}

\* A secret's value: 0 unset, 1 the bundle's default, the others generated.
Value == 0..3

Text == [tag : Tag \cup {"none"}, on : SUBSET Profile, sec : [Secret -> Value],
         pending : BOOLEAN]
Unset == [s \in Secret |-> 0]
NoFile == [tag |-> "none", on |-> {}, sec |-> Unset, pending |-> FALSE]

NoWrite == [at |-> "none", text |-> NoFile]
Quiet == write = NoWrite

FileOK ==
    /\ env \in Text
    /\ end \in {"clean", "blank", "old", "mix"}
    /\ kind \in Kind
    /\ twin \in Text
    /\ write \in [at : {"none", "put", "cut"}, text : Text]
    /\ fault \in BOOLEAN

Lines(t) ==
    Cardinality(t.on) + Cardinality({s \in Secret : t.sec[s] # 0})
        + IF t.pending THEN 1 ELSE 0

(***************************************************************************)
(* The write.                                                              *)
(***************************************************************************)

\* Mutant of InPlace: the other hard links of the file are not asked for.
InPlaceTheirs == env # NoFile /\ kind = "theirs"

InPlace == env # NoFile /\ kind \in {"linked", "theirs"}

\* writeEnvFile is called with `text`.
WriteEnv(text) ==
    /\ Quiet
    /\ write' = [at |-> "put", text |-> text]
    /\ UNCHANGED <<env, end, kind, twin, fault>>

\* The file next to it is renamed over .env; a file this user could not write
\* becomes the user's own.
Rename ==
    /\ write.at = "put" /\ ~InPlace
    /\ env' = write.text
    /\ end' = "clean"
    /\ kind' = IF kind = "readonly" THEN "plain" ELSE kind
    /\ write' = NoWrite
    /\ UNCHANGED <<twin, fault>>

\* Mutant of InPlaceEnd: the new text is not padded.
InPlaceEndUnpadded(new, old) == IF Lines(new) < Lines(old) THEN "old" ELSE "clean"

\* inPlaceImage: what follows the new text once it is written over the old.
InPlaceEnd(new, old) == IF Lines(new) < Lines(old) THEN "blank" ELSE "clean"

\* The text under the other link is that of the same file.
Linked(text) == IF kind = "linked" THEN text ELSE twin

WriteOver ==
    /\ write.at = "put" /\ InPlace
    /\ env' = write.text
    /\ twin' = Linked(write.text)
    /\ end' = InPlaceEnd(write.text, env)
    /\ write' = [write EXCEPT !.at = "cut"]
    /\ UNCHANGED <<kind, fault>>

Truncate ==
    /\ write.at = "cut"
    /\ end' = "clean"
    /\ write' = NoWrite
    /\ UNCHANGED <<env, kind, twin, fault>>

\* The write's own step comes to an end.
Write == Rename \/ WriteOver \/ Truncate

\* The write goes no further: it failed, or the run was killed.  A file not
\* yet renamed is removed, or left behind under its own name.
Abandon ==
    /\ write' = NoWrite
    /\ UNCHANGED <<env, end, kind, twin, fault>>

\* The machine is lost, or the disk is full, while the text is written over.
Tear ==
    /\ write.at = "put" /\ InPlace
    /\ end' = "mix"
    /\ fault' = TRUE
    /\ write' = NoWrite
    /\ UNCHANGED <<env, kind, twin>>

\* The directory is removed, and the .env in it.
RemoveFile ==
    /\ Quiet
    /\ env' = NoFile
    /\ end' = "clean"
    /\ kind' = "plain"
    /\ twin' = NoFile
    /\ UNCHANGED <<write, fault>>

\* .env never holds a mix of two texts: a run that stops at any point of a
\* write leaves one of them, with blank lines after it at most.  Only a
\* machine lost during the one write that is not atomic can (writeInPlace).
EnvWhole == end \in {"old", "mix"} => fault

\* A .env with another hard link keeps it: both names read the same text,
\* whatever the runs wrote and wherever they stopped (writeEnvFile).
LinkKept == kind = "linked" => twin = env
=============================================================================
