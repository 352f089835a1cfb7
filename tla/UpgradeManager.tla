---------------------------- MODULE UpgradeManager ----------------------------
(***************************************************************************)
(* The text files the node keeps, and what every start does to them before *)
(* requests are served: nine migrations from one version of a file to the  *)
(* next (UpgradeManager, in the order of main), the creation of missing    *)
(* files and the removal of the polygon parts.  Afterwards the managers    *)
(* rewrite the newest version in place.  The process may die between any   *)
(* two file operations, and inside a write.                                *)
(*                                                                         *)
(* A text is told apart only as far as that: a file is absent, empty, torn *)
(* (what a write that did not end leaves), or holds the data of its family, *)
(* with polygon parts in it ("legacy") or not ("clean"), or data saved by a *)
(* manager since the robot was upgraded ("new").                           *)
(***************************************************************************)
EXTENDS Naturals, Sequences

CONSTANTS
  Families,      \* the families of files in the instance
  MaxCrashes, MaxFailures, MaxSaves,   \* bounds,
  MaxFaults      \* and one on crashes and failures together

ASSUME UpgradeBounds ==
  /\ MaxCrashes \in Nat /\ MaxFailures \in Nat /\ MaxSaves \in Nat /\ MaxFaults \in Nat

VARIABLES
  content,     \* what each file holds
  pc, m,       \* the main thread and the migration it is in
  text,        \* what it has read, or what a manager is about to write
  saving,      \* the file a manager is rewriting
  had,         \* history variable: families with data in some file
  hurt,        \* history variable: families whose data a failed write may have cost
  crashes, failures, saves            \* bounds

vars == <<content, pc, m, text, saving, had, hurt, crashes, failures, saves>>

-----------------------------------------------------------------------------
Data == {"legacy", "clean", "new"}
Content == {"absent", "empty", "torn"} \cup Data

Family == [combination_list |-> "combination",
           combination_list_principal |-> "combination",
           combination_list_principal_json |-> "combination",
           combination_list_principal_json_work |-> "combination",
           view_part |-> "part",
           view_part_principal |-> "part",
           view_part_principal_json |-> "part",
           clean_history |-> "history",
           clean_history_principal |-> "history",
           clean_history_principal_json |-> "history",
           timer_info |-> "timer",
           timer_info_json |-> "timer",
           teach_point |-> "teach",
           teach_point_json |-> "teach"]

File == DOMAIN Family

updateCombinationPrincipal ==
  [last |-> "combination_list", current |-> "combination_list_principal"]
updateViewPartPrincipal == [last |-> "view_part", current |-> "view_part_principal"]
updateCleanHistoryPrincipal ==
  [last |-> "clean_history", current |-> "clean_history_principal"]
updateCombinationBase64 ==
  [last |-> "combination_list_principal", current |-> "combination_list_principal_json"]
updateViewPartBase64 ==
  [last |-> "view_part_principal", current |-> "view_part_principal_json"]
updateCleanHistoryBase64 ==
  [last |-> "clean_history_principal", current |-> "clean_history_principal_json"]
updateTimeInfoBase64 == [last |-> "timer_info", current |-> "timer_info_json"]
updateTeachPoint == [last |-> "teach_point", current |-> "teach_point_json"]
updateCombinationPrincipalWork ==
  [last |-> "combination_list_principal_json",
   current |-> "combination_list_principal_json_work"]

(* Mutant: the last migration of the combinations first, as in the order of   *)
(* their declarations.                                                        *)
WorkFirst ==
  <<updateCombinationPrincipalWork, updateCombinationPrincipal, updateViewPartPrincipal,
    updateCleanHistoryPrincipal, updateCombinationBase64, updateViewPartBase64,
    updateCleanHistoryBase64, updateTimeInfoBase64, updateTeachPoint>>

(* The calls of main, in its order. *)
Migrations ==
  <<updateCombinationPrincipal, updateViewPartPrincipal, updateCleanHistoryPrincipal,
    updateCombinationBase64, updateViewPartBase64, updateCleanHistoryBase64,
    updateTimeInfoBase64, updateTeachPoint, updateCombinationPrincipalWork>>

Last == Migrations[m].last
Current == Migrations[m].current

Parts == "view_part_principal_json"
Combinations == "combination_list_principal_json_work"
Newest == {Combinations, Parts, "clean_history_principal_json", "timer_info_json",
           "teach_point_json"}

TypeOK ==
  /\ content \in [File -> Content]
  /\ pc \in {"migrate", "create", "save", "remove", "check", "polygon", "savePolygon",
             "references", "saveReferences", "running", "saving", "aborted"}
  /\ m \in 1 .. Len(Migrations)
  /\ text \in Data \cup {"none"} /\ saving \in Newest
  /\ had \in SUBSET {Family[f] : f \in File}
  /\ hurt \in SUBSET {Family[f] : f \in File}
  /\ crashes \in 0 .. MaxCrashes /\ failures \in 0 .. MaxFailures /\ saves \in 0 .. MaxSaves

(* A robot that ran some version: each family has data in at most one file, *)
(* and polygons in the parts, or in the parts and the combinations of them.  *)
Stored == {f \in File : Family[f] \in Families}

Init ==
  /\ \E held \in SUBSET Stored, polygons \in SUBSET {"part", "combination"} :
       /\ \A f, g \in held : Family[f] = Family[g] => f = g
       /\ polygons # {"combination"} /\ polygons \subseteq {Family[f] : f \in held}
       /\ content = [f \in File |-> IF f \notin held THEN "absent"
                                     ELSE IF Family[f] \in polygons THEN "legacy" ELSE "clean"]
       /\ had = {Family[f] : f \in held}
  /\ pc = "migrate" /\ m = 1 /\ text = "none" /\ saving = Parts
  /\ hurt = {}
  /\ crashes = 0 /\ failures = 0 /\ saves = 0

-----------------------------------------------------------------------------
boundVars == <<crashes, failures, saves>>
Faults == crashes + failures < MaxFaults

Fails ==
  /\ Faults /\ failures < MaxFailures /\ failures' = failures + 1
  /\ UNCHANGED <<crashes, saves>>

Works == UNCHANGED boundVars

Written(f, c) == content' = [content EXCEPT ![f] = c]

(* Mutant: one migration more than there are. *)
NextMigrationPastEnd ==
  IF m > Len(Migrations) THEN pc' = "check" /\ m' = 1 ELSE pc' = "migrate" /\ m' = m + 1

(* The migration returns: main calls the next one. *)
NextMigration ==
  IF m = Len(Migrations) THEN pc' = "check" /\ m' = 1 ELSE pc' = "migrate" /\ m' = m + 1

(* A write that fails leaves less than was written; only an open that fails  *)
(* is reported, and the file is then what the truncation before left.        *)
Damaged == {"empty", "torn"}

(* Nothing to read: the old file is absent, or empty and removed. *)
NothingToMigrate ==
  /\ pc = "migrate" /\ content[Last] \in {"absent", "empty"}
  /\ Written(Last, "absent")
  /\ NextMigration /\ Works
  /\ UNCHANGED <<text, saving, had, hurt>>

(* A file that cannot be opened is removed as well. *)
OpenFails ==
  /\ pc = "migrate" /\ content[Last] # "absent"
  /\ Fails
  /\ Written(Last, "absent")
  /\ hurt' = hurt \cup {Family[Last]}
  /\ NextMigration
  /\ UNCHANGED <<text, saving, had>>

(* Decoding a torn text throws, and nobody catches it. *)
DecodeThrows ==
  /\ pc = "migrate" /\ content[Last] = "torn"
  /\ pc' = "aborted" /\ Works
  /\ UNCHANGED <<content, m, text, saving, had, hurt>>

ReadLast ==
  /\ pc = "migrate" /\ content[Last] \in Data
  /\ text' = content[Last]
  /\ pc' = "create" /\ Works
  /\ UNCHANGED <<content, m, saving, had, hurt>>

(* Mutant: the old file goes before the new one is written. *)
CreateCurrentRemovesLast ==
  /\ pc = "create"
  /\ content' = [content EXCEPT ![Current] = "empty", ![Last] = "absent"]
  /\ pc' = "save" /\ Works
  /\ UNCHANGED <<m, text, saving, had, hurt>>

(* The new file is created, or emptied. *)
CreateCurrent ==
  /\ pc = "create"
  /\ Written(Current, "empty")
  /\ pc' = "save" /\ Works
  /\ UNCHANGED <<m, text, saving, had, hurt>>

CreateFails ==
  /\ pc = "create"
  /\ Fails
  /\ NextMigration /\ text' = "none"
  /\ UNCHANGED <<content, saving, had, hurt>>

SaveCurrent ==
  /\ pc = "save"
  /\ Written(Current, text)
  /\ pc' = "remove" /\ Works
  /\ UNCHANGED <<m, text, saving, had, hurt>>

(* A failed save is logged, and the old file removed all the same. *)
SaveFails ==
  /\ pc = "save"
  /\ Fails
  /\ \E c \in Damaged : Written(Current, c)
  /\ hurt' = hurt \cup {Family[Current]}
  /\ pc' = "remove"
  /\ UNCHANGED <<m, text, saving, had>>

(* Mutant: the old file stays. *)
RemoveLastForgotten ==
  /\ pc = "remove"
  /\ NextMigration /\ Works /\ text' = "none"
  /\ UNCHANGED <<content, saving, had, hurt>>

RemoveLast ==
  /\ pc = "remove"
  /\ Written(Last, "absent")
  /\ NextMigration /\ Works /\ text' = "none"
  /\ UNCHANGED <<saving, had, hurt>>

(* checkWhetherFileExists: each missing file is created, or is not. *)
CheckWhetherFileExists ==
  /\ pc = "check"
  /\ \E missing \in SUBSET {f \in Newest : content[f] = "absent"} :
       /\ content' = [f \in File |-> IF f \in Newest /\ content[f] = "absent" /\ f \notin missing
                                     THEN "empty" ELSE content[f]]
       /\ IF missing = {} THEN Works ELSE Fails
  /\ pc' = "polygon"
  /\ UNCHANGED <<m, text, saving, had, hurt>>

-----------------------------------------------------------------------------
(* Between the two files: the parts are gone, their references are not.      *)
Between == IF pc = "references" THEN {"combination"} ELSE {}

(* removePolygonViewPart and removeCombination rewrite a file in place.      *)
Rewritten(here, file, there) ==
  /\ pc = here
  /\ \/ /\ content[file] \in {"absent", "empty"}
        /\ pc' = "running" /\ Works /\ UNCHANGED <<content, text>>
     \/ /\ content[file] # "absent"
        /\ pc' = "running" /\ Fails /\ UNCHANGED <<content, text>>
     \/ /\ content[file] = "torn"
        /\ pc' = "aborted" /\ Works /\ UNCHANGED <<content, text>>
     \/ /\ content[file] \in Data
        /\ text' = content[file] /\ Written(file, "empty")
        /\ pc' = there /\ Works
  /\ hurt' = IF pc' = "running" /\ content[file] \in Data THEN hurt \cup Between ELSE hurt
  /\ UNCHANGED <<m, saving, had>>

RemovePolygons == Rewritten("polygon", Parts, "savePolygon")
RemoveReferences == Rewritten("references", Combinations, "saveReferences")

(* Mutant: the references to the removed parts are not looked for. *)
AfterPartsNothing == "running"

(* Whether a part is gone decides whether its references are looked for. *)
AfterParts == IF text = "legacy" THEN "references" ELSE "running"

SaveInPlace(here, file, next) ==
  /\ pc = here /\ pc' = next /\ text' = "none"
  /\ \/ Written(file, IF text = "legacy" THEN "clean" ELSE text) /\ Works /\ UNCHANGED hurt
     \/ \E c \in Damaged :
          Written(file, c) /\ Fails /\ hurt' = hurt \cup {Family[file]}
  /\ UNCHANGED <<m, saving, had>>

SavePolygons == SaveInPlace("savePolygon", Parts, AfterParts)
SaveReferences == SaveInPlace("saveReferences", Combinations, "running")

-----------------------------------------------------------------------------
(* FileOpenRead and FileSave of a manager, for a request or even a search:   *)
(* the newest file is read, emptied and written again.                       *)
FileSave ==
  /\ pc = "running" /\ saves < MaxSaves
  /\ \E f \in Newest :
       /\ Family[f] \in Families
       /\ content[f] # "torn"
       /\ saving' = f /\ Written(f, "empty")
       /\ had' = had \cup {Family[f]}
  /\ text' = "new"
  /\ saves' = saves + 1
  /\ pc' = "saving"
  /\ UNCHANGED <<m, hurt, crashes, failures>>

FileSaved ==
  /\ pc = "saving" /\ pc' = "running" /\ text' = "none"
  /\ \/ Written(saving, text) /\ Works /\ UNCHANGED hurt
     \/ \E c \in Damaged :
          Written(saving, c) /\ Fails /\ hurt' = hurt \cup {Family[saving]}
  /\ UNCHANGED <<m, saving, had>>

-----------------------------------------------------------------------------
(* The file that has been emptied and is about to be written, if any, and    *)
(* whether an older version of it is still there.                            *)
InHand ==
  CASE pc = "save" -> {Current}
    [] pc = "savePolygon" -> {Parts}
    [] pc = "saveReferences" -> {Combinations}
    [] pc = "saving" -> {saving}
    [] OTHER -> {}

OnlyCopy == IF pc = "save" THEN {} ELSE InHand

(* The process dies and is started again. *)
Crash ==
  /\ Faults /\ crashes < MaxCrashes /\ crashes' = crashes + 1
  /\ \E c \in {"empty", "torn"} :
       content' = [f \in File |-> IF f \in InHand THEN c ELSE content[f]]
  /\ hurt' = hurt \cup {Family[f] : f \in OnlyCopy} \cup Between
  /\ pc' = "migrate" /\ m' = 1 /\ text' = "none"
  /\ UNCHANGED <<saving, had, failures, saves>>

Migrate ==
  \/ NothingToMigrate \/ OpenFails \/ DecodeThrows \/ ReadLast
  \/ CreateCurrent \/ CreateFails \/ SaveCurrent \/ SaveFails \/ RemoveLast

InPlace ==
  \/ RemovePolygons \/ SavePolygons \/ RemoveReferences \/ SaveReferences
  \/ FileSave \/ FileSaved

Next == Migrate \/ CheckWhetherFileExists \/ InPlace \/ Crash

Spec == Init /\ [][Next]_vars

-----------------------------------------------------------------------------
(* No data is lost: a family that had data has it in some file, or is being  *)
(* rewritten, unless a write failed or the process died while the only copy  *)
(* was being rewritten in place.  A crash inside a migration costs nothing.  *)
NothingLost ==
  \A fam \in had \ hurt :
    \E f \in File : Family[f] = fam /\ (content[f] \in Data \/ f \in OnlyCopy)

(* What a manager saved is never replaced by what an older file holds: a     *)
(* migration that ran to its end leaves nothing to migrate.  (After a failed *)
(* creation the old file is still there, and the next start puts it over     *)
(* whatever was saved in between.)                                           *)
SavedStays ==
  [][\A f \in File : content[f] = "new" /\ content'[f] # "new" =>
       failures > 0 \/ pc' \in {"saving", "savePolygon", "saveReferences"}]_vars

(* A crash never keeps the node from starting again as long as it did not    *)
(* fall into a file that is rewritten in place: a torn new file is replaced  *)
(* before it is read.                                                        *)
StartsAgain == pc = "aborted" => hurt # {} \/ failures > 0

(* When requests are served no combination refers to a polygon part that was *)
(* removed, unless an operation on a file failed or the process died between *)
(* the two files or inside the write of one.                                 *)
ReferencesRemoved ==
  pc \in {"running", "saving"} /\ hurt \cap {"part", "combination"} = {} /\ failures = 0 =>
    ~(content[Parts] \in {"clean", "new"} /\ content[Combinations] = "legacy")
=============================================================================
