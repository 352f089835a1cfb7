------------------------- MODULE UpgradeManagerProofs -------------------------
(***************************************************************************)
(* The start of the node loses no data, for every choice of families and   *)
(* for any number of crashes, failures and saves.  The invariant adds to   *)
(* NothingLost what the main thread knows at each place of a migration:    *)
(* the old file has the data until the new one has it.                     *)
(***************************************************************************)
EXTENDS UpgradeManager, TLAPS

FilePC == {"migrate", "create", "save", "remove", "check", "polygon", "savePolygon",
           "references", "saveReferences", "running", "saving", "aborted"}

(* What the main thread knows between two file operations. *)
OldHasData == pc \in {"create", "save"} => content[Last] \in Data /\ text \in Data
NewHasData == pc = "remove" => content[Current] \in Data \/ Family[Current] \in hurt
TextHasData == pc \in {"savePolygon", "saveReferences", "saving"} => text \in Data

Places ==
  /\ content \in [File -> Content]
  /\ pc \in FilePC
  /\ m \in 1 .. 9
  /\ saving \in Newest

UInv == Places /\ OldHasData /\ NewHasData /\ TextHasData /\ NothingLost

(* Each migration stays in its family and does not write the file it reads. *)
LEMMA MigrationsOfAFamily ==
  ASSUME m \in 1 .. 9
  PROVE  /\ Last \in File /\ Current \in File /\ Last # Current
         /\ Family[Last] = Family[Current]
<1>1. m = 1 \/ m = 2 \/ m = 3 \/ m = 4 \/ m = 5 \/ m = 6 \/ m = 7 \/ m = 8 \/ m = 9
  OBVIOUS
<1>2. CASE m = 1 BY <1>2 DEF Last, Current, Migrations, updateCombinationPrincipal, File, Family
<1>3. CASE m = 2 BY <1>3 DEF Last, Current, Migrations, updateViewPartPrincipal, File, Family
<1>4. CASE m = 3 BY <1>4 DEF Last, Current, Migrations, updateCleanHistoryPrincipal, File, Family
<1>5. CASE m = 4 BY <1>5 DEF Last, Current, Migrations, updateCombinationBase64, File, Family
<1>6. CASE m = 5 BY <1>6 DEF Last, Current, Migrations, updateViewPartBase64, File, Family
<1>7. CASE m = 6 BY <1>7 DEF Last, Current, Migrations, updateCleanHistoryBase64, File, Family
<1>8. CASE m = 7 BY <1>8 DEF Last, Current, Migrations, updateTimeInfoBase64, File, Family
<1>9. CASE m = 8 BY <1>9 DEF Last, Current, Migrations, updateTeachPoint, File, Family
<1>10. CASE m = 9
  BY <1>10 DEF Last, Current, Migrations, updateCombinationPrincipalWork, File, Family
<1> QED BY <1>1, <1>2, <1>3, <1>4, <1>5, <1>6, <1>7, <1>8, <1>9, <1>10

(* main calls nine migrations. *)
LEMMA NineMigrations == Len(Migrations) = 9
BY DEF Migrations

(* The files the managers keep are files. *)
LEMMA NewestAreFiles == Newest \subseteq File /\ Parts \in File /\ Combinations \in File
BY DEF Newest, File, Family, Parts, Combinations

-----------------------------------------------------------------------------
(* A file f of the family that keeps its data keeps the family.              *)
LEMMA KeptWitness ==
  ASSUME NothingLost, had' \subseteq had, hurt \subseteq hurt',
         NEW Done \in SUBSET File,
         \A f \in File : content[f] \in Data \/ f \in OnlyCopy
                         => content'[f] \in Data \/ f \in OnlyCopy' \/ f \in Done,
         \A f \in Done : \/ Family[f] \in hurt'
                         \/ \E g \in File : Family[g] = Family[f] /\ content'[g] \in Data
  PROVE  NothingLost'
<1> SUFFICES ASSUME NEW fam \in had', fam \notin hurt'
             PROVE  \E f \in File : Family[f] = fam /\ (content'[f] \in Data \/ f \in OnlyCopy')
  BY DEF NothingLost
<1>1. PICK f \in File : Family[f] = fam /\ (content[f] \in Data \/ f \in OnlyCopy)
  BY DEF NothingLost
<1>2. CASE f \in Done BY <1>1, <1>2
<1>3. CASE f \notin Done BY <1>1, <1>3
<1> QED BY <1>2, <1>3

(* The first state: every family that had data has it. *)
LEMMA UpgradeInit == Init => UInv
<1> SUFFICES ASSUME Init PROVE UInv
  OBVIOUS
<1>1. PICK held \in SUBSET Stored, polygons \in SUBSET {"part", "combination"} :
        /\ content = [f \in File |-> IF f \notin held THEN "absent"
                                     ELSE IF Family[f] \in polygons THEN "legacy" ELSE "clean"]
        /\ had = {Family[f] : f \in held}
  BY DEF Init
<1>2. held \subseteq File BY DEF Stored
<1>3. Places
  BY <1>1, NewestAreFiles DEF Init, Places, Content, Data, FilePC, Parts, Newest
<1>4. NothingLost
  BY <1>1, <1>2 DEF NothingLost, Data
<1>5. OldHasData /\ NewHasData /\ TextHasData
  BY DEF Init, OldHasData, NewHasData, TextHasData
<1> QED BY <1>3, <1>4, <1>5 DEF UInv

-----------------------------------------------------------------------------
LEMMA NothingToMigrateStep == UInv /\ NothingToMigrate => UInv'
<1> SUFFICES ASSUME UInv, NothingToMigrate PROVE UInv'
  OBVIOUS
<1> USE MigrationsOfAFamily, NineMigrations DEF UInv, Places
<1>1. Places'
  BY DEF NothingToMigrate, Written, NextMigration, FilePC, Content
<1>2. OldHasData' /\ NewHasData' /\ TextHasData'
  BY DEF NothingToMigrate, NextMigration, OldHasData, NewHasData, TextHasData
<1>3. NothingLost'
  <2>1. OnlyCopy = {} BY DEF NothingToMigrate, OnlyCopy, InHand
  <2>2. \A f \in File : content[f] \in Data => content'[f] \in Data
    BY DEF NothingToMigrate, Written, Data
  <2> QED BY <2>1, <2>2 DEF NothingToMigrate, NothingLost
<1> QED BY <1>1, <1>2, <1>3

LEMMA OpenFailsStep == UInv /\ OpenFails => UInv'
<1> SUFFICES ASSUME UInv, OpenFails PROVE UInv'
  OBVIOUS
<1> USE MigrationsOfAFamily, NineMigrations DEF UInv, Places
<1>1. Places'
  BY NewestAreFiles DEF OpenFails, Written, NextMigration, Fails, Works, boundVars, FilePC, Content, Data, Damaged, Newest
<1>2. OldHasData' /\ NewHasData' /\ TextHasData'
  BY DEF OpenFails, Written, NextMigration, OldHasData, NewHasData, TextHasData, Last, Current, Data
<1>3. NothingLost'
  <2>1. OnlyCopy = {} /\ OnlyCopy' = {}
    BY DEF OpenFails, Written, NextMigration, OnlyCopy, InHand
  <2>2. \A f \in File \ {Last} : content[f] \in Data => content'[f] \in Data
    BY DEF OpenFails, Written, NextMigration, Data
  <2>3. \A f \in {Last} : \/ Family[f] \in hurt'
                         \/ \E g \in File : Family[g] = Family[f] /\ content'[g] \in Data
    BY DEF OpenFails, Written, NextMigration, OldHasData, NewHasData, Data
  <2>4. had' \subseteq had /\ hurt \subseteq hurt' /\ {Last} \subseteq File
    BY DEF OpenFails, Written, NextMigration, Newest
  <2>5. PICK Done \in SUBSET File : Done = {Last}
    BY <2>4
  <2> QED BY ONLY UInv, <2>1, <2>2, <2>3, <2>4, <2>5, KeptWitness DEF UInv
<1> QED BY <1>1, <1>2, <1>3

LEMMA DecodeThrowsStep == UInv /\ DecodeThrows => UInv'
<1> SUFFICES ASSUME UInv, DecodeThrows PROVE UInv'
  OBVIOUS
<1> USE MigrationsOfAFamily, NineMigrations DEF UInv, Places
<1>1. Places'
  BY NewestAreFiles DEF DecodeThrows, Fails, Works, boundVars, FilePC, Content, Data, Damaged, Newest
<1>2. OldHasData' /\ NewHasData' /\ TextHasData'
  BY DEF DecodeThrows, OldHasData, NewHasData, TextHasData, Last, Current, Data
<1>3. NothingLost'
  <2>1. OnlyCopy = {} /\ OnlyCopy' = {}
    BY DEF DecodeThrows, OnlyCopy, InHand
  <2>2. \A f \in File \ {} : content[f] \in Data => content'[f] \in Data
    BY DEF DecodeThrows, Data
  <2>3. \A f \in {} : \/ Family[f] \in hurt'
                         \/ \E g \in File : Family[g] = Family[f] /\ content'[g] \in Data
    BY DEF DecodeThrows, OldHasData, NewHasData, Data
  <2>4. had' \subseteq had /\ hurt \subseteq hurt' /\ {} \subseteq File
    BY DEF DecodeThrows, Newest
  <2>5. PICK Done \in SUBSET File : Done = {}
    BY <2>4
  <2> QED BY ONLY UInv, <2>1, <2>2, <2>3, <2>4, <2>5, KeptWitness DEF UInv
<1> QED BY <1>1, <1>2, <1>3

LEMMA ReadLastStep == UInv /\ ReadLast => UInv'
<1> SUFFICES ASSUME UInv, ReadLast PROVE UInv'
  OBVIOUS
<1> USE MigrationsOfAFamily, NineMigrations DEF UInv, Places
<1>1. Places'
  BY NewestAreFiles DEF ReadLast, Fails, Works, boundVars, FilePC, Content, Data, Damaged, Newest
<1>2. OldHasData' /\ NewHasData' /\ TextHasData'
  BY DEF ReadLast, OldHasData, NewHasData, TextHasData, Last, Current, Data
<1>3. NothingLost'
  <2>1. OnlyCopy = {} /\ OnlyCopy' = {}
    BY DEF ReadLast, OnlyCopy, InHand
  <2>2. \A f \in File \ {} : content[f] \in Data => content'[f] \in Data
    BY DEF ReadLast, Data
  <2>3. \A f \in {} : \/ Family[f] \in hurt'
                         \/ \E g \in File : Family[g] = Family[f] /\ content'[g] \in Data
    BY DEF ReadLast, OldHasData, NewHasData, Data
  <2>4. had' \subseteq had /\ hurt \subseteq hurt' /\ {} \subseteq File
    BY DEF ReadLast, Newest
  <2>5. PICK Done \in SUBSET File : Done = {}
    BY <2>4
  <2> QED BY ONLY UInv, <2>1, <2>2, <2>3, <2>4, <2>5, KeptWitness DEF UInv
<1> QED BY <1>1, <1>2, <1>3

LEMMA CreateCurrentStep == UInv /\ CreateCurrent => UInv'
<1> SUFFICES ASSUME UInv, CreateCurrent PROVE UInv'
  OBVIOUS
<1> USE MigrationsOfAFamily, NineMigrations DEF UInv, Places
<1>1. Places'
  BY NewestAreFiles DEF CreateCurrent, Written, Fails, Works, boundVars, FilePC, Content, Data, Damaged, Newest
<1>2. OldHasData' /\ NewHasData' /\ TextHasData'
  BY DEF CreateCurrent, Written, OldHasData, NewHasData, TextHasData, Last, Current, Data
<1>3. NothingLost'
  <2>1. OnlyCopy = {} /\ OnlyCopy' = {}
    BY DEF CreateCurrent, Written, OnlyCopy, InHand
  <2>2. \A f \in File \ {Current} : content[f] \in Data => content'[f] \in Data
    BY DEF CreateCurrent, Written, Data
  <2>3. \A f \in {Current} : \/ Family[f] \in hurt'
                         \/ \E g \in File : Family[g] = Family[f] /\ content'[g] \in Data
    BY DEF CreateCurrent, Written, OldHasData, NewHasData, Data
  <2>4. had' \subseteq had /\ hurt \subseteq hurt' /\ {Current} \subseteq File
    BY DEF CreateCurrent, Written, Newest
  <2>5. PICK Done \in SUBSET File : Done = {Current}
    BY <2>4
  <2> QED BY ONLY UInv, <2>1, <2>2, <2>3, <2>4, <2>5, KeptWitness DEF UInv
<1> QED BY <1>1, <1>2, <1>3

LEMMA CreateFailsStep == UInv /\ CreateFails => UInv'
<1> SUFFICES ASSUME UInv, CreateFails PROVE UInv'
  OBVIOUS
<1> USE MigrationsOfAFamily, NineMigrations DEF UInv, Places
<1>1. Places'
  BY NewestAreFiles DEF CreateFails, NextMigration, Fails, Works, boundVars, FilePC, Content, Data, Damaged, Newest
<1>2. OldHasData' /\ NewHasData' /\ TextHasData'
  BY DEF CreateFails, NextMigration, OldHasData, NewHasData, TextHasData, Last, Current, Data
<1>3. NothingLost'
  <2>1. OnlyCopy = {} /\ OnlyCopy' = {}
    BY DEF CreateFails, NextMigration, OnlyCopy, InHand
  <2>2. \A f \in File \ {} : content[f] \in Data => content'[f] \in Data
    BY DEF CreateFails, NextMigration, Data
  <2>3. \A f \in {} : \/ Family[f] \in hurt'
                         \/ \E g \in File : Family[g] = Family[f] /\ content'[g] \in Data
    BY DEF CreateFails, NextMigration, OldHasData, NewHasData, Data
  <2>4. had' \subseteq had /\ hurt \subseteq hurt' /\ {} \subseteq File
    BY DEF CreateFails, NextMigration, Newest
  <2>5. PICK Done \in SUBSET File : Done = {}
    BY <2>4
  <2> QED BY ONLY UInv, <2>1, <2>2, <2>3, <2>4, <2>5, KeptWitness DEF UInv
<1> QED BY <1>1, <1>2, <1>3

LEMMA SaveCurrentStep == UInv /\ SaveCurrent => UInv'
<1> SUFFICES ASSUME UInv, SaveCurrent PROVE UInv'
  OBVIOUS
<1> USE MigrationsOfAFamily, NineMigrations DEF UInv, Places
<1>1. Places'
  BY NewestAreFiles DEF SaveCurrent, OldHasData, Written, Fails, Works, boundVars, FilePC, Content, Data, Damaged, Newest
<1>2. OldHasData' /\ NewHasData' /\ TextHasData'
  BY DEF SaveCurrent, Written, OldHasData, NewHasData, TextHasData, Last, Current, Data
<1>3. NothingLost'
  <2>1. OnlyCopy = {} /\ OnlyCopy' = {}
    BY DEF SaveCurrent, Written, OnlyCopy, InHand
  <2>2. \A f \in File \ {Current} : content[f] \in Data => content'[f] \in Data
    BY DEF SaveCurrent, Written, Data
  <2>3. \A f \in {Current} : \/ Family[f] \in hurt'
                         \/ \E g \in File : Family[g] = Family[f] /\ content'[g] \in Data
    BY DEF SaveCurrent, Written, OldHasData, NewHasData, Data
  <2>4. had' \subseteq had /\ hurt \subseteq hurt' /\ {Current} \subseteq File
    BY DEF SaveCurrent, Written, Newest
  <2>5. PICK Done \in SUBSET File : Done = {Current}
    BY <2>4
  <2> QED BY ONLY UInv, <2>1, <2>2, <2>3, <2>4, <2>5, KeptWitness DEF UInv
<1> QED BY <1>1, <1>2, <1>3

LEMMA SaveFailsStep == UInv /\ SaveFails => UInv'
<1> SUFFICES ASSUME UInv, SaveFails PROVE UInv'
  OBVIOUS
<1> USE MigrationsOfAFamily, NineMigrations DEF UInv, Places
<1>1. Places'
  BY NewestAreFiles DEF SaveFails, Written, Fails, Works, boundVars, FilePC, Content, Data, Damaged, Newest
<1>2. OldHasData' /\ NewHasData' /\ TextHasData'
  BY DEF SaveFails, Written, OldHasData, NewHasData, TextHasData, Last, Current, Data
<1>3. NothingLost'
  <2>1. OnlyCopy = {} /\ OnlyCopy' = {}
    BY DEF SaveFails, Written, OnlyCopy, InHand
  <2>2. \A f \in File \ {Current} : content[f] \in Data => content'[f] \in Data
    BY DEF SaveFails, Written, Data
  <2>3. \A f \in {Current} : \/ Family[f] \in hurt'
                         \/ \E g \in File : Family[g] = Family[f] /\ content'[g] \in Data
    BY DEF SaveFails, Written, OldHasData, NewHasData, Data
  <2>4. had' \subseteq had /\ hurt \subseteq hurt' /\ {Current} \subseteq File
    BY DEF SaveFails, Written, Newest
  <2>5. PICK Done \in SUBSET File : Done = {Current}
    BY <2>4
  <2> QED BY ONLY UInv, <2>1, <2>2, <2>3, <2>4, <2>5, KeptWitness DEF UInv
<1> QED BY <1>1, <1>2, <1>3

LEMMA RemoveLastStep == UInv /\ RemoveLast => UInv'
<1> SUFFICES ASSUME UInv, RemoveLast PROVE UInv'
  OBVIOUS
<1> USE MigrationsOfAFamily, NineMigrations DEF UInv, Places
<1>1. Places'
  BY NewestAreFiles DEF RemoveLast, Written, NextMigration, Fails, Works, boundVars, FilePC, Content, Data, Damaged, Newest
<1>2. OldHasData' /\ NewHasData' /\ TextHasData'
  BY DEF RemoveLast, Written, NextMigration, OldHasData, NewHasData, TextHasData, Last, Current, Data
<1>3. NothingLost'
  <2>1. OnlyCopy = {} /\ OnlyCopy' = {}
    BY DEF RemoveLast, Written, NextMigration, OnlyCopy, InHand
  <2>2. \A f \in File \ {Last} : content[f] \in Data => content'[f] \in Data
    BY DEF RemoveLast, Written, NextMigration, Data
  <2>3. \A f \in {Last} : \/ Family[f] \in hurt'
                         \/ \E g \in File : Family[g] = Family[f] /\ content'[g] \in Data
    BY DEF RemoveLast, Written, NextMigration, OldHasData, NewHasData, Data
  <2>4. had' \subseteq had /\ hurt \subseteq hurt' /\ {Last} \subseteq File
    BY DEF RemoveLast, Written, NextMigration, Newest
  <2>5. PICK Done \in SUBSET File : Done = {Last}
    BY <2>4
  <2> QED BY ONLY UInv, <2>1, <2>2, <2>3, <2>4, <2>5, KeptWitness DEF UInv
<1> QED BY <1>1, <1>2, <1>3

LEMMA CheckStep == UInv /\ CheckWhetherFileExists => UInv'
<1> SUFFICES ASSUME UInv, CheckWhetherFileExists PROVE UInv'
  OBVIOUS
<1> USE MigrationsOfAFamily, NineMigrations DEF UInv, Places
<1>1. Places'
  BY NewestAreFiles DEF CheckWhetherFileExists, Fails, Works, boundVars, FilePC, Content, Data, Damaged, Newest
<1>2. OldHasData' /\ NewHasData' /\ TextHasData'
  BY DEF CheckWhetherFileExists, OldHasData, NewHasData, TextHasData, Last, Current, Data
<1>3. NothingLost'
  <2>1. OnlyCopy = {} /\ OnlyCopy' = {}
    BY DEF CheckWhetherFileExists, OnlyCopy, InHand
  <2>2. \A f \in File \ {} : content[f] \in Data => content'[f] \in Data
    BY DEF CheckWhetherFileExists, Data
  <2>3. \A f \in {} : \/ Family[f] \in hurt'
                         \/ \E g \in File : Family[g] = Family[f] /\ content'[g] \in Data
    BY DEF CheckWhetherFileExists, OldHasData, NewHasData, Data
  <2>4. had' \subseteq had /\ hurt \subseteq hurt' /\ {} \subseteq File
    BY DEF CheckWhetherFileExists, Newest
  <2>5. PICK Done \in SUBSET File : Done = {}
    BY <2>4
  <2> QED BY ONLY UInv, <2>1, <2>2, <2>3, <2>4, <2>5, KeptWitness DEF UInv
<1> QED BY <1>1, <1>2, <1>3

-----------------------------------------------------------------------------
(* The files rewritten in place: emptied, then written. *)
LEMMA RewrittenStep ==
  ASSUME UInv, NEW at, NEW file \in Newest, NEW there, Rewritten(at, file, there),
         \/ at = "polygon" /\ file = Parts /\ there = "savePolygon"
         \/ at = "references" /\ file = Combinations /\ there = "saveReferences"
  PROVE  UInv'
<1> USE NewestAreFiles DEF UInv, Places
<1>1. pc = at /\ pc' \in {"running", "aborted", there} /\ m' = m /\ saving' = saving /\ had' = had
  BY DEF Rewritten
<1>2. hurt \subseteq hurt'
  BY DEF Rewritten
<1>3. OldHasData' /\ NewHasData'
  BY <1>1 DEF OldHasData, NewHasData
<1>4. OnlyCopy = {}
  BY <1>1 DEF OnlyCopy, InHand
<1>5. CASE pc' = there
  <2>1. content' = [content EXCEPT ![file] = "empty"] /\ text' \in Data
    BY <1>5 DEF Rewritten, Written
  <2>2. Places'
    BY <1>1, <1>5, <2>1 DEF FilePC, Content
  <2>3. TextHasData'
    BY <2>1 DEF TextHasData
  <2>4. OnlyCopy' = {file}
    BY <1>5 DEF OnlyCopy, InHand
  <2>5. \A f \in File : content[f] \in Data => content'[f] \in Data \/ f \in OnlyCopy'
    BY <2>1, <2>4
  <2>6. NothingLost'
    BY <1>1, <1>2, <1>4, <2>5 DEF NothingLost
  <2> QED BY <1>3, <2>2, <2>3, <2>6
<1>6. CASE pc' # there
  <2>1. content' = content /\ pc' \in {"running", "aborted"}
    BY <1>1, <1>6 DEF Rewritten
  <2>2. Places' /\ TextHasData'
    BY <1>1, <2>1 DEF FilePC, TextHasData
  <2>3. NothingLost'
    BY <1>1, <1>2, <1>4, <2>1 DEF NothingLost
  <2> QED BY <1>3, <2>2, <2>3
<1> QED BY <1>5, <1>6

LEMMA SaveInPlaceStep ==
  ASSUME UInv, NEW at, NEW file \in Newest, NEW next \in {"references", "running"},
         SaveInPlace(at, file, next),
         \/ at = "savePolygon" /\ file = Parts
         \/ at = "saveReferences" /\ file = Combinations
  PROVE  UInv'
<1> USE NewestAreFiles DEF UInv, Places
<1>1. pc = at /\ pc' = next /\ m' = m /\ saving' = saving /\ had' = had /\ hurt \subseteq hurt'
  BY DEF SaveInPlace
<1>2. text \in Data
  BY <1>1 DEF TextHasData
<1>3. PICK c \in Content : /\ content' = [content EXCEPT ![file] = c]
                          /\ (c \in Data \/ Family[file] \in hurt')
  BY <1>2 DEF SaveInPlace, Written, Content, Data, Damaged
<1>4. Places'
  BY <1>1, <1>3 DEF FilePC
<1>5. OldHasData' /\ NewHasData' /\ TextHasData'
  BY <1>1 DEF OldHasData, NewHasData, TextHasData
<1>6. OnlyCopy = {file}
  BY <1>1 DEF OnlyCopy, InHand
<1>7. NothingLost'
  BY <1>1, <1>3, <1>6 DEF NothingLost
<1> QED BY <1>4, <1>5, <1>7

LEMMA FileSaveStep == UInv /\ FileSave => UInv'
<1> SUFFICES ASSUME UInv, FileSave PROVE UInv'
  OBVIOUS
<1> USE NewestAreFiles DEF UInv, Places
<1>1. PICK f \in Newest : /\ saving' = f /\ content' = [content EXCEPT ![f] = "empty"]
                         /\ had' = had \cup {Family[f]}
  BY DEF FileSave, Written
<1>2. pc = "running" /\ pc' = "saving" /\ text' = "new" /\ m' = m /\ hurt' = hurt
  BY DEF FileSave
<1>3. Places' /\ OldHasData' /\ NewHasData' /\ TextHasData'
  BY <1>1, <1>2 DEF FilePC, Content, OldHasData, NewHasData, TextHasData, Data
<1>4. OnlyCopy = {} /\ OnlyCopy' = {f}
  BY <1>1, <1>2 DEF OnlyCopy, InHand
<1>5. NothingLost'
  <2> SUFFICES ASSUME NEW fam \in had', fam \notin hurt'
               PROVE  \E g \in File : Family[g] = fam /\ (content'[g] \in Data \/ g \in OnlyCopy')
    BY DEF NothingLost
  <2>1. CASE fam = Family[f] BY <1>4, <2>1
  <2>2. CASE fam # Family[f]
    <3>1. PICK g \in File : Family[g] = fam /\ content[g] \in Data
      BY <1>1, <1>2, <1>4, <2>2 DEF NothingLost
    <3> QED BY <1>1, <2>2, <3>1
  <2> QED BY <2>1, <2>2
<1> QED BY <1>3, <1>5

LEMMA FileSavedStep == UInv /\ FileSaved => UInv'
<1> SUFFICES ASSUME UInv, FileSaved PROVE UInv'
  OBVIOUS
<1> USE NewestAreFiles DEF UInv, Places
<1>1. pc = "saving" /\ pc' = "running" /\ m' = m /\ saving' = saving /\ had' = had
      /\ hurt \subseteq hurt'
  BY DEF FileSaved
<1>2. PICK c \in Content : /\ content' = [content EXCEPT ![saving] = c]
                          /\ (c \in Data \/ Family[saving] \in hurt')
  BY <1>1 DEF FileSaved, Written, Content, Damaged, TextHasData
<1>3. Places' /\ OldHasData' /\ NewHasData' /\ TextHasData'
  BY <1>1, <1>2 DEF FilePC, OldHasData, NewHasData, TextHasData
<1>4. OnlyCopy = {saving}
  BY <1>1 DEF OnlyCopy, InHand
<1>5. NothingLost'
  BY <1>1, <1>2, <1>4 DEF NothingLost
<1> QED BY <1>3, <1>5

-----------------------------------------------------------------------------
(* The process dies: what was in hand in a migration is still in the old     *)
(* file; what was in hand in place is given up.                              *)
LEMMA CrashStep == UInv /\ Crash => UInv'
<1> SUFFICES ASSUME UInv, Crash PROVE UInv'
  OBVIOUS
<1> USE NewestAreFiles DEF UInv, Places
<1>1. PICK c \in {"empty", "torn"} :
        content' = [f \in File |-> IF f \in InHand THEN c ELSE content[f]]
  BY DEF Crash
<1>2. /\ pc' = "migrate" /\ m' = 1 /\ saving' = saving /\ had' = had
      /\ hurt \subseteq hurt' /\ \A f \in OnlyCopy : Family[f] \in hurt'
  BY DEF Crash
<1>3. Places' /\ OldHasData' /\ NewHasData' /\ TextHasData'
  BY <1>1, <1>2 DEF FilePC, Content, OldHasData, NewHasData, TextHasData
<1>4. NothingLost'
  <2> SUFFICES ASSUME NEW fam \in had', fam \notin hurt'
               PROVE  \E f \in File : Family[f] = fam /\ content'[f] \in Data
    BY DEF NothingLost
  <2>1. PICK f \in File : Family[f] = fam /\ content[f] \in Data /\ f \notin OnlyCopy
    BY <1>2 DEF NothingLost
  <2>2. CASE f \notin InHand
    BY <1>1, <2>1, <2>2
  <2>3. CASE f \in InHand
    <3>1. pc = "save" /\ f = Current
      BY <2>1, <2>3 DEF OnlyCopy, InHand
    <3>2. content[Last] \in Data /\ Last \notin InHand
      BY <3>1, MigrationsOfAFamily DEF OldHasData, InHand
    <3> QED BY <1>1, <2>1, <3>1, <3>2, MigrationsOfAFamily
  <2> QED BY <2>2, <2>3
<1> QED BY <1>3, <1>4

-----------------------------------------------------------------------------
(* NothingLost, with what the main thread knows, is inductive. *)
LEMMA UpgradeStep == UInv /\ [Next]_vars => UInv'
<1> SUFFICES ASSUME UInv, [Next]_vars PROVE UInv'
  OBVIOUS
<1>1. CASE Migrate
  BY <1>1, NothingToMigrateStep, OpenFailsStep, DecodeThrowsStep, ReadLastStep,
     CreateCurrentStep, CreateFailsStep, SaveCurrentStep, SaveFailsStep, RemoveLastStep
  DEF Migrate
<1>2. CASE CheckWhetherFileExists
  BY <1>2, CheckStep
<1>3. CASE InPlace
  <2>1. CASE RemovePolygons
    BY <2>1, RewrittenStep DEF RemovePolygons, Newest, Parts
  <2>2. CASE SavePolygons
    <3>1. AfterParts \in {"references", "running"} BY DEF AfterParts
    <3> QED BY <2>2, <3>1, SaveInPlaceStep DEF SavePolygons, Newest, Parts
  <2>3. CASE RemoveReferences
    BY <2>3, RewrittenStep DEF RemoveReferences, Newest, Combinations
  <2>4. CASE SaveReferences
    BY <2>4, SaveInPlaceStep DEF SaveReferences, Newest, Combinations
  <2>5. CASE FileSave \/ FileSaved
    BY <2>5, FileSaveStep, FileSavedStep
  <2> QED BY <1>3, <2>1, <2>2, <2>3, <2>4, <2>5 DEF InPlace
<1>4. CASE Crash
  BY <1>4, CrashStep
<1>5. CASE UNCHANGED vars
  BY <1>5 DEF vars, UInv, Places, OldHasData, NewHasData, TextHasData, NothingLost,
     OnlyCopy, InHand, Last, Current
<1> QED BY <1>1, <1>2, <1>3, <1>4, <1>5 DEF Next

(* A crash at any point of the start, or of a migration, and any failure     *)
(* that is not one of the writes themselves, leaves the data of every family *)
(* in some file.                                                             *)
THEOREM UpgradeLosesNothing == Spec => []NothingLost
<1>1. UInv => NothingLost BY DEF UInv
<1> QED BY <1>1, UpgradeInit, UpgradeStep, PTL DEF Spec

-----------------------------------------------------------------------------
(* The rest of the invariant follows the nine migrations in their order.  As  *)
(* long as no file operation has failed (a crash is not a failure), ...       *)
Migrating == pc \in {"migrate", "create", "save", "remove"}
Old(j) == Migrations[j].last
Young(j) == Migrations[j].current

(* what is about to be written, and the file it will be written to, *)
TextInHand ==
  /\ pc \in {"create", "save"} => text = content[Last]
  /\ pc = "saving" => text = "new"

EmptyInHand == \A f \in InHand : content[f] = "empty"

(* a migration that is over has left no old file,                             *)
OldGone ==
  failures = 0 /\ pc # "aborted" =>
    \A j \in 1 .. 9 : (Migrating => j < m) => content[Old(j)] = "absent"

(* a manager saves only when all of them are gone,                            *)
NewAlone ==
  failures = 0 /\ (\E f \in File : content[f] = "new") =>
    \A j \in 1 .. 9 : content[Old(j)] = "absent"

(* a torn file is one whose migration will be done again before it is read,   *)
TornIsRedone ==
  failures = 0 /\ hurt = {} =>
    \A f \in File : content[f] = "torn" =>
      \E k \in 1 .. 9 : /\ f = Young(k) /\ content[Old(k)] \in Data
                        /\ \A j \in 1 .. 9 : j < k => content[Old(j)] = "absent"

(* and polygons in the combinations come with the parts that have them.       *)
Holds(fam, c) == \E f \in File : Family[f] = fam /\ content[f] = c

PolygonsTogether ==
  /\ failures = 0 /\ hurt \cap {"part", "combination"} = {}
  /\ pc \notin {"references", "saveReferences"} /\ Holds("combination", "legacy")
  => /\ pc \notin {"running", "saving"}
     /\ ~Holds("part", "clean") /\ ~Holds("part", "new")
     /\ Holds("part", "legacy") \/ (pc = "savePolygon" /\ text = "legacy")

Known == UInv /\ TypeOK /\ TextInHand /\ EmptyInHand
Order == OldGone /\ NewAlone /\ TornIsRedone /\ PolygonsTogether

(* The table of main, line by line. *)
LEMMA Table ==
  /\ Old(1) = "combination_list" /\ Young(1) = "combination_list_principal"
  /\ Old(2) = "view_part" /\ Young(2) = "view_part_principal"
  /\ Old(3) = "clean_history" /\ Young(3) = "clean_history_principal"
  /\ Old(4) = "combination_list_principal" /\ Young(4) = "combination_list_principal_json"
  /\ Old(5) = "view_part_principal" /\ Young(5) = "view_part_principal_json"
  /\ Old(6) = "clean_history_principal" /\ Young(6) = "clean_history_principal_json"
  /\ Old(7) = "timer_info" /\ Young(7) = "timer_info_json"
  /\ Old(8) = "teach_point" /\ Young(8) = "teach_point_json"
  /\ Old(9) = "combination_list_principal_json"
  /\ Young(9) = "combination_list_principal_json_work"
BY DEF Old, Young, Migrations, updateCombinationPrincipal, updateViewPartPrincipal,
       updateCleanHistoryPrincipal, updateCombinationBase64, updateViewPartBase64,
       updateCleanHistoryBase64, updateTimeInfoBase64, updateTeachPoint,
       updateCombinationPrincipalWork

LEMMA NineCases ==
  ASSUME NEW j \in 1 .. 9
  PROVE  j = 1 \/ j = 2 \/ j = 3 \/ j = 4 \/ j = 5 \/ j = 6 \/ j = 7 \/ j = 8 \/ j = 9
OBVIOUS

(* No file is read by two migrations, and one that a migration writes is read *)
(* by a later one only.                                                       *)
LEMMA MigrationOrder ==
  ASSUME NEW j \in 1 .. 9, NEW k \in 1 .. 9
  PROVE  /\ Old(j) = Old(k) => j = k
         /\ Young(j) = Old(k) => j < k
<1>1. Old(j) = Old(k) => j = k
  BY ONLY Table, NineCases, j \in 1 .. 9, k \in 1 .. 9
<1>2. Young(j) = Old(k) => j < k
  BY ONLY Table, NineCases, j \in 1 .. 9, k \in 1 .. 9
<1> QED BY <1>1, <1>2

LEMMA OldFiles ==
  ASSUME NEW j \in 1 .. 9
  PROVE  /\ Old(j) \in File /\ Young(j) \in File /\ Old(j) \notin Newest
         /\ Family[Old(j)] = Family[Young(j)]
<1>1. Old(j) \in File /\ Young(j) \in File /\ Family[Old(j)] = Family[Young(j)]
  BY Table, NineCases DEF File, Family
<1>2. Old(j) \notin Newest
  BY Table, NineCases DEF Newest, Combinations, Parts
<1> QED BY <1>1, <1>2

(* The files of the two families that polygons are in. *)
LEMMA PolygonFiles ==
  ASSUME NEW f \in File
  PROVE  /\ Family[f] = "part" => f = Parts \/ \E j \in 1 .. 9 : f = Old(j)
         /\ Family[f] = "combination" => f = Combinations \/ \E j \in 1 .. 9 : f = Old(j)
         /\ Family[Parts] = "part" /\ Family[Combinations] = "combination"
<1>1. Family[f] = "part" => f \in {"view_part", "view_part_principal", Parts}
  BY DEF Family, File, Parts
<1>2. Family[f] = "combination" =>
        f \in {"combination_list", "combination_list_principal",
               "combination_list_principal_json", Combinations}
  BY DEF Family, File, Combinations
<1>3. Family[Parts] = "part" /\ Family[Combinations] = "combination"
  BY DEF Family, Parts, Combinations
<1> QED BY <1>1, <1>2, <1>3, Table

-----------------------------------------------------------------------------
LEMMA FamiliesOfFiles == \A f \in File : Family[f] \in {Family[g] : g \in File}
OBVIOUS

LEMMA UpgradeTypes == Init => TypeOK
<1> SUFFICES ASSUME Init PROVE TypeOK
  OBVIOUS
<1>1. UInv
  BY UpgradeInit
<1>2. had \in SUBSET {Family[f] : f \in File}
  BY DEF Init, Stored
<1> QED BY <1>1, <1>2, NineMigrations, UpgradeBounds DEF Init, TypeOK, UInv, Places, FilePC

(* A step has its type if the counters have theirs; nothing is forgotten. *)
LEMMA TypesStep ==
  ASSUME UInv, UInv', TypeOK, [Next]_vars
  PROVE  TypeOK' /\ hurt \subseteq hurt' /\ failures <= failures'
<1> DEFINE Fam == {Family[f] : f \in File}
           Counters ==
             /\ crashes' \in 0 .. MaxCrashes /\ failures' \in 0 .. MaxFailures
             /\ saves' \in 0 .. MaxSaves /\ failures <= failures'
           Same == crashes' = crashes /\ failures' = failures /\ saves' = saves
           Texts == text' \in Data \cup {"none"}
           Hurts == hurt' \in SUBSET Fam /\ hurt \subseteq hurt' /\ had' \in SUBSET Fam
<1> USE FamiliesOfFiles, NewestAreFiles, UpgradeBounds DEF UInv, Places
<1>1. \A f \in File : Family[f] \in Fam
  OBVIOUS
<1>2. "part" \in Fam /\ "combination" \in Fam
  BY <1>1, PolygonFiles
<1>3. Works => Counters
  BY DEF Works, boundVars, TypeOK
<1>4. Fails => Counters
  BY DEF Fails, TypeOK
<1>5. had \in SUBSET Fam /\ hurt \in SUBSET Fam /\ text \in Data \cup {"none"}
  BY DEF TypeOK
<1>6. Last \in File /\ Current \in File
  BY MigrationsOfAFamily
<1>7. OnlyCopy \subseteq File /\ Between \subseteq Fam
  BY <1>2, <1>6 DEF OnlyCopy, InHand, Between
<1>8. CASE Migrate
  <2>1. Counters
    BY <1>8, <1>3, <1>4 DEF Migrate, NothingToMigrate, OpenFails, DecodeThrows, ReadLast,
       CreateCurrent, CreateFails, SaveCurrent, SaveFails, RemoveLast
  <2>2. Texts
    BY <1>8, <1>5 DEF Migrate, NothingToMigrate, OpenFails, DecodeThrows, ReadLast,
       CreateCurrent, CreateFails, SaveCurrent, SaveFails, RemoveLast, NextMigration, Data
  <2>3. Hurts
    BY <1>8, <1>5, <1>6, <1>1 DEF Migrate, NothingToMigrate, OpenFails, DecodeThrows, ReadLast,
       CreateCurrent, CreateFails, SaveCurrent, SaveFails, RemoveLast
  <2> QED BY <2>1, <2>2, <2>3, NineMigrations DEF TypeOK, FilePC
<1>9. CASE CheckWhetherFileExists
  BY <1>9, <1>3, <1>4, <1>5, NineMigrations DEF CheckWhetherFileExists, TypeOK, FilePC
<1>10. CASE RemovePolygons \/ RemoveReferences
  <2>1. PICK at, file, there : file \in Newest /\ Rewritten(at, file, there)
    BY <1>10 DEF RemovePolygons, RemoveReferences, Newest, Parts, Combinations
  <2>2. Counters
    BY <2>1, <1>3, <1>4 DEF Rewritten
  <2>3. Texts /\ Hurts
    BY <2>1, <1>5, <1>7 DEF Rewritten
  <2> QED BY <2>2, <2>3, NineMigrations DEF TypeOK, FilePC
<1>11. CASE SavePolygons \/ SaveReferences
  <2>1. PICK at, file, next : file \in Newest /\ SaveInPlace(at, file, next)
    BY <1>11 DEF SavePolygons, SaveReferences, Newest, Parts, Combinations
  <2>2. Counters
    BY <2>1, <1>3, <1>4 DEF SaveInPlace
  <2>3. Texts /\ Hurts
    BY <2>1, <1>5, <1>1 DEF SaveInPlace
  <2> QED BY <2>2, <2>3, NineMigrations DEF TypeOK, FilePC
<1>12. CASE FileSave
  <2>1. Counters /\ Texts /\ Hurts
    BY <1>12, <1>5, <1>1 DEF FileSave, TypeOK, Data
  <2> QED BY <2>1, NineMigrations DEF TypeOK, FilePC
<1>13. CASE FileSaved
  <2>1. Counters /\ Texts /\ Hurts
    BY <1>13, <1>3, <1>4, <1>5, <1>1 DEF FileSaved
  <2> QED BY <2>1, NineMigrations DEF TypeOK, FilePC
<1>14. CASE Crash
  <2>1. Counters /\ Texts
    BY <1>14 DEF Crash, TypeOK
  <2>2. Hurts
    BY <1>14, <1>5, <1>7, <1>1 DEF Crash
  <2> QED BY <2>1, <2>2, NineMigrations DEF TypeOK, FilePC
<1>15. CASE UNCHANGED vars
  BY <1>15 DEF vars, TypeOK
<1> QED BY <1>8, <1>9, <1>10, <1>11, <1>12, <1>13, <1>14, <1>15 DEF Next, InPlace

(* The file that is about to be written is empty: nothing is overwritten. *)
LEMMA HandStep ==
  ASSUME UInv, TextInHand, EmptyInHand, [Next]_vars
  PROVE  TextInHand' /\ EmptyInHand'
<1> USE MigrationsOfAFamily, NewestAreFiles DEF UInv, Places
<1>1. CASE Migrate
  <2>1. CASE ReadLast
    BY <2>1 DEF ReadLast, TextInHand, EmptyInHand, InHand, Last
  <2>2. CASE CreateCurrent
    <3>1. content' = [content EXCEPT ![Current] = "empty"] /\ UNCHANGED <<m, text, saving>>
          /\ pc = "create" /\ pc' = "save"
      BY <2>2 DEF CreateCurrent, Written
    <3>2. Last' = Last /\ Current' = Current
      BY <3>1 DEF Last, Current
    <3>3. InHand' = {Current}
      BY <3>1, <3>2 DEF InHand
    <3> QED BY <3>1, <3>2, <3>3 DEF TextInHand, EmptyInHand
  <2>3. CASE NothingToMigrate \/ OpenFails \/ CreateFails \/ RemoveLast
    <3>1. pc' \in {"check", "migrate"}
      BY <2>3 DEF NothingToMigrate, OpenFails, CreateFails, RemoveLast, NextMigration
    <3> QED BY <3>1 DEF TextInHand, EmptyInHand, InHand
  <2>4. CASE DecodeThrows \/ SaveCurrent \/ SaveFails
    <3>1. pc' \in {"aborted", "remove"}
      BY <2>4 DEF DecodeThrows, SaveCurrent, SaveFails
    <3> QED BY <3>1 DEF TextInHand, EmptyInHand, InHand
  <2> QED BY <1>1, <2>1, <2>2, <2>3, <2>4 DEF Migrate
<1>2. CASE CheckWhetherFileExists \/ FileSaved \/ Crash
  <2>1. pc' \in {"polygon", "running", "migrate"}
    BY <1>2 DEF CheckWhetherFileExists, FileSaved, Crash
  <2> QED BY <2>1 DEF TextInHand, EmptyInHand, InHand
<1>3. CASE RemovePolygons
  <2>1. CASE pc' = "savePolygon"
    BY <1>3, <2>1 DEF RemovePolygons, Rewritten, Written, TextInHand, EmptyInHand, InHand
  <2>2. CASE pc' # "savePolygon"
    <3>1. pc' \in {"running", "aborted"}
      BY <1>3, <2>2 DEF RemovePolygons, Rewritten
    <3> QED BY <3>1 DEF TextInHand, EmptyInHand, InHand
  <2> QED BY <2>1, <2>2
<1>4. CASE RemoveReferences
  <2>1. CASE pc' = "saveReferences"
    BY <1>4, <2>1 DEF RemoveReferences, Rewritten, Written, TextInHand, EmptyInHand, InHand
  <2>2. CASE pc' # "saveReferences"
    <3>1. pc' \in {"running", "aborted"}
      BY <1>4, <2>2 DEF RemoveReferences, Rewritten
    <3> QED BY <3>1 DEF TextInHand, EmptyInHand, InHand
  <2> QED BY <2>1, <2>2
<1>5. CASE SavePolygons \/ SaveReferences
  <2>1. pc' \in {"references", "running"}
    BY <1>5 DEF SavePolygons, SaveReferences, SaveInPlace, AfterParts
  <2> QED BY <2>1 DEF TextInHand, EmptyInHand, InHand
<1>6. CASE FileSave
  BY <1>6 DEF FileSave, Written, TextInHand, EmptyInHand, InHand
<1>7. CASE UNCHANGED vars
  BY <1>7 DEF vars, TextInHand, EmptyInHand, InHand, Last, Current
<1> QED BY <1>1, <1>2, <1>3, <1>4, <1>5, <1>6, <1>7 DEF Next, InPlace

-----------------------------------------------------------------------------
(* The order of the migrations, one action at a time.  Once an operation has *)
(* failed there is nothing left to say.                                      *)
LEMMA FailuresEndIt == ASSUME failures' # 0, failures' \in Nat PROVE Order'
BY DEF Order, OldGone, NewAlone, TornIsRedone, PolygonsTogether

LEMMA OrderInit == Init => TextInHand /\ EmptyInHand /\ Order
<1> SUFFICES ASSUME Init PROVE TextInHand /\ EmptyInHand /\ Order
  OBVIOUS
<1>1. PICK held \in SUBSET Stored, polygons \in SUBSET {"part", "combination"} :
        /\ polygons # {"combination"} /\ polygons \subseteq {Family[f] : f \in held}
        /\ content = [f \in File |-> IF f \notin held THEN "absent"
                                     ELSE IF Family[f] \in polygons THEN "legacy" ELSE "clean"]
        /\ \A f, g \in held : Family[f] = Family[g] => f = g
  BY DEF Init
<1>2. pc = "migrate" /\ m = 1 /\ held \subseteq File
  BY DEF Init, Stored
<1>3. \A f \in File : content[f] \in {"absent", "legacy", "clean"}
  BY <1>1
<1>4. TextInHand /\ EmptyInHand
  BY <1>2 DEF TextInHand, EmptyInHand, InHand
<1>5. OldGone /\ NewAlone /\ TornIsRedone
  BY <1>2, <1>3 DEF OldGone, NewAlone, TornIsRedone, Migrating
<1>6. PolygonsTogether
  <2> SUFFICES ASSUME Holds("combination", "legacy")
               PROVE  /\ ~Holds("part", "clean") /\ ~Holds("part", "new")
                      /\ Holds("part", "legacy")
    BY <1>2 DEF PolygonsTogether
  <2>1. "part" \in polygons
    BY <1>1 DEF Holds
  <2>2. PICK f \in held : Family[f] = "part"
    BY <1>1, <2>1
  <2>3. Holds("part", "legacy")
    BY <1>1, <1>2, <2>1, <2>2 DEF Holds
  <2>4. ~Holds("part", "clean") /\ ~Holds("part", "new")
    BY <1>1, <2>1 DEF Holds
  <2> QED BY <2>3, <2>4
<1> QED BY <1>4, <1>5, <1>6 DEF Order

(* What the actions of a migration have in common. *)
LEMMA OldAndYoung ==
  ASSUME Known
  PROVE  /\ Last = Old(m) /\ Current = Young(m) /\ m \in 1 .. 9
         /\ Last \in File /\ Current \in File /\ Last # Current
         /\ Family[Last] = Family[Current]
         /\ content \in [File -> Content] /\ failures \in Nat
BY MigrationsOfAFamily, UpgradeBounds DEF Known, UInv, Places, TypeOK, Last, Current, Old, Young

(* The migration is over: main goes on to the next, or to the check. *)
LEMMA NextIsLater ==
  ASSUME Known, NextMigration
  PROVE  /\ pc' \in {"migrate", "check"}
         /\ \A j \in 1 .. 9 : (Migrating' => j < m') => j <= m
BY NineMigrations, OldAndYoung DEF NextMigration, Migrating

(* An old file without data goes. *)
LEMMA NothingToMigrateOrder ==
  ASSUME Known, Order, NothingToMigrate
  PROVE  Order'
<1> USE OldAndYoung, OldFiles
<1>1. /\ content' = [content EXCEPT ![Last] = "absent"] /\ content[Last] \in {"absent", "empty"}
      /\ pc = "migrate" /\ NextMigration /\ failures' = failures /\ hurt' = hurt
  BY DEF NothingToMigrate, Written, Works, boundVars
<1>2. \A f \in File : content[f] \in Data \cup {"torn", "absent"} => content'[f] = content[f]
  BY <1>1 DEF Data
<1>3. \A f \in File : content'[f] \in Data \cup {"torn"} => content'[f] = content[f]
  BY <1>1 DEF Data
<1>4. OldGone'
  <2> SUFFICES ASSUME failures = 0, NEW j \in 1 .. 9, Migrating' => j < m'
               PROVE  content'[Old(j)] = "absent"
    BY <1>1 DEF OldGone, Old
  <2>1. CASE j = m
    BY <1>1, <2>1
  <2>2. CASE j # m
    <3>1. j < m
      BY <2>2, <1>1, NextIsLater
    <3> QED BY <3>1, <1>1, <1>2 DEF Order, OldGone
  <2> QED BY <2>1, <2>2
<1>5. NewAlone'
  BY <1>1, <1>2, <1>3 DEF Order, NewAlone, Data, Old
<1>6. TornIsRedone'
  <2> SUFFICES ASSUME failures = 0, hurt = {}, NEW f \in File, content'[f] = "torn"
               PROVE  \E k \in 1 .. 9 :
                        /\ f = Young(k) /\ content'[Old(k)] \in Data
                        /\ \A j \in 1 .. 9 : j < k => content'[Old(j)] = "absent"
    BY <1>1 DEF TornIsRedone, Old, Young
  <2> QED BY <1>2, <1>3 DEF Order, TornIsRedone
<1>7. PolygonsTogether'
  <2>1. \A fam : \A c \in Data : Holds(fam, c)' <=> Holds(fam, c)
    BY <1>2, <1>3 DEF Holds
  <2> QED BY <1>1, <2>1, NextIsLater DEF Order, PolygonsTogether, Data
<1> QED BY <1>4, <1>5, <1>6, <1>7 DEF Order

(* Steps that change no file. *)
LEMMA ContentKeptOrder ==
  ASSUME Known, Order, UNCHANGED <<content, failures>>, hurt \subseteq hurt',
         pc = "migrate", pc' \in {"create", "aborted"}, m' = m
  PROVE  Order'
<1> USE OldAndYoung DEF Order
<1>1. OldGone'
  BY DEF OldGone, Migrating, Old
<1>2. NewAlone'
  BY DEF NewAlone, Old
<1>3. TornIsRedone'
  BY DEF TornIsRedone, Old, Young
<1>4. PolygonsTogether'
  <2>1. \A fam, c : Holds(fam, c)' <=> Holds(fam, c)
    BY DEF Holds
  <2> QED BY <2>1 DEF PolygonsTogether
<1> QED BY <1>1, <1>2, <1>3, <1>4

(* The new file is emptied, or written: a younger migration has not begun.   *)
LEMMA WriteCurrentOrder ==
  ASSUME Known, Order, NEW c \in {"empty", text},
         content' = [content EXCEPT ![Current] = c], UNCHANGED <<m, hurt, failures>>,
         pc \in {"create", "save"}, pc' \in {"save", "remove"}
  PROVE  Order'
<1> USE OldAndYoung, OldFiles DEF Order
<1>1. content[Last] = text /\ text \in Data
  BY DEF Known, UInv, TextInHand, OldHasData
<1>2. failures = 0 => \A j \in 1 .. 9 : j < m => content[Old(j)] = "absent"
  BY DEF OldGone, Migrating
<1>3. \A j \in 1 .. 9 : j <= m => content'[Old(j)] = content[Old(j)]
  BY MigrationOrder
<1>4. c # "torn" /\ (c = "new" => content[Last] = "new")
  BY <1>1 DEF Data
<1>5. OldGone'
  BY <1>2, <1>3 DEF OldGone, Migrating, Old
<1>6. NewAlone'
  <2> SUFFICES ASSUME failures = 0, NEW f \in File, content'[f] = "new" PROVE FALSE
    BY DEF NewAlone
  <2>1. \E g \in File : content[g] = "new"
    BY <1>4
  <2> QED BY <2>1, <1>1 DEF NewAlone, Data
<1>7. TornIsRedone'
  <2> SUFFICES ASSUME failures = 0, hurt = {}, NEW f \in File, content'[f] = "torn"
               PROVE  \E k \in 1 .. 9 :
                        /\ f = Young(k) /\ content'[Old(k)] \in Data
                        /\ \A j \in 1 .. 9 : j < k => content'[Old(j)] = "absent"
    BY DEF TornIsRedone, Old, Young
  <2>1. content[f] = "torn"
    BY <1>4
  <2>2. PICK k \in 1 .. 9 : /\ f = Young(k) /\ content[Old(k)] \in Data
                            /\ \A j \in 1 .. 9 : j < k => content[Old(j)] = "absent"
    BY <2>1 DEF TornIsRedone
  <2>3. k <= m
    BY <2>2, <1>1 DEF Data
  <2>4. \A j \in 1 .. 9 : j < k => content'[Old(j)] = "absent"
    BY <1>3, <2>2, <2>3
  <2>5. content'[Old(k)] = content[Old(k)]
    BY <1>3, <2>3
  <2> QED BY <2>2, <2>4, <2>5
<1>8. PolygonsTogether'
  <2> SUFFICES ASSUME failures = 0, hurt \cap {"part", "combination"} = {},
                      Holds("combination", "legacy")'
               PROVE  /\ ~Holds("part", "clean")' /\ ~Holds("part", "new")'
                      /\ Holds("part", "legacy")'
    BY DEF PolygonsTogether
  <2>1. Holds("combination", "legacy")
    BY <1>1 DEF Holds
  <2>2. ~Holds("part", "clean") /\ ~Holds("part", "new") /\ Holds("part", "legacy")
    BY <2>1 DEF PolygonsTogether
  <2>3. ~Holds("part", "clean")' /\ ~Holds("part", "new")'
    BY <2>2, <1>1 DEF Holds
  <2>4. Holds("part", "legacy")'
    <3>1. PICK f \in File : Family[f] = "part" /\ content[f] = "legacy"
      BY <2>2 DEF Holds
    <3>2. CASE f # Current
      BY <3>1, <3>2 DEF Holds
    <3>3. CASE f = Current
      <4>1. Family[Last] = "part" /\ content[Last] = "legacy"
        BY <3>1, <3>3, <2>2, <1>1 DEF Holds, Data
      <4> QED BY <4>1 DEF Holds
    <3> QED BY <3>2, <3>3
  <2> QED BY <2>3, <2>4
<1> QED BY <1>5, <1>6, <1>7, <1>8

(* The old file goes: the new one has its data. *)
LEMMA RemoveLastOrder ==
  ASSUME Known, Order, RemoveLast
  PROVE  Order'
<1> USE OldAndYoung, OldFiles DEF Order
<1>1. /\ content' = [content EXCEPT ![Last] = "absent"]
      /\ pc = "remove" /\ NextMigration /\ failures' = failures /\ hurt' = hurt
  BY DEF RemoveLast, Written, Works, boundVars
<1>2. content[Current] \in Data \/ Family[Current] \in hurt
  BY <1>1 DEF Known, UInv, NewHasData
<1>3. \A f \in File : content'[f] # "absent" => content'[f] = content[f]
  BY <1>1
<1>4. \A j \in 1 .. 9 : j # m => content'[Old(j)] = content[Old(j)]
  BY <1>1, MigrationOrder
<1>5. OldGone'
  <2> SUFFICES ASSUME failures = 0, NEW j \in 1 .. 9, Migrating' => j < m'
               PROVE  content'[Old(j)] = "absent"
    BY <1>1 DEF OldGone, Old
  <2>1. CASE j = m
    BY <1>1, <2>1
  <2>2. CASE j # m
    <3>1. j < m
      BY <2>2, <1>1, NextIsLater
    <3> QED BY <3>1, <1>1, <1>4 DEF OldGone
  <2> QED BY <2>1, <2>2
<1>6. NewAlone'
  <2> SUFFICES ASSUME failures = 0, NEW f \in File, content'[f] = "new", NEW j \in 1 .. 9
               PROVE  content'[Old(j)] = "absent"
    BY <1>1 DEF NewAlone, Old
  <2>1. content[Old(j)] = "absent"
    BY <1>3 DEF NewAlone
  <2> QED BY <2>1, <1>3
<1>7. TornIsRedone'
  <2> SUFFICES ASSUME failures = 0, hurt = {}, NEW f \in File, content'[f] = "torn"
               PROVE  \E k \in 1 .. 9 :
                        /\ f = Young(k) /\ content'[Old(k)] \in Data
                        /\ \A j \in 1 .. 9 : j < k => content'[Old(j)] = "absent"
    BY <1>1 DEF TornIsRedone, Old, Young
  <2>1. content[f] = "torn"
    BY <1>3
  <2>2. PICK k \in 1 .. 9 : /\ f = Young(k) /\ content[Old(k)] \in Data
                            /\ \A j \in 1 .. 9 : j < k => content[Old(j)] = "absent"
    BY <2>1 DEF TornIsRedone
  <2>3. k # m
    BY <2>1, <2>2, <1>2 DEF Data
  <2> QED BY <2>2, <2>3, <1>3, <1>4
<1>8. PolygonsTogether'
  <2> SUFFICES ASSUME failures = 0, hurt \cap {"part", "combination"} = {},
                      Holds("combination", "legacy")'
               PROVE  /\ ~Holds("part", "clean")' /\ ~Holds("part", "new")'
                      /\ Holds("part", "legacy")'
    BY <1>1, NextIsLater DEF PolygonsTogether
  <2>1. Holds("combination", "legacy")
    BY <1>3 DEF Holds
  <2>2. ~Holds("part", "clean") /\ ~Holds("part", "new") /\ Holds("part", "legacy")
    BY <1>1, <2>1 DEF PolygonsTogether
  <2>3. ~Holds("part", "clean")' /\ ~Holds("part", "new")'
    BY <2>2, <1>3 DEF Holds
  <2>4. Holds("part", "legacy")'
    <3>1. PICK f \in File : Family[f] = "part" /\ content[f] = "legacy"
      BY <2>2 DEF Holds
    <3>2. CASE f # Last
      BY <3>1, <3>2, <1>1 DEF Holds
    <3>3. CASE f = Last
      <4>1. content[Current] = "legacy"
        BY <3>1, <3>3, <2>2, <1>2 DEF Holds, Data
      <4> QED BY <4>1, <3>1, <3>3, <1>1 DEF Holds
    <3> QED BY <3>2, <3>3
  <2> QED BY <2>3, <2>4
<1> QED BY <1>5, <1>6, <1>7, <1>8

-----------------------------------------------------------------------------
(* After the migrations only the newest files are left.                      *)
Served == {"check", "polygon", "savePolygon", "references", "saveReferences", "running", "saving"}

OnlyNewest ==
  \A f \in File : content[f] # "absent" =>
    /\ Family[f] = "part" => f = Parts
    /\ Family[f] = "combination" => f = Combinations

LEMMA InPlaceOrder ==
  ASSUME Known, Order, pc \in Served, pc' \in Served \cup {"aborted"}, failures' = failures,
         hurt \subseteq hurt',
         \A j \in 1 .. 9 : content'[Old(j)] = content[Old(j)],
         \A f \in File : content'[f] = "torn" => content[f] = "torn" \/ hurt' # {}
  PROVE  /\ OldGone' /\ NewAlone' /\ TornIsRedone'
         /\ failures = 0 => OnlyNewest /\ OnlyNewest'
<1>1. failures = 0 => \A j \in 1 .. 9 : content[Old(j)] = "absent"
  BY DEF Order, OldGone, Migrating, Served
<1>2. OldGone' /\ NewAlone'
  BY <1>1 DEF OldGone, NewAlone, Old
<1>3. TornIsRedone'
  <2> SUFFICES ASSUME failures = 0, hurt' = {}, NEW f \in File, content'[f] = "torn" PROVE FALSE
    BY DEF TornIsRedone
  <2>1. content[f] = "torn" /\ hurt = {}
    OBVIOUS
  <2>2. \E k \in 1 .. 9 : content[Old(k)] \in Data
    BY <2>1 DEF Order, TornIsRedone
  <2> QED BY <2>2, <1>1 DEF Data
<1>4. failures = 0 => OnlyNewest /\ OnlyNewest'
  BY <1>1, PolygonFiles DEF OnlyNewest
<1> QED BY <1>2, <1>3, <1>4

LEMMA CheckOrder ==
  ASSUME Known, Order, CheckWhetherFileExists, failures' = 0
  PROVE  Order'
<1> USE OldAndYoung, OldFiles
<1>1. /\ failures' = failures /\ hurt' = hurt /\ pc = "check" /\ pc' = "polygon"
      /\ \A f \in File : /\ content'[f] # "empty" => content'[f] = content[f]
                         /\ content[f] # "absent" => content'[f] = content[f]
                         /\ f \notin Newest => content'[f] = content[f]
  BY DEF CheckWhetherFileExists, Works, Fails, boundVars
<1>2. OldGone' /\ NewAlone' /\ TornIsRedone'
  BY <1>1, InPlaceOrder DEF Served
<1>3. \A fam : \A c \in Data : Holds(fam, c)' <=> Holds(fam, c)
  BY <1>1 DEF Holds, Data
<1>4. PolygonsTogether'
  BY <1>1, <1>3 DEF Order, PolygonsTogether, Data
<1> QED BY <1>2, <1>4 DEF Order

LEMMA RemovePolygonsOrder ==
  ASSUME Known, Order, RemovePolygons, failures' = 0, hurt \subseteq hurt'
  PROVE  Order'
<1> USE OldAndYoung, OldFiles, NewestAreFiles
<1>1. failures' = failures /\ pc = "polygon" /\ pc' \in {"running", "aborted", "savePolygon"}
  BY DEF RemovePolygons, Rewritten, Works, Fails, boundVars
<1>2. \/ content' = content /\ pc' \in {"running", "aborted"} /\ content[Parts] \notin Data
      \/ /\ content' = [content EXCEPT ![Parts] = "empty"] /\ text' = content[Parts]
         /\ pc' = "savePolygon"
  BY <1>1 DEF RemovePolygons, Rewritten, Written, Works, Fails, boundVars, Data
<1>3. /\ OldGone' /\ NewAlone' /\ TornIsRedone' /\ OnlyNewest /\ OnlyNewest'
  <2>1. \A j \in 1 .. 9 : content'[Old(j)] = content[Old(j)]
    BY <1>2 DEF Newest
  <2>2. \A f \in File : content'[f] = "torn" => content[f] = "torn"
    BY <1>2
  <2> QED BY <1>1, <2>1, <2>2, InPlaceOrder DEF Served
<1>4. PolygonsTogether'
  <2> SUFFICES ASSUME hurt' \cap {"part", "combination"} = {}, Holds("combination", "legacy")'
               PROVE  /\ pc' # "running" /\ ~Holds("part", "clean")' /\ ~Holds("part", "new")'
                      /\ Holds("part", "legacy")' \/ (pc' = "savePolygon" /\ text' = "legacy")
    BY <1>1 DEF PolygonsTogether
  <2>1. Holds("combination", "legacy")
    BY <1>2 DEF Holds
  <2>2. ~Holds("part", "clean") /\ ~Holds("part", "new") /\ Holds("part", "legacy")
    BY <1>1, <2>1 DEF Order, PolygonsTogether
  <2>3. content[Parts] = "legacy"
    BY <2>2, <1>3 DEF Holds, OnlyNewest
  <2>4. content' = [content EXCEPT ![Parts] = "empty"] /\ text' = "legacy" /\ pc' = "savePolygon"
    BY <1>2, <2>3 DEF Data
  <2> QED BY <2>2, <2>4 DEF Holds
<1> QED BY <1>3, <1>4 DEF Order

LEMMA RemoveReferencesOrder ==
  ASSUME Known, Order, RemoveReferences, failures' = 0, hurt \subseteq hurt'
  PROVE  Order'
<1> USE OldAndYoung, OldFiles, NewestAreFiles
<1>1. /\ failures' = failures /\ pc = "references"
      /\ pc' \in {"running", "aborted", "saveReferences"}
  BY DEF RemoveReferences, Rewritten, Works, Fails, boundVars
<1>2. \/ /\ content' = content /\ pc' \in {"running", "aborted"}
         /\ content[Combinations] \notin Data
      \/ content' = [content EXCEPT ![Combinations] = "empty"] /\ pc' = "saveReferences"
  BY <1>1 DEF RemoveReferences, Rewritten, Written, Works, Fails, boundVars, Data
<1>3. /\ OldGone' /\ NewAlone' /\ TornIsRedone' /\ OnlyNewest /\ OnlyNewest'
  <2>1. \A j \in 1 .. 9 : content'[Old(j)] = content[Old(j)]
    BY <1>2 DEF Newest
  <2>2. \A f \in File : content'[f] = "torn" => content[f] = "torn"
    BY <1>2
  <2> QED BY <1>1, <2>1, <2>2, InPlaceOrder DEF Served
<1>4. ~Holds("combination", "legacy")'
  BY <1>2, <1>3 DEF Holds, OnlyNewest, Data
<1> QED BY <1>3, <1>4 DEF Order, PolygonsTogether

LEMMA SavePolygonsOrder ==
  ASSUME Known, Order, SavePolygons, failures' = 0, hurt \subseteq hurt'
  PROVE  Order'
<1> USE OldAndYoung, OldFiles, NewestAreFiles
<1>1. /\ pc = "savePolygon" /\ pc' = AfterParts /\ hurt' = hurt /\ failures' = failures
      /\ content' = [content EXCEPT ![Parts] = IF text = "legacy" THEN "clean" ELSE text]
  BY DEF SavePolygons, SaveInPlace, Written, Works, Fails, boundVars
<1>2. text \in Data /\ content[Parts] = "empty"
  BY <1>1 DEF Known, UInv, TextHasData, EmptyInHand, InHand
<1>3. /\ OldGone' /\ NewAlone' /\ TornIsRedone' /\ OnlyNewest /\ OnlyNewest'
  <2>1. \A j \in 1 .. 9 : content'[Old(j)] = content[Old(j)]
    BY <1>1 DEF Newest
  <2>2. \A f \in File : content'[f] = "torn" => content[f] = "torn"
    BY <1>1, <1>2 DEF Data
  <2> QED BY <1>1, <2>1, <2>2, InPlaceOrder DEF Served, AfterParts
<1>4. PolygonsTogether'
  <2> SUFFICES ASSUME failures = 0, hurt \cap {"part", "combination"} = {},
                      pc' = "running", Holds("combination", "legacy")'
               PROVE  FALSE
    BY <1>1 DEF PolygonsTogether, AfterParts
  <2>1. text # "legacy"
    BY <1>1 DEF AfterParts
  <2>2. Holds("combination", "legacy")
    BY <1>1, PolygonFiles DEF Holds
  <2>3. Holds("part", "legacy")
    BY <1>1, <2>1, <2>2 DEF Order, PolygonsTogether
  <2> QED BY <2>3, <1>2, <1>3 DEF Holds, OnlyNewest
<1> QED BY <1>3, <1>4 DEF Order

LEMMA SaveReferencesOrder ==
  ASSUME Known, Order, SaveReferences, failures' = 0, hurt \subseteq hurt'
  PROVE  Order'
<1> USE OldAndYoung, OldFiles, NewestAreFiles
<1>1. /\ pc = "saveReferences" /\ pc' = "running" /\ hurt' = hurt /\ failures' = failures
      /\ content' = [content EXCEPT ![Combinations] = IF text = "legacy" THEN "clean" ELSE text]
  BY DEF SaveReferences, SaveInPlace, Written, Works, Fails, boundVars
<1>2. text \in Data
  BY <1>1 DEF Known, UInv, TextHasData
<1>3. /\ OldGone' /\ NewAlone' /\ TornIsRedone' /\ OnlyNewest /\ OnlyNewest'
  <2>1. \A j \in 1 .. 9 : content'[Old(j)] = content[Old(j)]
    BY <1>1 DEF Newest
  <2>2. \A f \in File : content'[f] = "torn" => content[f] = "torn"
    BY <1>1, <1>2 DEF Data
  <2> QED BY <1>1, <2>1, <2>2, InPlaceOrder DEF Served
<1>4. ~Holds("combination", "legacy")'
  BY <1>1, <1>3 DEF Holds, OnlyNewest, Data
<1> QED BY <1>3, <1>4 DEF Order, PolygonsTogether

(* A manager saves: nothing it writes has polygons. *)
LEMMA FileSaveOrder ==
  ASSUME Known, Order, FileSave \/ FileSaved, failures' = 0, hurt \subseteq hurt'
  PROVE  Order'
<1> USE OldAndYoung, OldFiles, NewestAreFiles
<1>1. /\ pc \in {"running", "saving"} /\ pc' \in {"running", "saving"} /\ failures' = failures
      /\ hurt' = hurt
      /\ \E f \in Newest, c \in {"empty", "new"} : content' = [content EXCEPT ![f] = c]
  <2>1. CASE FileSave
    BY <2>1 DEF FileSave, Written
  <2>2. CASE FileSaved
    BY <2>2 DEF FileSaved, Written, Works, Fails, boundVars, Known, UInv, Places, TextInHand
  <2> QED BY <2>1, <2>2
<1>2. PICK f \in Newest, c \in {"empty", "new"} : content' = [content EXCEPT ![f] = c]
  BY <1>1
<1>3. OldGone' /\ NewAlone' /\ TornIsRedone'
  <2>1. \A j \in 1 .. 9 : content'[Old(j)] = content[Old(j)]
    BY <1>2
  <2>2. \A g \in File : content'[g] = "torn" => content[g] = "torn"
    BY <1>2
  <2> QED BY <1>1, <2>1, <2>2, InPlaceOrder DEF Served
<1>4. Holds("combination", "legacy")' => Holds("combination", "legacy")
  BY <1>2 DEF Holds
<1> QED BY <1>1, <1>3, <1>4 DEF Order, PolygonsTogether

(* The process dies.  In the middle of a migration this may tear the new     *)
(* file, whose migration is then the next one that finds data.               *)
LEMMA CrashOrder ==
  ASSUME Known, Order, Crash, hurt \subseteq hurt'
  PROVE  Order'
<1> USE OldAndYoung, OldFiles, NewestAreFiles DEF Order
<1>1. PICK c \in {"empty", "torn"} :
        content' = [f \in File |-> IF f \in InHand THEN c ELSE content[f]]
  BY DEF Crash
<1>2. /\ pc' = "migrate" /\ m' = 1 /\ failures' = failures
      /\ hurt' = hurt \cup {Family[f] : f \in OnlyCopy} \cup Between
  BY DEF Crash
<1>3. \A f \in InHand : content[f] = "empty" /\ content'[f] \in {"empty", "torn"}
  <2>1. InHand \subseteq File
    BY DEF InHand, Known, UInv, Places
  <2> QED BY <1>1, <2>1 DEF Known, EmptyInHand
<1>4. \A f \in File : content[f] \in Data \cup {"absent", "torn"} => content'[f] = content[f]
  BY <1>1, <1>3 DEF Data
<1>5. \A f \in File : content'[f] \in Data => content'[f] = content[f]
  BY <1>1, <1>3 DEF Data
<1>6. OldGone'
  BY <1>2 DEF OldGone, Migrating
<1>7. NewAlone'
  BY <1>2, <1>4, <1>5 DEF NewAlone, Old, Data
<1>8. TornIsRedone'
  <2> SUFFICES ASSUME failures = 0, hurt' = {}, NEW f \in File, content'[f] = "torn"
               PROVE  \E k \in 1 .. 9 :
                        /\ f = Young(k) /\ content'[Old(k)] \in Data
                        /\ \A j \in 1 .. 9 : j < k => content'[Old(j)] = "absent"
    BY <1>2 DEF TornIsRedone, Old, Young
  <2>1. CASE content[f] = "torn"
    <3>1. PICK k \in 1 .. 9 : /\ f = Young(k) /\ content[Old(k)] \in Data
                              /\ \A j \in 1 .. 9 : j < k => content[Old(j)] = "absent"
      BY <2>1, <1>2 DEF TornIsRedone
    <3> QED BY <3>1, <1>4
  <2>2. CASE content[f] # "torn"
    <3>1. f \in InHand
      BY <2>2, <1>1
    <3>2. pc = "save" /\ f = Young(m)
      BY <3>1, <1>2 DEF InHand, OnlyCopy
    <3>3. content[Old(m)] \in Data
      BY <3>2 DEF Known, UInv, OldHasData
    <3>4. \A j \in 1 .. 9 : j < m => content[Old(j)] = "absent"
      BY <3>2 DEF OldGone
    <3> QED BY <3>2, <3>3, <3>4, <1>4
  <2> QED BY <2>1, <2>2
<1>9. PolygonsTogether'
  <2> SUFFICES ASSUME failures = 0, hurt' \cap {"part", "combination"} = {},
                      Holds("combination", "legacy")'
               PROVE  /\ ~Holds("part", "clean")' /\ ~Holds("part", "new")'
                      /\ Holds("part", "legacy")'
    BY <1>2 DEF PolygonsTogether
  <2>1. pc \notin {"references", "savePolygon", "saveReferences"}
    <3>1. "part" \in {Family[f] : f \in OnlyCopy} \/ pc # "savePolygon"
      BY PolygonFiles DEF OnlyCopy, InHand
    <3>2. "combination" \in {Family[f] : f \in OnlyCopy} \/ pc # "saveReferences"
      BY PolygonFiles DEF OnlyCopy, InHand
    <3>3. "combination" \in Between \/ pc # "references"
      BY DEF Between
    <3> QED BY <3>1, <3>2, <3>3, <1>2
  <2>2. \A fam : \A d \in Data : Holds(fam, d)' <=> Holds(fam, d)
    BY <1>4, <1>5 DEF Holds
  <2> QED BY <1>2, <2>1, <2>2 DEF PolygonsTogether, Data
<1> QED BY <1>6, <1>7, <1>8, <1>9

-----------------------------------------------------------------------------
LEMMA OrderStep ==
  ASSUME Known, TypeOK', Order, [Next]_vars, hurt \subseteq hurt', failures <= failures'
  PROVE  Order'
<1>1. failures \in Nat /\ failures' \in Nat
  BY UpgradeBounds DEF Known, TypeOK
<1>2. CASE failures' # 0
  BY <1>1, <1>2, FailuresEndIt
<1>3. CASE failures' = 0
  <2>1. failures = 0 /\ ~Fails
    BY <1>1, <1>3 DEF Fails
  <2>2. CASE Migrate
    <3>1. CASE NothingToMigrate \/ RemoveLast
      BY <3>1, NothingToMigrateOrder, RemoveLastOrder
    <3>2. CASE DecodeThrows \/ ReadLast
      BY <3>2, ContentKeptOrder DEF DecodeThrows, ReadLast, Works, boundVars
    <3>3. CASE CreateCurrent \/ SaveCurrent
      BY <3>3, WriteCurrentOrder DEF CreateCurrent, SaveCurrent, Written, Works, boundVars
    <3> QED BY <2>1, <2>2, <3>1, <3>2, <3>3 DEF Migrate, OpenFails, CreateFails, SaveFails
  <2>3. CASE CheckWhetherFileExists
    BY <1>3, <2>3, CheckOrder
  <2>4. CASE InPlace
    BY <1>3, <2>4, RemovePolygonsOrder, SavePolygonsOrder, RemoveReferencesOrder,
       SaveReferencesOrder, FileSaveOrder DEF InPlace
  <2>5. CASE Crash
    BY <2>5, CrashOrder
  <2>6. CASE UNCHANGED vars
    BY <2>6 DEF vars, Order, OldGone, NewAlone, TornIsRedone, PolygonsTogether, Holds, Migrating,
       Old, Young
  <2> QED BY <2>2, <2>3, <2>4, <2>5, <2>6 DEF Next
<1> QED BY <1>2, <1>3

(* The start ends in a torn file only after a loss. *)
AbortInv == Known /\ Order /\ StartsAgain

LEMMA AbortStep ==
  ASSUME AbortInv, [Next]_vars, hurt \subseteq hurt', failures <= failures', failures' \in Nat
  PROVE  StartsAgain'
<1> USE OldAndYoung, OldFiles DEF AbortInv
<1> SUFFICES ASSUME pc' = "aborted", hurt' = {}, failures' = 0 PROVE FALSE
  BY DEF StartsAgain
<1>1. hurt = {} /\ failures = 0 /\ pc # "aborted"
  BY DEF StartsAgain
<1>2. CASE DecodeThrows
  <2>1. pc = "migrate" /\ content[Old(m)] = "torn"
    BY <1>2 DEF DecodeThrows
  <2>2. PICK k \in 1 .. 9 : Old(m) = Young(k) /\ content[Old(k)] \in Data
    BY <2>1, <1>1 DEF Order, TornIsRedone
  <2>3. k < m
    BY <2>2, MigrationOrder
  <2> QED BY <2>1, <2>2, <2>3, <1>1 DEF Order, OldGone, Data
<1>3. CASE RemovePolygons \/ RemoveReferences
  <2>1. pc \in Served /\ \E f \in File : content[f] = "torn"
    BY <1>3, NewestAreFiles DEF RemovePolygons, RemoveReferences, Rewritten, Served
  <2>2. \E k \in 1 .. 9 : content[Old(k)] \in Data
    BY <2>1, <1>1 DEF Order, TornIsRedone
  <2> QED BY <2>1, <2>2, <1>1 DEF Order, OldGone, Served, Migrating, Data
<1>4. CASE ~DecodeThrows /\ ~(RemovePolygons \/ RemoveReferences)
  BY <1>1, <1>4 DEF Next, vars, Migrate, InPlace, NothingToMigrate, OpenFails, ReadLast,
     CreateCurrent, CreateFails, SaveCurrent, SaveFails, RemoveLast, NextMigration,
     CheckWhetherFileExists, SavePolygons, SaveReferences, SaveInPlace, AfterParts,
     FileSave, FileSaved, Crash
<1> QED BY <1>2, <1>3, <1>4

(* What a manager saved is in the files no migration reads, and none of those *)
(* that could write it has anything left to read.                             *)
SavedKept ==
  \A f \in File : content[f] = "new" /\ content'[f] # "new" =>
    failures > 0 \/ pc' \in {"saving", "savePolygon", "saveReferences"}

LEMMA SavedStep ==
  ASSUME Known, Order, [Next]_vars
  PROVE  SavedKept
<1> USE OldAndYoung, OldFiles, NewestAreFiles
<1> SUFFICES ASSUME NEW f \in File, content[f] = "new", failures = 0,
                    pc' \notin {"saving", "savePolygon", "saveReferences"}
             PROVE  content'[f] = "new"
  BY DEF SavedKept
<1>1. \A j \in 1 .. 9 : content[Old(j)] = "absent"
  BY DEF Order, NewAlone
<1>2. content[Last] = "absent" /\ f # Last /\ pc \notin {"create", "save"}
  BY <1>1 DEF Known, UInv, OldHasData, Data
<1>3. f \notin InHand
  BY DEF Known, EmptyInHand
<1>4. CASE Migrate
  BY <1>2, <1>4 DEF Migrate, NothingToMigrate, OpenFails, DecodeThrows, ReadLast, CreateCurrent,
     CreateFails, SaveCurrent, SaveFails, RemoveLast, Written
<1>5. CASE CheckWhetherFileExists
  BY <1>5 DEF CheckWhetherFileExists
<1>6. CASE RemovePolygons \/ RemoveReferences
  BY <1>6 DEF RemovePolygons, RemoveReferences, Rewritten
<1>7. CASE SavePolygons
  BY <1>3, <1>7 DEF SavePolygons, SaveInPlace, Written, InHand
<1>8. CASE SaveReferences
  BY <1>3, <1>8 DEF SaveReferences, SaveInPlace, Written, InHand
<1>9. CASE FileSave
  BY <1>9 DEF FileSave
<1>10. CASE FileSaved
  BY <1>3, <1>10 DEF FileSaved, Written, InHand
<1>11. CASE Crash
  BY <1>3, <1>11 DEF Crash
<1>12. CASE UNCHANGED vars
  BY <1>12 DEF vars
<1> QED BY <1>4, <1>5, <1>6, <1>7, <1>8, <1>9, <1>10, <1>11, <1>12 DEF Next, InPlace

(* Polygons in the combinations would need parts that have them.              *)
LEMMA NoReferenceLeft == Known /\ Order => ReferencesRemoved
<1> SUFFICES ASSUME Known, Order, pc \in {"running", "saving"},
                    hurt \cap {"part", "combination"} = {}, failures = 0
             PROVE  content[Combinations] # "legacy"
  BY DEF ReferencesRemoved
<1>1. ~Holds("combination", "legacy")
  BY DEF Order, PolygonsTogether
<1> QED BY <1>1, NewestAreFiles, PolygonFiles DEF Holds

LEMMA AbortInit == Init => AbortInv
<1> SUFFICES ASSUME Init PROVE AbortInv
  OBVIOUS
<1>1. StartsAgain
  BY DEF Init, StartsAgain
<1> QED BY <1>1, UpgradeInit, UpgradeTypes, OrderInit DEF AbortInv, Known

LEMMA AbortInvStep == AbortInv /\ [Next]_vars => AbortInv' /\ SavedKept
<1> SUFFICES ASSUME AbortInv, [Next]_vars PROVE AbortInv' /\ SavedKept
  OBVIOUS
<1> USE DEF AbortInv
<1>1. UInv'
  BY UpgradeStep DEF Known
<1>2. TypeOK' /\ hurt \subseteq hurt' /\ failures <= failures'
  BY <1>1, TypesStep DEF Known
<1>3. TextInHand' /\ EmptyInHand'
  BY HandStep DEF Known
<1>4. Order'
  BY <1>2, OrderStep
<1>5. failures' \in Nat
  BY <1>2, UpgradeBounds DEF TypeOK
<1>6. StartsAgain'
  BY <1>2, <1>5, AbortStep
<1> QED BY <1>1, <1>2, <1>3, <1>4, <1>6, SavedStep DEF Known

(* What main holds of a file and what is on disk fit together at every line *)
(* of a migration, crashes included: the invariant of the theorems below.   *)
THEOREM UpgradeInvHolds == Spec => []AbortInv
BY AbortInit, AbortInvStep, PTL DEF Spec

(* The variables of the start have their types, the bounds included. *)
THEOREM UpgradeTypeCorrect == Spec => []TypeOK
<1>1. AbortInv => TypeOK BY DEF AbortInv, Known
<1> QED BY <1>1, UpgradeInvHolds, PTL

(* However often the node dies, it starts again: only a loss, or a failed    *)
(* file operation, can leave a file that a start cannot decode.              *)
THEOREM UpgradeStartsAgain == Spec => []StartsAgain
<1>1. AbortInv => StartsAgain BY DEF AbortInv
<1> QED BY <1>1, UpgradeInvHolds, PTL

(* A node that serves has removed the references to the polygons it removed. *)
THEOREM UpgradeRemovesReferences == Spec => []ReferencesRemoved
<1>1. AbortInv => ReferencesRemoved BY NoReferenceLeft DEF AbortInv
<1> QED BY <1>1, UpgradeInvHolds, PTL

(* No start replaces what a manager saved by what an older file holds.       *)
THEOREM UpgradeKeepsSaved == Spec => SavedStays
<1>1. AbortInv /\ [Next]_vars => SavedKept BY AbortInvStep
<1> QED BY <1>1, UpgradeInvHolds, PTL DEF Spec, SavedStays, SavedKept
=============================================================================
