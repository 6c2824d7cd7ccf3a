------------------------------ MODULE Migrate ------------------------------
(***************************************************************************)
(* How a station moves from an older flash layout into the current one     *)
(* (components/bdgs/core/bd_migrate.cpp, called first at every boot by     *)
(* app/bd_app.cpp), with ESP-IDF's bootloader and OTA functions as it uses *)
(* them.  Every flash or NVS write is a step; a reset, with or without a   *)
(* loss of power, may come between any two.                                *)
(*                                                                         *)
(* In the Arduino layout the new application, the new otadata and the      *)
(* flash the NVS grows into all lie inside the old first slot; in the      *)
(* first ESP-IDF layout the first slot is the new application and the rest *)
(* stays where it is.  Image contents are "this" firmware (or a later one  *)
(* that migrates the same way), the "prev"ious one, or "part" of one.      *)
(*                                                                         *)
(* A definition named ...Mutant is what a slip in the code would make of   *)
(* the one after it; it is used nowhere.                                   *)
(***************************************************************************)
EXTENDS Naturals

CONSTANTS
  MAX_ATTEMPTS,
  MaxCuts,     \* bound: resets nobody asked for
  MaxUpdates,  \* bound: updates the application installs in the old layout
  MaxFaults    \* bound: failing flash, NVS and OTA calls

Slots == {0, 1}

(* What the new layout needs inside the old one. *)
Areas == {"app", "otadata", "nvs"}

ASSUME MigrateAssumption ==
  /\ MAX_ATTEMPTS \in Nat /\ MaxCuts \in Nat
  /\ MaxUpdates \in Nat /\ MaxFaults \in Nat

VARIABLES
  layout,     \* the layout the station came with: "arduino" or "idf1"
  fits,       \* the image and the new layout fit (parse_target_table and the size checks)
  table,      \* the partition table: "old", "torn" or "new"
  slot,       \* what the old layout's slots hold
  prepared,   \* the Areas that are ready for the new layout
  sel,        \* the slot otadata selects
  st,         \* OTA state of the image in each slot
  done,       \* NVS: note_migration_done
  coredump,   \* "dirty" with bytes of the old second slot, or "clean"
  attempts,   \* s_attempts, in memory that survives a software reset
  running,    \* the slot that runs
  pc,         \* where the firmware is
  cuts, updates, faults,
  begun,      \* history variable: this firmware has begun to migrate
  failed      \* history variable: calls that failed with no more than a log
              \* line, of "mark", "note", "check" and "clean"

flash == <<table, slot, prepared, coredump>>
otadata == <<sel, st>>
vars == <<layout, fits, flash, otadata, done, attempts, running, pc,
          cuts, updates, faults, begun, failed>>

(* The previous firmware has installed this one in its other slot. *)
Init ==
  /\ layout \in {"arduino", "idf1"} /\ fits \in BOOLEAN
  /\ table = "old" /\ coredump = "dirty" /\ done = FALSE
  /\ sel \in Slots
  /\ slot = [s \in Slots |-> IF s = sel THEN "this" ELSE "prev"]
  /\ st = [s \in Slots |-> IF s = sel THEN "new" ELSE "valid"]
  /\ prepared = CASE layout = "arduino" -> {}
                  [] sel = 0 -> Areas
                  [] OTHER -> Areas \ {"app"}
  /\ attempts = 0 /\ running = sel /\ pc = "off"
  /\ cuts = 0 /\ updates = 0 /\ faults = 0
  /\ begun = FALSE /\ failed = {}

Fault == faults < MaxFaults /\ faults' = faults + 1

-----------------------------------------------------------------------------
(* ESP-IDF.                                                                *)

Other(s) == 1 - s

(* Writing a slot; what else this does to the areas of the new layout. *)
Write(s, image) ==
  /\ slot' = [slot EXCEPT ![s] = image]
  /\ prepared' = CASE s = 1 -> prepared
                   [] layout = "arduino" -> {}
                   [] image = "this" -> Areas
                   [] OTHER -> Areas \ {"app"}

(* What the bootloader makes of the OTA states, and what it starts: the    *)
(* selected image or, where that is broken or was never confirmed, the     *)
(* other one.                                                              *)
RolledBack(states) == [s \in Slots |-> IF states[s] = "pending" THEN "aborted" ELSE states[s]]
Intact(s) == slot[s] \in {"this", "prev"}
Good(s, states) == Intact(s) /\ states[s] # "aborted"

Pick(states) ==
  IF \/ Good(sel, states)
     \/ ~Good(Other(sel), states) /\ Intact(sel)
  THEN sel ELSE Other(sel)

BootsOld ==
  LET states == RolledBack(st)
      s == Pick(states)
  IN /\ table = "old" /\ Intact(s)
     /\ running' = s /\ sel' = s
     /\ st' = [states EXCEPT ![s] = IF @ = "new" THEN "pending" ELSE @]
     /\ pc' = IF slot[s] = "this" THEN "mark" ELSE "previous"

BootsNew ==
  /\ table = "new" /\ "app" \in prepared
  /\ pc' = "finish"
  /\ UNCHANGED <<otadata, running>>

Unbootable ==
  \/ table = "torn"
  \/ table = "new" /\ "app" \notin prepared
  \/ table = "old" /\ \A s \in Slots : ~Intact(s)

Boot ==
  /\ pc = "off"
  /\ \/ BootsOld
     \/ BootsNew
     \/ Unbootable /\ pc' = "dead" /\ UNCHANGED <<otadata, running>>
  /\ UNCHANGED <<layout, fits, flash, done, attempts, cuts, updates, faults, begun, failed>>

Running == pc \notin {"off", "dead"}

(* What the memory of the attempts counts as after a loss of power: the    *)
(* magic number is gone.  Without one it would be anything.                *)
PowerOn == 0

(* A crash or a watchdog: the attempts are kept. *)
Reset ==
  /\ Running /\ cuts < MaxCuts
  /\ cuts' = cuts + 1 /\ pc' = "off"
  /\ UNCHANGED <<layout, fits, flash, otadata, done, attempts, running, updates, faults,
                 begun, failed>>

PowerCut ==
  /\ Running /\ cuts < MaxCuts
  /\ cuts' = cuts + 1 /\ pc' = "off" /\ attempts' = PowerOn
  /\ UNCHANGED <<layout, fits, flash, otadata, done, running, updates, faults,
                 begun, failed>>

(* Somebody switches a station off and on that stays in its old layout. *)
PowerCycleMutant ==
  /\ pc = "app" /\ pc' = "off"
  /\ UNCHANGED <<layout, fits, flash, otadata, done, attempts, running, cuts, updates, faults,
                 begun, failed>>

PowerCycle ==
  /\ pc = "app"
  /\ pc' = "off" /\ attempts' = PowerOn
  /\ UNCHANGED <<layout, fits, flash, otadata, done, running, cuts, updates, faults,
                 begun, failed>>

(* The previous firmware is offered this one and installs it. *)
PreviousUpdates ==
  /\ pc = "previous"
  /\ Write(Other(running), "this")
  /\ sel' = Other(running)
  /\ st' = [st EXCEPT ![Other(running)] = "new"]
  /\ pc' = "off"
  /\ UNCHANGED <<layout, fits, table, done, coredump, attempts, running, cuts, updates, faults,
                 begun, failed>>

-----------------------------------------------------------------------------
(* bd_migrate_layout_if_needed in an old layout.                           *)

(* esp_ota_mark_app_valid_cancel_rollback; its failure is only logged. *)
MarkMutant == pc = "mark" /\ pc' = "attempt" /\ UNCHANGED <<st, failed, faults>>
Mark ==
  /\ pc = "mark" /\ pc' = "attempt"
  /\ \/ st' = [st EXCEPT ![running] = "valid"] /\ UNCHANGED <<failed, faults>>
     \/ Fault /\ failed' = failed \cup {"mark"} /\ UNCHANGED st

MarkValid ==
  /\ Mark
  /\ UNCHANGED <<layout, fits, flash, sel, done, attempts, running, cuts, updates, begun>>

(* The step to take from the slot that runs. *)
Stage ==
  IF layout = "arduino" THEN (IF running = 0 THEN "copy" ELSE "erase")
                        ELSE (IF running = 1 THEN "copy" ELSE "note")

Attempt ==
  /\ pc = "attempt"
  /\ attempts' = IF attempts > MAX_ATTEMPTS THEN attempts ELSE attempts + 1
  /\ pc' = IF attempts' > MAX_ATTEMPTS \/ ~fits THEN "app" ELSE Stage
  /\ begun' = TRUE
  /\ UNCHANGED <<layout, fits, flash, otadata, done, running, cuts, updates, faults, failed>>

(* A call that reports its failure: "continuing in the old layout". *)
Steps == {"copy", "copying", "select", "erase", "image", "otadata", "entry", "nvs",
          "table", "write"}

StepFails ==
  /\ pc \in Steps /\ pc' = "app"
  /\ Fault
  /\ UNCHANGED <<layout, fits, flash, otadata, done, attempts, running, cuts, updates,
                 begun, failed>>

(* A step of the migration that goes well. *)
Step(from, to) ==
  /\ pc = from /\ pc' = to
  /\ UNCHANGED <<layout, fits, attempts, running, cuts, updates, begun>>

(* Stage A, copy_self_to_other_slot: esp_ota_begin refuses while the image *)
(* is not confirmed, else it erases; esp_ota_end checks the copy, and      *)
(* esp_ota_set_boot_partition selects it.                                  *)
CopyRefused ==
  /\ Step("copy", "app")
  /\ st[running] = "pending"
  /\ UNCHANGED <<flash, otadata, done, faults, failed>>

CopyBegins ==
  /\ Step("copy", "copying")
  /\ st[running] # "pending"
  /\ Write(Other(running), "part")
  /\ UNCHANGED <<table, otadata, done, coredump, faults, failed>>

CopyEnds ==
  /\ Step("copying", "select")
  /\ Write(Other(running), "this")
  /\ UNCHANGED <<table, otadata, done, coredump, faults, failed>>

SelectCopy ==
  /\ Step("select", "restart")
  /\ sel' = Other(running)
  /\ st' = [st EXCEPT ![Other(running)] = "new"]
  /\ UNCHANGED <<flash, done, faults, failed>>

(* Stage B, prepare_new_layout: through the handle of the old first slot.  *)
EraseHome ==
  /\ Step("erase", "image")
  /\ slot' = [slot EXCEPT ![0] = "part"]
  /\ prepared' = prepared \ {"app"}
  /\ UNCHANGED <<table, otadata, done, coredump, faults, failed>>

(* A flash error nobody reports leaves an image that does not verify. *)
CopyHome ==
  /\ Step("image", "verify")
  /\ \/ prepared' = prepared \cup {"app"} /\ UNCHANGED faults
     \/ Fault /\ UNCHANGED prepared
  /\ UNCHANGED <<table, slot, otadata, done, coredump, failed>>

VerifiesMutant == TRUE
Verifies == "app" \in prepared

VerifyHome ==
  /\ Step("verify", IF Verifies THEN "otadata" ELSE "app")
  /\ UNCHANGED <<flash, otadata, done, faults, failed>>

EraseOtadata ==
  /\ Step("otadata", "entry")
  /\ prepared' = prepared \ {"otadata"}
  /\ UNCHANGED <<table, slot, otadata, done, coredump, faults, failed>>

WriteOtadata ==
  /\ Step("entry", "nvs")
  /\ prepared' = prepared \cup {"otadata"}
  /\ UNCHANGED <<table, slot, otadata, done, coredump, faults, failed>>

ClearNvs ==
  /\ Step("nvs", "note")
  /\ prepared' = prepared \cup {"nvs"}
  /\ UNCHANGED <<table, slot, otadata, done, coredump, faults, failed>>

(* note_migration_done: its failure is not even logged. *)
NoteMutant == Step("note", "table") /\ UNCHANGED <<done, faults, failed>>
Note ==
  /\ Step("note", "table")
  /\ \/ done' = TRUE /\ UNCHANGED <<faults, failed>>
     \/ Fault /\ failed' = failed \cup {"note"} /\ UNCHANGED done

NoteDone == Note /\ UNCHANGED <<flash, otadata>>

(* write_partition_table *)
EraseTable ==
  /\ Step("table", "write")
  /\ table' = "torn"
  /\ UNCHANGED <<slot, prepared, otadata, done, coredump, faults, failed>>

WriteTable ==
  /\ Step("write", "check")
  /\ table' = "new"
  /\ UNCHANGED <<slot, prepared, otadata, done, coredump, faults, failed>>

(* The table is read back; without memory for that it counts as wrong. *)
CheckTable ==
  /\ \/ Step("check", "restart") /\ UNCHANGED <<faults, failed>>
     \/ Step("check", "app") /\ Fault /\ failed' = failed \cup {"check"}
  /\ UNCHANGED <<flash, otadata, done>>

(* esp_restart *)
Restart ==
  /\ Step("restart", "off")
  /\ UNCHANGED <<flash, otadata, done, faults, failed>>

(* The application, left in the old layout, updates itself. *)
UpdateBegins ==
  /\ pc = "app" /\ updates < MaxUpdates /\ st[running] # "pending"
  /\ updates' = updates + 1 /\ pc' = "update"
  /\ Write(Other(running), "part")
  /\ UNCHANGED <<layout, fits, table, otadata, done, coredump, attempts, running, cuts, faults,
                 begun, failed>>

UpdateEnds ==
  /\ Step("update", "off")
  /\ Write(Other(running), "this")
  /\ sel' = Other(running)
  /\ st' = [st EXCEPT ![Other(running)] = "new"]
  /\ UNCHANGED <<table, done, coredump, faults, failed>>

UpdateFails ==
  /\ Step("update", "app")
  /\ Fault
  /\ UNCHANGED <<flash, otadata, done, failed>>

-----------------------------------------------------------------------------
(* finish_after_migration, in the new layout.                              *)

Finish ==
  /\ pc = "finish"
  /\ \/ pc' = (IF done THEN "clean" ELSE "home") /\ UNCHANGED faults
     \/ pc' = "home" /\ Fault  \* nvs_open
  /\ attempts' = 0
  /\ UNCHANGED <<layout, fits, flash, otadata, done, running, cuts, updates,
                 begun, failed>>

CleanCoredump ==
  /\ Step("clean", "forget")
  /\ \/ coredump' = "clean" /\ UNCHANGED <<faults, failed>>
     \/ Fault /\ failed' = failed \cup {"clean"} /\ UNCHANGED coredump
  /\ UNCHANGED <<table, slot, prepared, otadata, done>>

ForgetNote ==
  /\ Step("forget", "home")
  /\ done' = FALSE
  /\ UNCHANGED <<flash, otadata, faults, failed>>

-----------------------------------------------------------------------------
StageA == CopyRefused \/ CopyBegins \/ CopyEnds \/ SelectCopy
StageB == EraseHome \/ CopyHome \/ VerifyHome \/ EraseOtadata \/ WriteOtadata \/ ClearNvs
Switch == NoteDone \/ EraseTable \/ WriteTable \/ CheckTable
Goes == Boot \/ PreviousUpdates \/ MarkValid \/ Attempt \/ StageA \/ StageB \/ Switch
        \/ Restart \/ UpdateEnds \/ Finish \/ CleanCoredump \/ ForgetNote

Next ==
  \/ Goes
  \/ StepFails
  \/ Reset
  \/ PowerCut
  \/ PowerCycle
  \/ UpdateBegins
  \/ UpdateFails

Spec == Init /\ [][Next]_vars
FairSpec == Spec /\ WF_vars(Goes) /\ WF_vars(PowerCycle)

-----------------------------------------------------------------------------
(* The state is what the code's variables and the flash can hold. *)
TypeOK ==
  /\ layout \in {"arduino", "idf1"} /\ fits \in BOOLEAN
  /\ table \in {"old", "torn", "new"}
  /\ slot \in [Slots -> {"this", "prev", "part"}]
  /\ prepared \subseteq Areas
  /\ sel \in Slots /\ running \in Slots
  /\ st \in [Slots -> {"new", "pending", "valid", "aborted"}]
  /\ done \in BOOLEAN /\ coredump \in {"dirty", "clean"}
  /\ attempts \in 0 .. MAX_ATTEMPTS + 1
  /\ pc \in Steps \cup {"off", "dead", "previous", "mark", "attempt", "verify", "note", "check",
                        "restart", "app", "update", "finish", "clean", "forget", "home"}
  /\ cuts \in 0 .. MaxCuts /\ updates \in 0 .. MaxUpdates /\ faults \in 0 .. MaxFaults
  /\ begun \in BOOLEAN
  /\ failed \subseteq {"mark", "note", "check", "clean"}

(* "Everything up to the table write is idempotent ... the only step whose *)
(* interruption leaves the station unbootable" (bd_migrate.cpp:24): at any *)
(* moment but in that write, a reset finds an image to boot, and once the  *)
(* firmware has confirmed itself that is never the previous one, "which    *)
(* would download this update again, forever" (bd_migrate.cpp:379).        *)
Image == IF table = "new" THEN "this" ELSE slot[Pick(RolledBack(st))]

BootsThis ==
  table # "torn" /\ "check" \notin failed =>
    /\ ~Unbootable
    /\ begun /\ "mark" \notin failed => Image = "this"

(* The partition table is touched last: when its erase begins, the image,  *)
(* the otadata and the flash of the larger NVS are ready, and the note for *)
(* the first boot in the new layout is stored unless storing it failed.    *)
Ready == fits /\ prepared = Areas /\ (done \/ "note" \in failed)
TableLast == [][table' # table => Ready]_vars

(* The bytes of the old slot in the core dump area are not forgotten: in   *)
(* the new layout the note is kept until they are erased, whenever the     *)
(* station is reset.                                                       *)
NoteUntilClean ==
  table = "new" => done \/ coredump = "clean" \/ failed \cap {"note", "clean"} # {}

(* A station whose image fits ends up in the new layout, however often it  *)
(* is reset, fails a step and gives up until it is switched off and on.    *)
Migrates == fits => <>(pc \in {"home", "dead"})

-----------------------------------------------------------------------------
(* The inductive invariant of the proofs: what is so at each place of the  *)
(* firmware.                                                               *)
StageBSteps == {"erase", "image", "verify", "otadata", "entry", "nvs"}
InOld == {"mark", "attempt", "copy", "copying", "select", "note", "table"} \cup StageBSteps
Chosen == InOld \cup {"write", "check", "app", "update"}

(* Which table there is. *)
TableInv ==
  /\ pc \in InOld \cup {"previous"} => table = "old"
  /\ pc = "write" => table = "torn"
  /\ pc \in {"check", "finish", "clean", "forget", "home"} => table = "new"
  /\ pc \in {"app", "update"} /\ table = "new" => "check" \in failed

(* What the slots hold: the running one is left alone, and once this       *)
(* firmware has begun, the one to boot next is confirmed, or both are it.  *)
SlotInv ==
  /\ table = "old" => Intact(running)
  /\ pc \in Chosen \cup {"previous"} => sel = running
  /\ pc = "previous" => slot[running] = "prev"
  /\ pc \in Chosen => slot[running] = "this"
  /\ pc \in Chosen \ {"mark"} /\ "mark" \notin failed => st[running] = "valid"
  /\ pc = "select" => slot[Other(running)] = "this"
  /\ table = "old" /\ begun /\ "mark" \notin failed =>
       slot[sel] = "this" /\ (st[sel] = "valid" \/ slot[Other(sel)] = "this")

(* What of the new layout is ready. *)
ReadyInv ==
  /\ pc \in StageBSteps => layout = "arduino" /\ running = 1
  /\ pc = "note" /\ layout = "idf1" => running = 0
  /\ layout = "idf1" =>
       {"otadata", "nvs"} \subseteq prepared /\ (slot[0] = "this" => "app" \in prepared)
  /\ pc \in Steps \cup {"verify", "note"} => fits
  /\ pc \in {"otadata", "entry", "nvs"} => "app" \in prepared
  /\ pc = "nvs" => "otadata" \in prepared
  /\ pc \in {"note", "table", "write"} => prepared = Areas
  /\ pc \in {"table", "write"} => done \/ "note" \in failed
  /\ table = "new" /\ "check" \notin failed => prepared = Areas
  /\ pc = "forget" => coredump = "clean" \/ "clean" \in failed

IInv == TypeOK /\ TableInv /\ SlotInv /\ ReadyInv /\ NoteUntilClean
=============================================================================
