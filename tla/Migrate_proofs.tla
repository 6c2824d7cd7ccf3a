-------------------------- MODULE Migrate_proofs --------------------------
(***************************************************************************)
(* Proofs about Migrate, for any number of attempts, resets, updates and   *)
(* failing calls.                                                          *)
(***************************************************************************)
EXTENDS Migrate, TLAPS

(* There are two slots. *)
LEMMA TwoSlots ==
  ASSUME NEW s \in Slots
  PROVE  Other(s) \in Slots /\ Other(s) # s /\ Other(Other(s)) = s
BY DEF Slots, Other

(* A fault counts up to its bound. *)
LEMMA FaultCounts == ASSUME TypeOK, Fault PROVE faults' \in 0 .. MaxFaults
BY MigrateAssumption DEF TypeOK, Fault

(* Every step keeps the types. *)
LEMMA TypeStep ==
  ASSUME TypeOK, [Next]_vars
  PROVE  TypeOK'
<1>1. CASE Boot
  BY <1>1, MigrateAssumption DEF TypeOK, Slots, Areas, Steps, Other, Boot, BootsOld, BootsNew,
    Unbootable, RolledBack, Pick, Good, Intact, flash, otadata
<1>2. CASE PreviousUpdates
  BY <1>2, MigrateAssumption DEF TypeOK, Slots, Areas, Steps, Other, PreviousUpdates, Write,
    flash, otadata
<1>3. CASE MarkValid
  <2>1. faults' \in 0 .. MaxFaults
    BY <1>3, FaultCounts DEF MarkValid, Mark, TypeOK
  <2>2. QED BY <1>3, <2>1 DEF TypeOK, Slots, Areas, Steps, MarkValid, Mark, flash, otadata
<1>4. CASE Attempt
  BY <1>4, MigrateAssumption DEF TypeOK, Slots, Areas, Steps, Other, Attempt, Stage, flash,
    otadata
<1>5. CASE CopyRefused
  BY <1>5, MigrateAssumption DEF TypeOK, Slots, Areas, Steps, Other, CopyRefused, Step, flash,
    otadata
<1>6. CASE CopyBegins
  BY <1>6, MigrateAssumption DEF TypeOK, Slots, Areas, Steps, Other, CopyBegins, Step, Write,
    flash, otadata
<1>7. CASE CopyEnds
  BY <1>7, MigrateAssumption DEF TypeOK, Slots, Areas, Steps, Other, CopyEnds, Step, Write,
    flash, otadata
<1>8. CASE SelectCopy
  BY <1>8, MigrateAssumption DEF TypeOK, Slots, Areas, Steps, Other, SelectCopy, Step, flash,
    otadata
<1>9. CASE EraseHome
  BY <1>9, MigrateAssumption DEF TypeOK, Slots, Areas, Steps, Other, EraseHome, Step, flash,
    otadata
<1>10. CASE CopyHome
  <2>1. faults' \in 0 .. MaxFaults
    BY <1>10, FaultCounts DEF CopyHome, Step, TypeOK
  <2>2. QED BY <1>10, <2>1 DEF TypeOK, Slots, Areas, Steps, CopyHome, Step, flash, otadata
<1>11. CASE VerifyHome
  BY <1>11, MigrateAssumption DEF TypeOK, Slots, Areas, Steps, Other, VerifyHome, Step,
    Verifies, flash, otadata
<1>12. CASE EraseOtadata
  BY <1>12, MigrateAssumption DEF TypeOK, Slots, Areas, Steps, Other, EraseOtadata, Step, flash,
    otadata
<1>13. CASE WriteOtadata
  BY <1>13, MigrateAssumption DEF TypeOK, Slots, Areas, Steps, Other, WriteOtadata, Step, flash,
    otadata
<1>14. CASE ClearNvs
  BY <1>14, MigrateAssumption DEF TypeOK, Slots, Areas, Steps, Other, ClearNvs, Step, flash,
    otadata
<1>15. CASE NoteDone
  <2>1. faults' \in 0 .. MaxFaults
    BY <1>15, FaultCounts DEF NoteDone, Note, Step, TypeOK
  <2>2. QED BY <1>15, <2>1 DEF TypeOK, Slots, Areas, Steps, NoteDone, Note, Step, flash, otadata
<1>16. CASE EraseTable
  BY <1>16, MigrateAssumption DEF TypeOK, Slots, Areas, Steps, Other, EraseTable, Step, flash,
    otadata
<1>17. CASE WriteTable
  BY <1>17, MigrateAssumption DEF TypeOK, Slots, Areas, Steps, Other, WriteTable, Step, flash,
    otadata
<1>18. CASE CheckTable
  <2>1. CASE Step("check", "restart") /\ UNCHANGED <<faults, failed>>
    BY <1>18, <2>1 DEF CheckTable, TypeOK, Slots, Areas, Steps, Step, flash, otadata
  <2>2. CASE Step("check", "app") /\ Fault /\ failed' = failed \cup {"check"}
    BY <1>18, <2>2, FaultCounts DEF CheckTable, TypeOK, Slots, Areas, Steps, Step, flash, otadata
  <2>3. QED BY <1>18, <2>1, <2>2 DEF CheckTable
<1>19. CASE Restart
  BY <1>19, MigrateAssumption DEF TypeOK, Slots, Areas, Steps, Other, Restart, Step, flash,
    otadata
<1>20. CASE UpdateEnds
  BY <1>20, MigrateAssumption DEF TypeOK, Slots, Areas, Steps, Other, UpdateEnds, Step, Write,
    flash, otadata
<1>21. CASE Finish
  BY <1>21, MigrateAssumption DEF TypeOK, Slots, Areas, Steps, Other, Finish, Fault, flash,
    otadata
<1>22. CASE CleanCoredump
  <2>1. faults' \in 0 .. MaxFaults
    BY <1>22, FaultCounts DEF CleanCoredump, Step, TypeOK
  <2>2. QED BY <1>22, <2>1 DEF TypeOK, Slots, Areas, Steps, CleanCoredump, Step, flash, otadata
<1>23. CASE ForgetNote
  BY <1>23, MigrateAssumption DEF TypeOK, Slots, Areas, Steps, Other, ForgetNote, Step, flash,
    otadata
<1>24. CASE StepFails
  <2>1. faults' \in 0 .. MaxFaults
    BY <1>24, FaultCounts DEF StepFails, TypeOK
  <2>2. QED BY <1>24, <2>1 DEF TypeOK, Slots, Areas, Steps, StepFails, flash, otadata
<1>25. CASE Reset
  BY <1>25, MigrateAssumption DEF TypeOK, Slots, Areas, Steps, Other, Reset, Running, flash,
    otadata
<1>26. CASE PowerCut
  BY <1>26, MigrateAssumption DEF TypeOK, Slots, Areas, Steps, Other, PowerCut, Running,
    PowerOn, flash, otadata
<1>27. CASE PowerCycle
  BY <1>27, MigrateAssumption DEF TypeOK, Slots, Areas, Steps, Other, PowerCycle, PowerOn,
    flash, otadata
<1>28. CASE UpdateBegins
  BY <1>28, MigrateAssumption DEF TypeOK, Slots, Areas, Steps, Other, UpdateBegins, Write,
    flash, otadata
<1>29. CASE UpdateFails
  BY <1>29, MigrateAssumption DEF TypeOK, Slots, Areas, Steps, Other, UpdateFails, Step, Fault,
    flash, otadata
<1>30. CASE UNCHANGED vars
  BY <1>30 DEF TypeOK, Slots, Areas, Steps, Other, Intact, vars, flash, otadata
<1>31. QED
  BY <1>1, <1>2, <1>3, <1>4, <1>5, <1>6, <1>7, <1>8, <1>9, <1>10, <1>11, <1>12, <1>13, <1>14,
    <1>15, <1>16, <1>17, <1>18, <1>19, <1>20, <1>21, <1>22, <1>23, <1>24, <1>25, <1>26, <1>27,
    <1>28, <1>29, <1>30 DEF Next, Goes, StageA, StageB, Switch

(* Every step leaves the table its place in the firmware expects. *)
LEMMA TableStep ==
  ASSUME IInv, [Next]_vars
  PROVE  TableInv'
<1>1. CASE Boot
  BY <1>1 DEF IInv, TableInv, Chosen, InOld, StageBSteps, TypeOK, Slots, Areas, Steps, Boot,
    BootsOld, BootsNew, Unbootable, RolledBack, Pick, Good, Intact, flash, otadata
<1>2. CASE PreviousUpdates
  BY <1>2 DEF IInv, TableInv, Chosen, InOld, StageBSteps, TypeOK, Slots, Areas, Steps,
    PreviousUpdates, Write, flash, otadata
<1>3. CASE MarkValid
  BY <1>3 DEF IInv, TableInv, Chosen, InOld, StageBSteps, TypeOK, Slots, Areas, Steps,
    MarkValid, Mark, Fault, flash, otadata
<1>4. CASE Attempt
  BY <1>4 DEF IInv, TableInv, Chosen, InOld, StageBSteps, TypeOK, Slots, Areas, Steps, Attempt,
    Stage, flash, otadata
<1>5. CASE CopyRefused
  BY <1>5 DEF IInv, TableInv, Chosen, InOld, StageBSteps, TypeOK, Slots, Areas, Steps,
    CopyRefused, Step, flash, otadata
<1>6. CASE CopyBegins
  BY <1>6 DEF IInv, TableInv, Chosen, InOld, StageBSteps, TypeOK, Slots, Areas, Steps,
    CopyBegins, Step, Write, flash, otadata
<1>7. CASE CopyEnds
  BY <1>7 DEF IInv, TableInv, Chosen, InOld, StageBSteps, TypeOK, Slots, Areas, Steps, CopyEnds,
    Step, Write, flash, otadata
<1>8. CASE SelectCopy
  BY <1>8 DEF IInv, TableInv, Chosen, InOld, StageBSteps, TypeOK, Slots, Areas, Steps,
    SelectCopy, Step, flash, otadata
<1>9. CASE EraseHome
  BY <1>9 DEF IInv, TableInv, Chosen, InOld, StageBSteps, TypeOK, Slots, Areas, Steps,
    EraseHome, Step, flash, otadata
<1>10. CASE CopyHome
  BY <1>10 DEF IInv, TableInv, Chosen, InOld, StageBSteps, TypeOK, Slots, Areas, Steps,
    CopyHome, Step, Fault, flash, otadata
<1>11. CASE VerifyHome
  BY <1>11 DEF IInv, TableInv, Chosen, InOld, StageBSteps, TypeOK, Slots, Areas, Steps,
    VerifyHome, Step, Verifies, flash, otadata
<1>12. CASE EraseOtadata
  BY <1>12 DEF IInv, TableInv, Chosen, InOld, StageBSteps, TypeOK, Slots, Areas, Steps,
    EraseOtadata, Step, flash, otadata
<1>13. CASE WriteOtadata
  BY <1>13 DEF IInv, TableInv, Chosen, InOld, StageBSteps, TypeOK, Slots, Areas, Steps,
    WriteOtadata, Step, flash, otadata
<1>14. CASE ClearNvs
  BY <1>14 DEF IInv, TableInv, Chosen, InOld, StageBSteps, TypeOK, Slots, Areas, Steps,
    ClearNvs, Step, flash, otadata
<1>15. CASE NoteDone
  BY <1>15 DEF IInv, TableInv, Chosen, InOld, StageBSteps, TypeOK, Slots, Areas, Steps,
    NoteDone, Note, Step, Fault, flash, otadata
<1>16. CASE EraseTable
  BY <1>16 DEF IInv, TableInv, Chosen, InOld, StageBSteps, TypeOK, Slots, Areas, Steps,
    EraseTable, Step, flash, otadata
<1>17. CASE WriteTable
  BY <1>17 DEF IInv, TableInv, Chosen, InOld, StageBSteps, TypeOK, Slots, Areas, Steps,
    WriteTable, Step, flash, otadata
<1>18. CASE CheckTable
  BY <1>18 DEF IInv, TableInv, Chosen, InOld, StageBSteps, TypeOK, Slots, Areas, Steps,
    CheckTable, Step, Fault, flash, otadata
<1>19. CASE Restart
  BY <1>19 DEF IInv, TableInv, Chosen, InOld, StageBSteps, TypeOK, Slots, Areas, Steps, Restart,
    Step, flash, otadata
<1>20. CASE UpdateEnds
  BY <1>20 DEF IInv, TableInv, Chosen, InOld, StageBSteps, TypeOK, Slots, Areas, Steps,
    UpdateEnds, Step, Write, flash, otadata
<1>21. CASE Finish
  BY <1>21 DEF IInv, TableInv, Chosen, InOld, StageBSteps, TypeOK, Slots, Areas, Steps, Finish,
    Fault, flash, otadata
<1>22. CASE CleanCoredump
  BY <1>22 DEF IInv, TableInv, Chosen, InOld, StageBSteps, TypeOK, Slots, Areas, Steps,
    CleanCoredump, Step, Fault, flash, otadata
<1>23. CASE ForgetNote
  BY <1>23 DEF IInv, TableInv, Chosen, InOld, StageBSteps, TypeOK, Slots, Areas, Steps,
    ForgetNote, Step, flash, otadata
<1>24. CASE StepFails
  BY <1>24 DEF IInv, TableInv, Chosen, InOld, StageBSteps, TypeOK, Slots, Areas, Steps,
    StepFails, flash, otadata
<1>25. CASE Reset
  BY <1>25 DEF IInv, TableInv, Chosen, InOld, StageBSteps, TypeOK, Slots, Areas, Steps, Reset,
    Running, flash, otadata
<1>26. CASE PowerCut
  BY <1>26 DEF IInv, TableInv, Chosen, InOld, StageBSteps, TypeOK, Slots, Areas, Steps,
    PowerCut, Running, PowerOn, flash, otadata
<1>27. CASE PowerCycle
  BY <1>27 DEF IInv, TableInv, Chosen, InOld, StageBSteps, TypeOK, Slots, Areas, Steps,
    PowerCycle, PowerOn, flash, otadata
<1>28. CASE UpdateBegins
  BY <1>28 DEF IInv, TableInv, Chosen, InOld, StageBSteps, TypeOK, Slots, Areas, Steps,
    UpdateBegins, Write, flash, otadata
<1>29. CASE UpdateFails
  BY <1>29 DEF IInv, TableInv, Chosen, InOld, StageBSteps, TypeOK, Slots, Areas, Steps,
    UpdateFails, Step, Fault, flash, otadata
<1>30. CASE UNCHANGED vars
  BY <1>30 DEF IInv, TableInv, Chosen, InOld, StageBSteps, TypeOK, Slots, Areas, Steps, Intact,
    vars, flash, otadata
<1>31. QED
  BY <1>1, <1>2, <1>3, <1>4, <1>5, <1>6, <1>7, <1>8, <1>9, <1>10, <1>11, <1>12, <1>13, <1>14,
    <1>15, <1>16, <1>17, <1>18, <1>19, <1>20, <1>21, <1>22, <1>23, <1>24, <1>25, <1>26, <1>27,
    <1>28, <1>29, <1>30 DEF Next, Goes, StageA, StageB, Switch

(* Every step leaves an image of this firmware to boot. *)
LEMMA SlotStep ==
  ASSUME IInv, [Next]_vars
  PROVE  SlotInv'
<1>1. CASE Boot
  BY <1>1 DEF IInv, TableInv, Chosen, InOld, StageBSteps, TypeOK, Slots, Areas, Steps, SlotInv,
    ReadyInv, Other, Intact, Boot, BootsOld, BootsNew, Unbootable, RolledBack, Pick, Good,
    Intact, flash, otadata
<1>2. CASE PreviousUpdates
  BY <1>2 DEF IInv, TableInv, Chosen, InOld, StageBSteps, TypeOK, Slots, Areas, Steps, SlotInv,
    ReadyInv, Other, Intact, PreviousUpdates, Write, flash, otadata
<1>3. CASE MarkValid
  BY <1>3 DEF IInv, TableInv, Chosen, InOld, StageBSteps, TypeOK, Slots, Areas, Steps, SlotInv,
    ReadyInv, Other, Intact, MarkValid, Mark, Fault, flash, otadata
<1>4. CASE Attempt
  BY <1>4 DEF IInv, TableInv, Chosen, InOld, StageBSteps, TypeOK, Slots, Areas, Steps, SlotInv,
    ReadyInv, Other, Intact, Attempt, Stage, flash, otadata
<1>5. CASE CopyRefused
  BY <1>5 DEF IInv, TableInv, Chosen, InOld, StageBSteps, TypeOK, Slots, Areas, Steps, SlotInv,
    ReadyInv, Other, Intact, CopyRefused, Step, flash, otadata
<1>6. CASE CopyBegins
  BY <1>6 DEF IInv, TableInv, Chosen, InOld, StageBSteps, TypeOK, Slots, Areas, Steps, SlotInv,
    ReadyInv, Other, Intact, CopyBegins, Step, Write, flash, otadata
<1>7. CASE CopyEnds
  BY <1>7 DEF IInv, TableInv, Chosen, InOld, StageBSteps, TypeOK, Slots, Areas, Steps, SlotInv,
    ReadyInv, Other, Intact, CopyEnds, Step, Write, flash, otadata
<1>8. CASE SelectCopy
  BY <1>8 DEF IInv, TableInv, Chosen, InOld, StageBSteps, TypeOK, Slots, Areas, Steps, SlotInv,
    ReadyInv, Other, Intact, SelectCopy, Step, flash, otadata
<1>9. CASE EraseHome
  BY <1>9 DEF IInv, TableInv, Chosen, InOld, StageBSteps, TypeOK, Slots, Areas, Steps, SlotInv,
    ReadyInv, Other, Intact, EraseHome, Step, flash, otadata
<1>10. CASE CopyHome
  BY <1>10 DEF IInv, TableInv, Chosen, InOld, StageBSteps, TypeOK, Slots, Areas, Steps, SlotInv,
    ReadyInv, Other, Intact, CopyHome, Step, Fault, flash, otadata
<1>11. CASE VerifyHome
  BY <1>11 DEF IInv, TableInv, Chosen, InOld, StageBSteps, TypeOK, Slots, Areas, Steps, SlotInv,
    ReadyInv, Other, Intact, VerifyHome, Step, Verifies, flash, otadata
<1>12. CASE EraseOtadata
  BY <1>12 DEF IInv, TableInv, Chosen, InOld, StageBSteps, TypeOK, Slots, Areas, Steps, SlotInv,
    ReadyInv, Other, Intact, EraseOtadata, Step, flash, otadata
<1>13. CASE WriteOtadata
  BY <1>13 DEF IInv, TableInv, Chosen, InOld, StageBSteps, TypeOK, Slots, Areas, Steps, SlotInv,
    ReadyInv, Other, Intact, WriteOtadata, Step, flash, otadata
<1>14. CASE ClearNvs
  BY <1>14 DEF IInv, TableInv, Chosen, InOld, StageBSteps, TypeOK, Slots, Areas, Steps, SlotInv,
    ReadyInv, Other, Intact, ClearNvs, Step, flash, otadata
<1>15. CASE NoteDone
  BY <1>15 DEF IInv, TableInv, Chosen, InOld, StageBSteps, TypeOK, Slots, Areas, Steps, SlotInv,
    ReadyInv, Other, Intact, NoteDone, Note, Step, Fault, flash, otadata
<1>16. CASE EraseTable
  BY <1>16 DEF IInv, TableInv, Chosen, InOld, StageBSteps, TypeOK, Slots, Areas, Steps, SlotInv,
    ReadyInv, Other, Intact, EraseTable, Step, flash, otadata
<1>17. CASE WriteTable
  BY <1>17 DEF IInv, TableInv, Chosen, InOld, StageBSteps, TypeOK, Slots, Areas, Steps, SlotInv,
    ReadyInv, Other, Intact, WriteTable, Step, flash, otadata
<1>18. CASE CheckTable
  <2>1. CASE Step("check", "restart") /\ UNCHANGED <<faults, failed>>
    BY <1>18, <2>1 DEF CheckTable, IInv, TableInv, SlotInv, TypeOK, Slots, Steps, Chosen, InOld,
      StageBSteps, Intact, Step, flash, otadata
  <2>2. CASE Step("check", "app") /\ Fault /\ failed' = failed \cup {"check"}
    BY <1>18, <2>2 DEF CheckTable, IInv, TableInv, SlotInv, TypeOK, Slots, Steps, Chosen, InOld,
      StageBSteps, Intact, Step, flash, otadata
  <2>3. QED BY <1>18, <2>1, <2>2 DEF CheckTable
<1>19. CASE Restart
  BY <1>19 DEF IInv, TableInv, Chosen, InOld, StageBSteps, TypeOK, Slots, Areas, Steps, SlotInv,
    ReadyInv, Other, Intact, Restart, Step, flash, otadata
<1>20. CASE UpdateEnds
  BY <1>20 DEF IInv, TableInv, Chosen, InOld, StageBSteps, TypeOK, Slots, Areas, Steps, SlotInv,
    ReadyInv, Other, Intact, UpdateEnds, Step, Write, flash, otadata
<1>21. CASE Finish
  BY <1>21 DEF IInv, TableInv, Chosen, InOld, StageBSteps, TypeOK, Slots, Areas, Steps, SlotInv,
    ReadyInv, Other, Intact, Finish, Fault, flash, otadata
<1>22. CASE CleanCoredump
  BY <1>22 DEF IInv, TableInv, Chosen, InOld, StageBSteps, TypeOK, Slots, Areas, Steps, SlotInv,
    ReadyInv, Other, Intact, CleanCoredump, Step, Fault, flash, otadata
<1>23. CASE ForgetNote
  BY <1>23 DEF IInv, TableInv, Chosen, InOld, StageBSteps, TypeOK, Slots, Areas, Steps, SlotInv,
    ReadyInv, Other, Intact, ForgetNote, Step, flash, otadata
<1>24. CASE StepFails
  BY <1>24 DEF IInv, TableInv, Chosen, InOld, StageBSteps, TypeOK, Slots, Areas, Steps, SlotInv,
    ReadyInv, Other, Intact, StepFails, flash, otadata
<1>25. CASE Reset
  BY <1>25 DEF IInv, TableInv, Chosen, InOld, StageBSteps, TypeOK, Slots, Areas, Steps, SlotInv,
    ReadyInv, Other, Intact, Reset, Running, flash, otadata
<1>26. CASE PowerCut
  BY <1>26 DEF IInv, TableInv, Chosen, InOld, StageBSteps, TypeOK, Slots, Areas, Steps, SlotInv,
    ReadyInv, Other, Intact, PowerCut, Running, PowerOn, flash, otadata
<1>27. CASE PowerCycle
  BY <1>27 DEF IInv, TableInv, Chosen, InOld, StageBSteps, TypeOK, Slots, Areas, Steps, SlotInv,
    ReadyInv, Other, Intact, PowerCycle, PowerOn, flash, otadata
<1>28. CASE UpdateBegins
  BY <1>28 DEF IInv, TableInv, Chosen, InOld, StageBSteps, TypeOK, Slots, Areas, Steps, SlotInv,
    ReadyInv, Other, Intact, UpdateBegins, Write, flash, otadata
<1>29. CASE UpdateFails
  BY <1>29 DEF IInv, TableInv, Chosen, InOld, StageBSteps, TypeOK, Slots, Areas, Steps, SlotInv,
    ReadyInv, Other, Intact, UpdateFails, Step, Fault, flash, otadata
<1>30. CASE UNCHANGED vars
  BY <1>30 DEF IInv, TableInv, Chosen, InOld, StageBSteps, TypeOK, Slots, Areas, Steps, SlotInv,
    ReadyInv, Other, Intact, Intact, vars, flash, otadata
<1>31. QED
  BY <1>1, <1>2, <1>3, <1>4, <1>5, <1>6, <1>7, <1>8, <1>9, <1>10, <1>11, <1>12, <1>13, <1>14,
    <1>15, <1>16, <1>17, <1>18, <1>19, <1>20, <1>21, <1>22, <1>23, <1>24, <1>25, <1>26, <1>27,
    <1>28, <1>29, <1>30 DEF Next, Goes, StageA, StageB, Switch

(* Every step keeps what of the new layout is ready. *)
LEMMA ReadyStep ==
  ASSUME IInv, [Next]_vars
  PROVE  ReadyInv'
<1>1. CASE Boot
  BY <1>1 DEF IInv, TableInv, Chosen, InOld, StageBSteps, TypeOK, Slots, Areas, Steps, SlotInv,
    ReadyInv, Other, Boot, BootsOld, BootsNew, Unbootable, RolledBack, Pick, Good, Intact,
    flash, otadata
<1>2. CASE PreviousUpdates
  BY <1>2 DEF IInv, TableInv, Chosen, InOld, StageBSteps, TypeOK, Slots, Areas, Steps, SlotInv,
    ReadyInv, Other, PreviousUpdates, Write, flash, otadata
<1>3. CASE MarkValid
  BY <1>3 DEF IInv, TableInv, Chosen, InOld, StageBSteps, TypeOK, Slots, Areas, Steps, SlotInv,
    ReadyInv, Other, MarkValid, Mark, Fault, flash, otadata
<1>4. CASE Attempt
  BY <1>4 DEF IInv, TableInv, Chosen, InOld, StageBSteps, TypeOK, Slots, Areas, Steps, SlotInv,
    ReadyInv, Other, Attempt, Stage, flash, otadata
<1>5. CASE CopyRefused
  BY <1>5 DEF IInv, TableInv, Chosen, InOld, StageBSteps, TypeOK, Slots, Areas, Steps, SlotInv,
    ReadyInv, Other, CopyRefused, Step, flash, otadata
<1>6. CASE CopyBegins
  BY <1>6 DEF IInv, TableInv, Chosen, InOld, StageBSteps, TypeOK, Slots, Areas, Steps, SlotInv,
    ReadyInv, Other, CopyBegins, Step, Write, flash, otadata
<1>7. CASE CopyEnds
  BY <1>7 DEF IInv, TableInv, Chosen, InOld, StageBSteps, TypeOK, Slots, Areas, Steps, SlotInv,
    ReadyInv, Other, CopyEnds, Step, Write, flash, otadata
<1>8. CASE SelectCopy
  BY <1>8 DEF IInv, TableInv, Chosen, InOld, StageBSteps, TypeOK, Slots, Areas, Steps, SlotInv,
    ReadyInv, Other, SelectCopy, Step, flash, otadata
<1>9. CASE EraseHome
  BY <1>9 DEF IInv, TableInv, Chosen, InOld, StageBSteps, TypeOK, Slots, Areas, Steps, SlotInv,
    ReadyInv, Other, EraseHome, Step, flash, otadata
<1>10. CASE CopyHome
  BY <1>10 DEF IInv, TableInv, Chosen, InOld, StageBSteps, TypeOK, Slots, Areas, Steps, SlotInv,
    ReadyInv, Other, CopyHome, Step, Fault, flash, otadata
<1>11. CASE VerifyHome
  BY <1>11 DEF IInv, TableInv, Chosen, InOld, StageBSteps, TypeOK, Slots, Areas, Steps, SlotInv,
    ReadyInv, Other, VerifyHome, Step, Verifies, flash, otadata
<1>12. CASE EraseOtadata
  BY <1>12 DEF IInv, TableInv, Chosen, InOld, StageBSteps, TypeOK, Slots, Areas, Steps, SlotInv,
    ReadyInv, Other, EraseOtadata, Step, flash, otadata
<1>13. CASE WriteOtadata
  BY <1>13 DEF IInv, TableInv, Chosen, InOld, StageBSteps, TypeOK, Slots, Areas, Steps, SlotInv,
    ReadyInv, Other, WriteOtadata, Step, flash, otadata
<1>14. CASE ClearNvs
  BY <1>14 DEF IInv, TableInv, Chosen, InOld, StageBSteps, TypeOK, Slots, Areas, Steps, SlotInv,
    ReadyInv, Other, ClearNvs, Step, flash, otadata
<1>15. CASE NoteDone
  BY <1>15 DEF IInv, TableInv, Chosen, InOld, StageBSteps, TypeOK, Slots, Areas, Steps, SlotInv,
    ReadyInv, Other, NoteDone, Note, Step, Fault, flash, otadata
<1>16. CASE EraseTable
  BY <1>16 DEF IInv, TableInv, Chosen, InOld, StageBSteps, TypeOK, Slots, Areas, Steps, SlotInv,
    ReadyInv, Other, EraseTable, Step, flash, otadata
<1>17. CASE WriteTable
  BY <1>17 DEF IInv, TableInv, Chosen, InOld, StageBSteps, TypeOK, Slots, Areas, Steps, SlotInv,
    ReadyInv, Other, WriteTable, Step, flash, otadata
<1>18. CASE CheckTable
  BY <1>18 DEF IInv, TableInv, Chosen, InOld, StageBSteps, TypeOK, Slots, Areas, Steps, SlotInv,
    ReadyInv, Other, CheckTable, Step, Fault, flash, otadata
<1>19. CASE Restart
  BY <1>19 DEF IInv, TableInv, Chosen, InOld, StageBSteps, TypeOK, Slots, Areas, Steps, SlotInv,
    ReadyInv, Other, Restart, Step, flash, otadata
<1>20. CASE UpdateEnds
  BY <1>20 DEF IInv, TableInv, Chosen, InOld, StageBSteps, TypeOK, Slots, Areas, Steps, SlotInv,
    ReadyInv, Other, UpdateEnds, Step, Write, flash, otadata
<1>21. CASE Finish
  BY <1>21 DEF IInv, TableInv, Chosen, InOld, StageBSteps, TypeOK, Slots, Areas, Steps, SlotInv,
    ReadyInv, Other, Finish, Fault, flash, otadata
<1>22. CASE CleanCoredump
  BY <1>22 DEF IInv, TableInv, Chosen, InOld, StageBSteps, TypeOK, Slots, Areas, Steps, SlotInv,
    ReadyInv, Other, CleanCoredump, Step, Fault, flash, otadata
<1>23. CASE ForgetNote
  BY <1>23 DEF IInv, TableInv, Chosen, InOld, StageBSteps, TypeOK, Slots, Areas, Steps, SlotInv,
    ReadyInv, Other, ForgetNote, Step, flash, otadata
<1>24. CASE StepFails
  BY <1>24 DEF IInv, TableInv, Chosen, InOld, StageBSteps, TypeOK, Slots, Areas, Steps, SlotInv,
    ReadyInv, Other, StepFails, flash, otadata
<1>25. CASE Reset
  BY <1>25 DEF IInv, TableInv, Chosen, InOld, StageBSteps, TypeOK, Slots, Areas, Steps, SlotInv,
    ReadyInv, Other, Reset, Running, flash, otadata
<1>26. CASE PowerCut
  BY <1>26 DEF IInv, TableInv, Chosen, InOld, StageBSteps, TypeOK, Slots, Areas, Steps, SlotInv,
    ReadyInv, Other, PowerCut, Running, PowerOn, flash, otadata
<1>27. CASE PowerCycle
  BY <1>27 DEF IInv, TableInv, Chosen, InOld, StageBSteps, TypeOK, Slots, Areas, Steps, SlotInv,
    ReadyInv, Other, PowerCycle, PowerOn, flash, otadata
<1>28. CASE UpdateBegins
  BY <1>28 DEF IInv, TableInv, Chosen, InOld, StageBSteps, TypeOK, Slots, Areas, Steps, SlotInv,
    ReadyInv, Other, UpdateBegins, Write, flash, otadata
<1>29. CASE UpdateFails
  BY <1>29 DEF IInv, TableInv, Chosen, InOld, StageBSteps, TypeOK, Slots, Areas, Steps, SlotInv,
    ReadyInv, Other, UpdateFails, Step, Fault, flash, otadata
<1>30. CASE UNCHANGED vars
  BY <1>30 DEF IInv, TableInv, Chosen, InOld, StageBSteps, TypeOK, Slots, Areas, Steps, SlotInv,
    ReadyInv, Other, Intact, vars, flash, otadata
<1>31. QED
  BY <1>1, <1>2, <1>3, <1>4, <1>5, <1>6, <1>7, <1>8, <1>9, <1>10, <1>11, <1>12, <1>13, <1>14,
    <1>15, <1>16, <1>17, <1>18, <1>19, <1>20, <1>21, <1>22, <1>23, <1>24, <1>25, <1>26, <1>27,
    <1>28, <1>29, <1>30 DEF Next, Goes, StageA, StageB, Switch

(* No step forgets the bytes of the old slot. *)
LEMMA NoteStep ==
  ASSUME IInv, [Next]_vars
  PROVE  NoteUntilClean'
<1>1. CASE Boot
  BY <1>1 DEF IInv, TableInv, Chosen, InOld, StageBSteps, TypeOK, Slots, Areas, Steps, ReadyInv,
    NoteUntilClean, Other, Boot, BootsOld, BootsNew, Unbootable, RolledBack, Pick, Good, Intact,
    flash, otadata
<1>2. CASE PreviousUpdates
  BY <1>2 DEF IInv, TableInv, Chosen, InOld, StageBSteps, TypeOK, Slots, Areas, Steps, ReadyInv,
    NoteUntilClean, Other, PreviousUpdates, Write, flash, otadata
<1>3. CASE MarkValid
  BY <1>3 DEF IInv, TableInv, Chosen, InOld, StageBSteps, TypeOK, Slots, Areas, Steps, ReadyInv,
    NoteUntilClean, Other, MarkValid, Mark, Fault, flash, otadata
<1>4. CASE Attempt
  BY <1>4 DEF IInv, TableInv, Chosen, InOld, StageBSteps, TypeOK, Slots, Areas, Steps, ReadyInv,
    NoteUntilClean, Other, Attempt, Stage, flash, otadata
<1>5. CASE CopyRefused
  BY <1>5 DEF IInv, TableInv, Chosen, InOld, StageBSteps, TypeOK, Slots, Areas, Steps, ReadyInv,
    NoteUntilClean, Other, CopyRefused, Step, flash, otadata
<1>6. CASE CopyBegins
  BY <1>6 DEF IInv, TableInv, Chosen, InOld, StageBSteps, TypeOK, Slots, Areas, Steps, ReadyInv,
    NoteUntilClean, Other, CopyBegins, Step, Write, flash, otadata
<1>7. CASE CopyEnds
  BY <1>7 DEF IInv, TableInv, Chosen, InOld, StageBSteps, TypeOK, Slots, Areas, Steps, ReadyInv,
    NoteUntilClean, Other, CopyEnds, Step, Write, flash, otadata
<1>8. CASE SelectCopy
  BY <1>8 DEF IInv, TableInv, Chosen, InOld, StageBSteps, TypeOK, Slots, Areas, Steps, ReadyInv,
    NoteUntilClean, Other, SelectCopy, Step, flash, otadata
<1>9. CASE EraseHome
  BY <1>9 DEF IInv, TableInv, Chosen, InOld, StageBSteps, TypeOK, Slots, Areas, Steps, ReadyInv,
    NoteUntilClean, Other, EraseHome, Step, flash, otadata
<1>10. CASE CopyHome
  BY <1>10 DEF IInv, TableInv, Chosen, InOld, StageBSteps, TypeOK, Slots, Areas, Steps,
    ReadyInv, NoteUntilClean, Other, CopyHome, Step, Fault, flash, otadata
<1>11. CASE VerifyHome
  BY <1>11 DEF IInv, TableInv, Chosen, InOld, StageBSteps, TypeOK, Slots, Areas, Steps,
    ReadyInv, NoteUntilClean, Other, VerifyHome, Step, Verifies, flash, otadata
<1>12. CASE EraseOtadata
  BY <1>12 DEF IInv, TableInv, Chosen, InOld, StageBSteps, TypeOK, Slots, Areas, Steps,
    ReadyInv, NoteUntilClean, Other, EraseOtadata, Step, flash, otadata
<1>13. CASE WriteOtadata
  BY <1>13 DEF IInv, TableInv, Chosen, InOld, StageBSteps, TypeOK, Slots, Areas, Steps,
    ReadyInv, NoteUntilClean, Other, WriteOtadata, Step, flash, otadata
<1>14. CASE ClearNvs
  BY <1>14 DEF IInv, TableInv, Chosen, InOld, StageBSteps, TypeOK, Slots, Areas, Steps,
    ReadyInv, NoteUntilClean, Other, ClearNvs, Step, flash, otadata
<1>15. CASE NoteDone
  BY <1>15 DEF IInv, TableInv, Chosen, InOld, StageBSteps, TypeOK, Slots, Areas, Steps,
    ReadyInv, NoteUntilClean, Other, NoteDone, Note, Step, Fault, flash, otadata
<1>16. CASE EraseTable
  BY <1>16 DEF IInv, TableInv, Chosen, InOld, StageBSteps, TypeOK, Slots, Areas, Steps,
    ReadyInv, NoteUntilClean, Other, EraseTable, Step, flash, otadata
<1>17. CASE WriteTable
  BY <1>17 DEF IInv, TableInv, Chosen, InOld, StageBSteps, TypeOK, Slots, Areas, Steps,
    ReadyInv, NoteUntilClean, Other, WriteTable, Step, flash, otadata
<1>18. CASE CheckTable
  BY <1>18 DEF IInv, TableInv, Chosen, InOld, StageBSteps, TypeOK, Slots, Areas, Steps,
    ReadyInv, NoteUntilClean, Other, CheckTable, Step, Fault, flash, otadata
<1>19. CASE Restart
  BY <1>19 DEF IInv, TableInv, Chosen, InOld, StageBSteps, TypeOK, Slots, Areas, Steps,
    ReadyInv, NoteUntilClean, Other, Restart, Step, flash, otadata
<1>20. CASE UpdateEnds
  BY <1>20 DEF IInv, TableInv, Chosen, InOld, StageBSteps, TypeOK, Slots, Areas, Steps,
    ReadyInv, NoteUntilClean, Other, UpdateEnds, Step, Write, flash, otadata
<1>21. CASE Finish
  BY <1>21 DEF IInv, TableInv, Chosen, InOld, StageBSteps, TypeOK, Slots, Areas, Steps,
    ReadyInv, NoteUntilClean, Other, Finish, Fault, flash, otadata
<1>22. CASE CleanCoredump
  BY <1>22 DEF IInv, TableInv, Chosen, InOld, StageBSteps, TypeOK, Slots, Areas, Steps,
    ReadyInv, NoteUntilClean, Other, CleanCoredump, Step, Fault, flash, otadata
<1>23. CASE ForgetNote
  BY <1>23 DEF IInv, TableInv, Chosen, InOld, StageBSteps, TypeOK, Slots, Areas, Steps,
    ReadyInv, NoteUntilClean, Other, ForgetNote, Step, flash, otadata
<1>24. CASE StepFails
  BY <1>24 DEF IInv, TableInv, Chosen, InOld, StageBSteps, TypeOK, Slots, Areas, Steps,
    ReadyInv, NoteUntilClean, Other, StepFails, flash, otadata
<1>25. CASE Reset
  BY <1>25 DEF IInv, TableInv, Chosen, InOld, StageBSteps, TypeOK, Slots, Areas, Steps,
    ReadyInv, NoteUntilClean, Other, Reset, Running, flash, otadata
<1>26. CASE PowerCut
  BY <1>26 DEF IInv, TableInv, Chosen, InOld, StageBSteps, TypeOK, Slots, Areas, Steps,
    ReadyInv, NoteUntilClean, Other, PowerCut, Running, PowerOn, flash, otadata
<1>27. CASE PowerCycle
  BY <1>27 DEF IInv, TableInv, Chosen, InOld, StageBSteps, TypeOK, Slots, Areas, Steps,
    ReadyInv, NoteUntilClean, Other, PowerCycle, PowerOn, flash, otadata
<1>28. CASE UpdateBegins
  BY <1>28 DEF IInv, TableInv, Chosen, InOld, StageBSteps, TypeOK, Slots, Areas, Steps,
    ReadyInv, NoteUntilClean, Other, UpdateBegins, Write, flash, otadata
<1>29. CASE UpdateFails
  BY <1>29 DEF IInv, TableInv, Chosen, InOld, StageBSteps, TypeOK, Slots, Areas, Steps,
    ReadyInv, NoteUntilClean, Other, UpdateFails, Step, Fault, flash, otadata
<1>30. CASE UNCHANGED vars
  BY <1>30 DEF IInv, TableInv, Chosen, InOld, StageBSteps, TypeOK, Slots, Areas, Steps,
    ReadyInv, NoteUntilClean, Other, Intact, vars, flash, otadata
<1>31. QED
  BY <1>1, <1>2, <1>3, <1>4, <1>5, <1>6, <1>7, <1>8, <1>9, <1>10, <1>11, <1>12, <1>13, <1>14,
    <1>15, <1>16, <1>17, <1>18, <1>19, <1>20, <1>21, <1>22, <1>23, <1>24, <1>25, <1>26, <1>27,
    <1>28, <1>29, <1>30 DEF Next, Goes, StageA, StageB, Switch

-----------------------------------------------------------------------------
LEMMA InitInvariant == ASSUME Init PROVE IInv
<1>1. TypeOK
  <2>1. Init => prepared \subseteq Areas
    BY DEF Init, Areas
  <2>2. Init => attempts \in 0 .. MAX_ATTEMPTS + 1 /\ cuts \in 0 .. MaxCuts
                /\ updates \in 0 .. MaxUpdates /\ faults \in 0 .. MaxFaults
    BY MigrateAssumption DEF Init
  <2>3. QED BY <2>1, <2>2 DEF Init, TypeOK, Slots
<1>2. TableInv /\ NoteUntilClean
  BY DEF Init, TableInv, NoteUntilClean, Chosen, InOld, StageBSteps
<1>3. SlotInv
  BY DEF Init, SlotInv, Intact, Chosen, InOld, StageBSteps, Slots
<1>4. ReadyInv
  BY DEF Init, ReadyInv, StageBSteps, Slots, Areas, Steps
<1>5. QED BY <1>1, <1>2, <1>3, <1>4 DEF IInv

LEMMA Invariant == Spec => []IInv
<1>1. Init => IInv
  BY InitInvariant
<1>2. IInv /\ [Next]_vars => IInv'
  BY TypeStep, TableStep, SlotStep, ReadyStep, NoteStep DEF IInv
<1>3. QED BY <1>1, <1>2, PTL DEF Spec

(* The variables keep their types, whatever the bounds. *)
THEOREM TypeCorrect == Spec => []TypeOK
BY Invariant, PTL DEF IInv

(* At any moment but in the write of the partition table a reset finds an  *)
(* image to boot, and never goes back to the previous firmware once this   *)
(* one has confirmed itself (bd_migrate.cpp:24, 379).                      *)
THEOREM AlwaysBoots == Spec => []BootsThis
<1>1. ASSUME IInv PROVE BootsThis
  <2>1. SUFFICES ASSUME table # "torn", "check" \notin failed
        PROVE  ~Unbootable /\ (begun /\ "mark" \notin failed => Image = "this")
    BY DEF BootsThis
  <2>2. CASE table = "new"
    BY <1>1, <2>1, <2>2 DEF IInv, ReadyInv, Unbootable, Image, Areas
  <2>3. CASE table = "old"
    <3>1. ~Unbootable
      BY <1>1, <2>3 DEF IInv, SlotInv, TypeOK, Unbootable
    <3>2. ASSUME begun, "mark" \notin failed PROVE Image = "this"
      BY <1>1, <2>3, <3>2, TwoSlots
      DEF IInv, SlotInv, TypeOK, Image, Pick, Good, Intact, RolledBack
    <3>3. QED BY <3>1, <3>2
  <2>4. QED BY <1>1, <2>1, <2>2, <2>3 DEF IInv, TypeOK
<1>2. QED BY <1>1, Invariant, PTL

(* The partition table is touched only when everything the new layout      *)
(* needs is in place (prepare_new_layout, bd_migrate.cpp:241).             *)
THEOREM TableIsLast == Spec => TableLast
<1>1. ASSUME IInv, [Next]_vars, table' # table PROVE Ready
  <2>1. EraseTable \/ WriteTable
    BY <1>1 DEF Next, Goes, StageA, StageB, Switch, Boot, BootsOld, BootsNew, Unbootable,
      RolledBack, Pick, Good, Intact, PreviousUpdates, MarkValid, Mark, Attempt, Stage,
      CopyRefused, CopyBegins, CopyEnds, SelectCopy, EraseHome, CopyHome, VerifyHome, Verifies,
      EraseOtadata, WriteOtadata, ClearNvs, NoteDone, Note, CheckTable, Restart, UpdateEnds,
      Finish, CleanCoredump, ForgetNote, StepFails, Reset, Running, PowerCut, PowerOn,
      PowerCycle, UpdateBegins, UpdateFails, Step, Write, vars, flash, otadata
  <2>2. QED BY <1>1, <2>1 DEF EraseTable, WriteTable, Step, IInv, ReadyInv, Ready, Steps
<1>2. IInv /\ [Next]_vars => [table' # table => Ready]_vars
  BY <1>1
<1>3. QED BY <1>2, Invariant, PTL DEF TableLast, Spec

(* In the new layout the bytes of the old slot are erased before the note  *)
(* about them is (finish_after_migration, bd_migrate.cpp:349).             *)
THEOREM NoteStays == Spec => []NoteUntilClean
BY Invariant, PTL DEF IInv
=============================================================================
