------------------------- MODULE SelfUpdate_proofs -------------------------
(***************************************************************************)
(* Proofs about SelfUpdate, for any versions, pieces, settings and faults. *)
(***************************************************************************)
EXTENDS SelfUpdate, TLAPS

(* There are two slots. *)
LEMMA TwoSlots ==
  ASSUME NEW s \in Slots
  PROVE  /\ Other(s) \in Slots /\ Other(s) # s /\ Other(Other(s)) = s
         /\ \A t \in Slots : t = s \/ t = Other(s)
BY DEF Slots, Other

(* What is done to an image makes an image. *)
LEMMA ImageOps ==
  ASSUME NEW image \in Images
  PROVE  /\ Erase(image) \in Images /\ Mounted(image) \in Images
         /\ Head(image) \in Content
         /\ \A p \in Nat, v \in 0 .. MaxVersion :
              Program(image, p, v) \in Images /\ Rewrite(image, p, v) \in Images
<1>1. 1 \in 1 .. Pieces
  BY UpdateAssumption
<1>2. 0 .. MaxVersion \subseteq Content /\ Erased \in Content /\ Junk \in Content /\ Empty \in Content
  BY UpdateAssumption DEF Content, Versions, Erased
<1>3. Erase(image) \in Images /\ Mounted(image) \in Images /\ Head(image) \in Content
  BY <1>1, <1>2 DEF Images, Erase, Blank, Mounted, Head
<1>4. ASSUME NEW p \in Nat, NEW v \in 0 .. MaxVersion
      PROVE  Program(image, p, v) \in Images /\ Rewrite(image, p, v) \in Images
  BY <1>2 DEF Images, Program, Rewrite
<1>5. QED BY <1>3, <1>4

LEMMA WholeHasVersion == ASSUME NEW image, Whole(image) PROVE Head(image) \in Versions
BY UpdateAssumption DEF Whole, Head, Image

-----------------------------------------------------------------------------
(* What a reset does: an image on trial is given up for the other one; a   *)
(* confirmed one runs again, unless a new one is whole and selected.       *)

LEMMA ConfirmedState ==
  ASSUME TypeOK
  PROVE  /\ Confirmed(st) \in [Slots -> {"none", "new", "pending", "valid", "aborted"}]
         /\ Confirmed(st)[running] = "valid"
         /\ Confirmed(st)[Other(running)] = st[Other(running)]
BY TwoSlots DEF TypeOK, Confirmed

GivesUp(states) ==
  /\ states[running] = "pending" /\ latest = running
  /\ running' = Other(running)
  /\ st'[running] = "aborted" /\ st'[Other(running)] = "valid"

Reruns(states) ==
  /\ states[running] = "valid" /\ running' = running
  /\ ~(st[latest] = "new" /\ Whole(slot[latest]))
  /\ st'[running] = "valid"
  /\ st'[Other(running)] \notin {"new", "valid"} \/ latest = running
  /\ st[Other(running)] = "aborted" => st'[Other(running)] = "aborted"

Tries(states) ==
  /\ states[running] = "valid" /\ running' = Other(running)
  /\ latest = Other(running) /\ st[latest] = "new" /\ Whole(slot[latest])
  /\ st'[Other(running)] = "pending" /\ st'[running] = "valid"

LEMMA BootCases ==
  ASSUME IInv, NEW states \in {st, Confirmed(st)}, Bootloader(states)
  PROVE  /\ st' \in [Slots -> {"none", "new", "pending", "valid", "aborted"}]
         /\ GivesUp(states) \/ Reruns(states) \/ Tries(states)
<1> DEFINE o == Other(running)
<1> DEFINE after == RolledBack(states)
<1> DEFINE pick == Selected(after)
<1> USE DEF IInv
<1>1. /\ running \in Slots /\ latest \in Slots /\ o \in Slots /\ o # running
      /\ Other(o) = running /\ \A t \in Slots : t = running \/ t = o
  BY TwoSlots DEF TypeOK
<1>2. /\ states \in [Slots -> {"none", "new", "pending", "valid", "aborted"}]
      /\ states[o] = st[o] /\ states[running] \in {"pending", "valid"}
      /\ states[running] = "pending" => states = st
  BY ConfirmedState DEF TypeOK, BootInv
<1>3. /\ after \in [Slots -> {"none", "new", "valid", "aborted"}]
      /\ \A s \in Slots : after[s] = IF states[s] = "pending" THEN "aborted" ELSE states[s]
  BY <1>2 DEF RolledBack
<1>4. pick \in Slots
  BY <1>1 DEF Selected
<1>5. /\ st' = [after EXCEPT ![pick] = IF @ = "new" THEN "pending" ELSE @]
      /\ running' = IF Whole(slot[pick]) THEN pick ELSE Other(pick)
  BY DEF Bootloader
<1>6. st' \in [Slots -> {"none", "new", "pending", "valid", "aborted"}]
  BY <1>3, <1>4, <1>5
<1> HIDE DEF o, after, pick
<1>7. CASE states[running] = "pending"
  <2>1. st[o] = "valid" /\ Whole(slot[o]) /\ latest = running
    BY <1>1, <1>2, <1>7 DEF FallbackKept, BootInv, o
  <2>2. pick = o
    BY <1>1, <1>3, <1>7, <2>1 DEF Selected, pick, o
  <2>3. after[o] = "valid" /\ after[running] = "aborted"
    BY <1>1, <1>2, <1>3, <1>7, <2>1
  <2>4. GivesUp(states)
    BY <1>1, <1>3, <1>5, <1>7, <2>1, <2>2, <2>3 DEF GivesUp, o
  <2>5. QED BY <1>6, <2>4
<1>8. CASE states[running] = "valid"
  <2>1. after[running] = "valid" /\ Whole(slot[running])
    BY <1>1, <1>3, <1>8 DEF FallbackKept
  <2>2. CASE latest = running
    <3>1. pick = running
      BY <2>1, <2>2 DEF Selected, pick
    <3>2. st'[running] = "valid" /\ running' = running /\ st'[o] = after[o]
      BY <1>1, <1>3, <1>5, <2>1, <3>1
    <3>3. st[latest] # "new"
      BY <2>2 DEF BootInv
    <3>4. Reruns(states)
      BY <1>1, <1>2, <1>3, <1>8, <2>2, <3>2, <3>3 DEF Reruns, o
    <3>5. QED BY <1>6, <3>4
  <2>3. CASE latest = o
    <3>1. st[o] # "valid" /\ after[o] # "valid"
      BY <1>1, <1>2, <1>3, <2>3 DEF BootInv
    <3>2. CASE after[o] # "new"
      <4>1. pick = running
        BY <1>1, <2>3, <3>1, <3>2 DEF Selected, pick, o
      <4>2. st'[running] = "valid" /\ running' = running /\ st'[o] = after[o]
        BY <1>1, <1>3, <1>5, <2>1, <4>1
      <4>3. st[o] # "new"
        BY <1>1, <1>2, <1>3, <3>2
      <4>4. Reruns(states)
        BY <1>1, <1>2, <1>3, <1>8, <2>3, <3>1, <3>2, <4>2, <4>3 DEF Reruns, o
      <4>5. QED BY <1>6, <4>4
    <3>3. CASE after[o] = "new"
      <4>1. pick = o
        BY <2>3, <3>3 DEF Selected, pick
      <4>2. st'[o] = "pending" /\ st'[running] = "valid" /\ st[o] = "new"
        BY <1>1, <1>2, <1>3, <1>5, <2>1, <3>3, <4>1
      <4>3. Tries(states) \/ Reruns(states)
        BY <1>1, <1>5, <1>8, <2>3, <4>1, <4>2 DEF Tries, Reruns, o
      <4>4. QED BY <1>6, <4>3
    <3>4. QED BY <3>2, <3>3
  <2>4. QED BY <1>1, <2>2, <2>3
<1>9. QED BY <1>2, <1>7, <1>8

LEMMA BootIInv ==
  ASSUME IInv, NEW states \in {st, Confirmed(st)}, Boot(states),
         uploads' \in Nat, changes' \in Nat, faults' \in Nat, dozed' \in BOOLEAN
  PROVE  IInv'
<1> USE DEF IInv
<1>1. /\ running \in Slots /\ Other(running) \in Slots /\ Other(running) # running
      /\ Other(Other(running)) = running
      /\ \A t \in Slots : t = running \/ t = Other(running)
  BY TwoSlots DEF TypeOK
<1>2. /\ Bootloader(states) /\ phase' = "start" /\ mounted' = FALSE /\ flag' = FALSE
      /\ net' = "idle" /\ offer' = 0 /\ npos' = 1
      /\ http' = "idle" /\ upload' = NoUpload /\ hpos' = 1
      /\ UNCHANGED <<slot, www, latest, channel>>
  BY DEF Boot, flash
<1>3. /\ st' \in [Slots -> {"none", "new", "pending", "valid", "aborted"}]
      /\ GivesUp(states) \/ Reruns(states) \/ Tries(states)
  BY <1>2, BootCases
<1>4. Ver(running) \in Versions
  BY WholeHasVersion DEF FallbackKept, Ver
<1>5. /\ burnt' \subseteq Versions
      /\ \/ states[running] = "pending" /\ kept' = {Ver(running)}
         \/ states[running] # "pending" /\ kept' = kept
  BY <1>4 DEF Boot, TypeOK
<1>6. trialUi' = (IF st'[running'] = "pending" /\ Head(www) \in Versions THEN {www} ELSE {})
  BY DEF Boot
<1>7. TypeOK'
  <2>1. running' \in Slots /\ kept' \subseteq Versions /\ trialUi' \subseteq Images
    BY <1>1, <1>3, <1>4, <1>5, <1>6 DEF GivesUp, Reruns, Tries, TypeOK
  <2>2. 1 \in 1 .. (Pieces + 1) /\ 0 \in 0 .. MaxVersion
    BY UpdateAssumption
  <2>3. QED BY <1>2, <1>3, <1>5, <2>1, <2>2 DEF TypeOK, NetPlaces
<1>8. FallbackKept'
  <2>1. states[running] = "pending" => st[running] = "pending"
    BY ConfirmedState
  <2>2. CASE GivesUp(states)
    BY <1>1, <1>2, <2>1, <2>2 DEF GivesUp, FallbackKept
  <2>3. CASE Reruns(states)
    BY <1>2, <2>3 DEF Reruns, FallbackKept
  <2>4. CASE Tries(states)
    BY <1>1, <1>2, <2>4 DEF Tries, FallbackKept
  <2>5. QED BY <1>3, <2>2, <2>3, <2>4
<1>9. BootInv'
  BY <1>1, <1>2, <1>3 DEF GivesUp, Reruns, Tries, BootInv, TypeOK
<1>10. KeptInv'
  <2>1. SUFFICES ASSUME NEW v \in kept' PROVE \E s \in Slots : st'[s] = "aborted" /\ Ver(s) = v
    BY <1>2 DEF KeptInv, WasRolledBack, Ver
  <2>2. CASE GivesUp(states)
    BY <1>1, <1>5, <2>1, <2>2 DEF GivesUp
  <2>3. CASE Reruns(states) \/ Tries(states)
    <3>1. v \in kept /\ WasRolledBack(v)
      BY <1>5, <2>1, <2>3 DEF Reruns, Tries, KeptInv
    <3>2. st[Other(running)] = "aborted" /\ Ver(Other(running)) = v
      BY <1>1, <3>1 DEF WasRolledBack, BootInv
    <3>3. QED BY <1>1, <2>3, <3>2 DEF Reruns, Tries
  <2>4. QED BY <1>3, <2>2, <2>3
<1>11. TrialInv'
  BY <1>2, <1>6 DEF TrialInv
<1>12. QED BY <1>7, <1>8, <1>9, <1>10, <1>11

-----------------------------------------------------------------------------
(* What any other step does to the slots: it leaves them alone, confirms   *)
(* the running image, or changes the other one after that.                 *)

Quiet == UNCHANGED <<slot, st, latest, running>>
Confirms == UNCHANGED <<slot, latest, running>> /\ st' = Confirmed(st)
Clears ==
  /\ UNCHANGED <<latest, running>>
  /\ st' \in Opened(Other(running), Confirmed(st))
  /\ slot' \in {slot, [slot EXCEPT ![Other(running)] = Blank]}
Writes ==
  /\ UNCHANGED <<st, latest, running>>
  /\ \E p \in Nat, v \in 0 .. MaxVersion, image \in Images :
       /\ image = slot[Other(running)]
       /\ slot' \in {[slot EXCEPT ![Other(running)] = Program(image, p, v)],
                     [slot EXCEPT ![Other(running)] = Rewrite(image, p, v)]}
  /\ st[running] = "valid"
Selects ==
  /\ UNCHANGED <<slot, running>> /\ st[running] = "valid"
  /\ Select(Other(running)) /\ Whole(slot[Other(running)])

Boots == \E states \in {st, Confirmed(st)} :
  Boot(states) /\ <<uploads', changes', faults'>> \in Nat \X Nat \X Nat /\ dozed' \in BOOLEAN

LEMMA BootActions ==
  ASSUME IInv,
         LowBattery \/ DeepSleep \/ StartFails \/ Reset \/ InstallRestarts \/ UploadRestarts
  PROVE  Boots
<1> USE DEF IInv, TypeOK, bounds, Fault
<1>1. CASE LowBattery \/ DeepSleep
  <2>1. Boot(Confirmed(st)) /\ UNCHANGED <<uploads, changes>> /\ faults' = faults + 1
    BY <1>1 DEF LowBattery, DeepSleep
  <2>2. dozed' \in BOOLEAN
    BY <1>1 DEF LowBattery, DeepSleep
  <2>3. QED BY <2>1, <2>2 DEF Boots
<1>2. CASE StartFails \/ Reset \/ InstallRestarts \/ UploadRestarts
  BY <1>2 DEF StartFails, Reset, InstallRestarts, UploadRestarts, Boots
<1>3. QED BY <1>1, <1>2

LEMMA Effects ==
  ASSUME IInv, [Next]_vars
  PROVE  Quiet \/ Confirms \/ Clears \/ Writes \/ Selects \/ Boots
<1> USE DEF IInv, TypeOK, flash, otadata, netVars, httpVars, bounds, ghosts, Fault, NextSlot
<1>o. Other(running) \in Slots /\ slot[Other(running)] \in Images /\ Erase(slot[Other(running)]) = Blank
  BY TwoSlots DEF Erase
<1>c. st[running] = "valid" => Confirmed(st) = st
  BY DEF Confirmed
<1>1. CASE LowBattery \/ DeepSleep \/ StartFails \/ Reset \/ InstallRestarts \/ UploadRestarts
  BY <1>1, BootActions
<1>3. CASE Start \/ CheckBegins \/ FetchManifest \/ FetchFails \/ SyncSkips \/ SyncStarts
  BY <1>3 DEF Start, CheckBegins, FetchManifest, FetchFails, SyncSkips, SyncStarts, Quiet
<1>4. CASE UiErase \/ UiWrite \/ UiDone \/ UiFails \/ NothingToInstall
  BY <1>4 DEF UiErase, UiWrite, UiDone, UiFails, NothingToInstall, Quiet
<1>5. CASE Confirm \/ Install
  BY <1>5 DEF Confirm, Install, Confirms
<1>6. CASE InstallOpens
  BY <1>6, <1>c DEF InstallOpens, Clears, BootInv
<1>7. CASE InstallWrites
  <2>1. npos \in Nat /\ offer \in 0 .. MaxVersion /\ st[running] = "valid"
    BY <1>7 DEF InstallWrites, BootInv
  <2>2. slot' = [slot EXCEPT ![Other(running)] = Rewrite(slot[Other(running)], npos, offer)]
    BY <1>7 DEF InstallWrites
  <2>3. UNCHANGED <<st, latest, running>>
    BY <1>7 DEF InstallWrites
  <2>4. QED BY <1>o, <2>1, <2>2, <2>3 DEF Writes
<1>8. CASE InstallFinishes
  BY <1>8 DEF InstallFinishes, Selects, BootInv, Checks
<1>9. CASE InstallRejected \/ InstallFails
  BY <1>9 DEF InstallRejected, InstallFails, Quiet
<1>10. ASSUME NEW kind \in {"ui", "firmware"}, NEW v \in Versions, UploadBegins(kind, v) PROVE Quiet
  BY <1>10 DEF UploadBegins, Quiet
<1>11. CASE UploadOpensUi \/ UploadTailLost \/ UploadFinishesUi \/ UploadFails
  BY <1>11 DEF UploadOpensUi, UploadTailLost, UploadFinishesUi, UploadFails, Quiet, Confirms
<1>12. CASE UploadOpensFirmware
  BY <1>12, <1>o DEF UploadOpensFirmware, Clears
<1>13. CASE UploadWrites
  <2>1. upload.version \in 0 .. MaxVersion /\ hpos \in Nat
    BY UpdateAssumption DEF NoUpload, Versions
  <2>2. UNCHANGED <<st, latest, running>>
    BY <1>13 DEF UploadWrites
  <2>3. CASE upload.kind = "ui"
    BY <1>13, <2>3 DEF UploadWrites, Quiet
  <2>4. CASE upload.kind = "firmware"
    <3>1. slot' = [slot EXCEPT ![Other(running)] =
                     Program(slot[Other(running)], hpos, upload.version)]
      BY <1>13, <2>4 DEF UploadWrites
    <3>2. st[running] = "valid"
      BY <1>13, <2>4 DEF UploadWrites, BootInv
    <3>3. QED BY <1>o, <2>1, <2>2, <3>1, <3>2 DEF Writes
  <2>5. QED BY <1>13, <2>3, <2>4 DEF UploadWrites
<1>14. CASE UploadFinishesFirmware
  BY <1>14 DEF UploadFinishesFirmware, Selects, Quiet, BootInv, Checks
<1>15. ASSUME NEW v \in Versions, Publish(v) PROVE Quiet
  BY <1>15 DEF Publish, Quiet
<1>16. CASE UNCHANGED vars
  BY <1>16 DEF vars, Quiet
<1>17. QED
  BY <1>1, <1>3, <1>4, <1>5, <1>6, <1>7, <1>8, <1>9, <1>10, <1>11, <1>12, <1>13, <1>14,
     <1>15, <1>16 DEF Next, Startup, NetStep, HttpStep

(* These effects keep the fallback, and the running image stays itself. *)
LEMMA EffectsKeep ==
  ASSUME IInv, Quiet \/ Confirms \/ Clears \/ Writes \/ Selects
  PROVE  /\ slot' \in [Slots -> Images] /\ latest' \in Slots /\ running' = running
         /\ st' \in [Slots -> {"none", "new", "pending", "valid", "aborted"}]
         /\ slot'[running] = slot[running] /\ st'[running] \in {st[running], "valid"}
         /\ st'[running] = "pending" => Quiet
         /\ latest' # running => st'[latest'] # "valid"
<1> USE DEF IInv
<1>1. /\ running \in Slots /\ latest \in Slots /\ Other(running) \in Slots
      /\ Other(running) # running
      /\ \A t \in Slots : t = running \/ t = Other(running)
      /\ slot \in [Slots -> Images]
      /\ st \in [Slots -> {"none", "new", "pending", "valid", "aborted"}]
  BY TwoSlots DEF TypeOK
<1>2. /\ Confirmed(st) \in [Slots -> {"none", "new", "pending", "valid", "aborted"}]
      /\ Confirmed(st)[running] = "valid"
      /\ Confirmed(st)[Other(running)] = st[Other(running)]
  BY ConfirmedState
<1>3. CASE Quiet
  BY <1>1, <1>3 DEF Quiet, BootInv
<1>4. CASE Confirms
  BY <1>1, <1>2, <1>4 DEF Confirms, BootInv
<1>5. CASE Clears
  <2>1. Blank \in Images
    BY ImageOps, <1>1 DEF Erase
  <2>2. slot' \in [Slots -> Images] /\ slot'[running] = slot[running]
    BY <1>1, <1>5, <2>1 DEF Clears
  <2>3. /\ st' \in [Slots -> {"none", "new", "pending", "valid", "aborted"}]
        /\ st'[running] = "valid" /\ st'[Other(running)] \in {st[Other(running)], "none"}
    BY <1>1, <1>2, <1>5 DEF Clears, Opened
  <2>4. QED BY <1>1, <1>5, <2>2, <2>3 DEF Clears, BootInv
<1>6. CASE Writes
  <2>1. PICK image \in Images :
          slot' = [slot EXCEPT ![Other(running)] = image]
    <3>1. PICK p \in Nat, v \in 0 .. MaxVersion :
            slot' \in {[slot EXCEPT ![Other(running)] = Program(slot[Other(running)], p, v)],
                      [slot EXCEPT ![Other(running)] = Rewrite(slot[Other(running)], p, v)]}
      BY <1>6 DEF Writes
    <3>2. QED BY <1>1, <3>1, ImageOps
  <2>2. slot' \in [Slots -> Images] /\ slot'[running] = slot[running]
    BY <1>1, <2>1
  <2>3. QED BY <1>1, <1>6, <2>2 DEF Writes, BootInv
<1>7. CASE Selects
  BY <1>1, <1>7 DEF Selects, Select
<1>8. QED BY <1>3, <1>4, <1>5, <1>6, <1>7

LEMMA FallbackStep == ASSUME IInv, Quiet \/ Confirms \/ Clears \/ Writes \/ Selects PROVE FallbackKept'
<1>1. CASE st'[running] = "pending"
  BY <1>1, EffectsKeep DEF Quiet, IInv, FallbackKept
<1>2. CASE st'[running] # "pending"
  BY <1>2, EffectsKeep DEF IInv, FallbackKept
<1>3. QED BY <1>1, <1>2

Working == Quiet \/ Confirms \/ Clears \/ Writes \/ Selects

-----------------------------------------------------------------------------
(* Types, for the steps that are no reset.                                 *)

LEMMA TypeStep == ASSUME IInv, [Next]_vars, Working PROVE TypeOK'
<1> USE DEF IInv
<1>s. /\ slot' \in [Slots -> Images] /\ latest' \in Slots /\ running' \in Slots
      /\ st' \in [Slots -> {"none", "new", "pending", "valid", "aborted"}]
  BY EffectsKeep DEF Working, TypeOK
<1>n. /\ 1 \in 1 .. (Pieces + 1) /\ 0 \in 0 .. MaxVersion
      /\ \A p \in 1 .. (Pieces + 1) : p \in Nat /\ (ToWrite(p) => p + 1 \in 1 .. (Pieces + 1))
      /\ Pieces \in Nat
  BY UpdateAssumption DEF ToWrite
<1>w. /\ Erase(www) \in Images /\ Mounted(www) \in Images
      /\ \A p \in Nat, v \in 0 .. MaxVersion : Program(www, p, v) \in Images
  BY ImageOps DEF TypeOK
<1>u. upload.version \in 0 .. MaxVersion
  BY UpdateAssumption DEF TypeOK, NoUpload, Versions
<1>v. channel \in 0 .. MaxVersion
  BY DEF TypeOK, Versions
<1>b. LowBattery \/ DeepSleep \/ StartFails \/ Reset \/ InstallRestarts \/ UploadRestarts => Boots
  BY BootActions
<1> USE <1>s DEF TypeOK, NetPlaces, flash, otadata, netVars, httpVars, bounds, ghosts, Fault, Mount,
        NetIdle, InstallEnds, UploadEnds
<1>1. CASE LowBattery \/ DeepSleep \/ StartFails \/ Reset \/ InstallRestarts \/ UploadRestarts
  BY <1>1, <1>b, BootIInv DEF Boots
<1>3. CASE Start
  BY <1>3, <1>w DEF Start
<1>4. CASE Confirm
  BY <1>4 DEF Confirm
<1>5. CASE CheckBegins \/ FetchFails \/ SyncSkips \/ SyncStarts
  BY <1>5 DEF CheckBegins, FetchFails, SyncSkips, SyncStarts
<1>6. CASE FetchManifest
  BY <1>6, <1>v DEF FetchManifest
<1>7. CASE UiErase
  BY <1>7, <1>w DEF UiErase
<1>8. CASE UiWrite
  BY <1>8, <1>n, <1>w DEF UiWrite
<1>9. CASE UiDone \/ UiFails
  <2>1. mounted' \in BOOLEAN /\ www' \in Images /\ net' = "decide" /\ npos' = 1
    BY <1>9, <1>w DEF UiDone, UiFails
  <2>2. faults' \in Nat /\ UNCHANGED <<phase, flag, offer, http, upload, hpos, channel, uploads,
                                      changes, burnt, kept, trialUi, dozed>>
    BY <1>9 DEF UiDone, UiFails
  <2>3. QED BY <1>n, <2>1, <2>2
<1>10. CASE NothingToInstall \/ InstallRejected \/ InstallFails
  <2>1. flag' \in BOOLEAN /\ NetIdle /\ faults' \in Nat
    <3>1. CASE NothingToInstall
      BY <3>1 DEF NothingToInstall
    <3>2. CASE InstallRejected
      BY <3>2 DEF InstallRejected
    <3>3. CASE InstallFails
      <4>1. flag' = FALSE /\ net' = "idle" /\ offer' = 0 /\ npos' = 1 /\ faults' = faults + 1
        BY <3>3 DEF InstallFails
      <4>2. faults' \in Nat
        BY <4>1
      <4>3. flag' \in BOOLEAN
        BY <4>1
      <4>4. QED BY <4>1, <4>2, <4>3
    <3>4. QED BY <1>10, <3>1, <3>2, <3>3
  <2>2. UNCHANGED <<www, phase, mounted, http, upload, hpos, channel, uploads, changes, burnt,
                    kept, trialUi, dozed>>
    BY <1>10 DEF NothingToInstall, InstallRejected, InstallFails
  <2>3. QED BY <1>n, <2>1, <2>2
<1>11. CASE Install \/ InstallOpens
  BY <1>11 DEF Install, InstallOpens
<1>12. CASE InstallWrites
  BY <1>12, <1>n DEF InstallWrites
<1>13. CASE InstallFinishes
  BY <1>13, <1>n DEF InstallFinishes
<1>14. ASSUME NEW kind \in {"ui", "firmware"}, NEW v \in Versions, UploadBegins(kind, v) PROVE TypeOK'
  BY <1>14 DEF UploadBegins
<1>15. CASE UploadOpensUi \/ UploadOpensFirmware
  BY <1>15, <1>w DEF UploadOpensUi, UploadOpensFirmware
<1>16. CASE UploadWrites
  BY <1>16, <1>n, <1>w, <1>u DEF UploadWrites
<1>17. CASE UploadTailLost
  BY <1>17, <1>n DEF UploadTailLost
<1>18. CASE UploadFinishesUi \/ UploadFails
  <2>1. mounted' \in BOOLEAN /\ www' \in Images /\ UploadEnds /\ faults' \in Nat
    <3>1. CASE UploadFinishesUi
      BY <3>1, <1>w DEF UploadFinishesUi
    <3>2. CASE UploadFails
      <4>1. UploadEnds /\ faults' = faults + 1
        BY <3>2 DEF UploadFails
      <4>2. mounted' \in BOOLEAN /\ www' \in Images
        BY <3>2, <1>w DEF UploadFails
      <4>3. faults \in Nat
        OBVIOUS
      <4>4. QED BY <4>1, <4>2, <4>3
    <3>3. QED BY <1>18, <3>1, <3>2
  <2>2. UNCHANGED <<phase, net, offer, npos, channel, uploads, changes, burnt, kept, trialUi, dozed>>
    BY <1>18 DEF UploadFinishesUi, UploadFails
  <2>3. QED BY <1>n, <2>1, <2>2
<1>19. CASE UploadFinishesFirmware
  BY <1>19, <1>n DEF UploadFinishesFirmware
<1>20. ASSUME NEW v \in Versions, Publish(v) PROVE TypeOK'
  BY <1>20 DEF Publish
<1>21. CASE UNCHANGED vars
  BY <1>21 DEF vars
<1>22. QED
  BY <1>1, <1>3, <1>4, <1>5, <1>6, <1>7, <1>8, <1>9, <1>10, <1>11, <1>12, <1>13, <1>14,
     <1>15, <1>16, <1>17, <1>18, <1>19, <1>20, <1>21 DEF Next, Startup, NetStep, HttpStep

-----------------------------------------------------------------------------
(* The rest of the invariant, for the same steps.                          *)

(* An update goes on only while the running image stays confirmed. *)
LEMMA BootInvStep == ASSUME IInv, [Next]_vars, Working PROVE BootInv'
<1> USE DEF flash, otadata, netVars, httpVars, bounds, ghosts, Fault, NetIdle, UploadEnds
<1>e. /\ running' = running /\ st'[running'] \in {st[running], "valid"}
      /\ latest' # running' => st'[latest'] # "valid"
  BY EffectsKeep DEF Working
<1>i. BootInv
  BY DEF IInv
<1>1. CASE LowBattery \/ DeepSleep \/ StartFails \/ Reset \/ InstallRestarts \/ UploadRestarts
  BY <1>1, BootActions, BootIInv DEF Boots, IInv
<1>2. CASE Start \/ Confirm \/ CheckBegins \/ FetchManifest \/ FetchFails \/ SyncSkips \/ SyncStarts
  BY <1>2, <1>e, <1>i DEF Start, Confirm, CheckBegins, FetchManifest, FetchFails, SyncSkips,
     SyncStarts, BootInv
<1>3. CASE UiErase \/ UiWrite \/ UiDone \/ UiFails \/ NothingToInstall
  BY <1>3, <1>e, <1>i DEF UiErase, UiWrite, UiDone, UiFails, NothingToInstall, BootInv
<1>4. CASE Install
  BY <1>4, <1>e, <1>i, ConfirmedState DEF Install, BootInv, IInv
<1>5. CASE InstallOpens \/ InstallWrites \/ InstallFinishes
  BY <1>5, <1>e, <1>i DEF InstallOpens, InstallWrites, InstallFinishes, BootInv
<1>6. CASE InstallRejected \/ InstallFails
  BY <1>6, <1>e, <1>i DEF InstallRejected, InstallFails, InstallEnds, BootInv
<1>7. ASSUME NEW kind \in {"ui", "firmware"}, NEW v \in Versions, UploadBegins(kind, v) PROVE BootInv'
  BY <1>7, <1>e, <1>i DEF UploadBegins, BootInv
<1>8. CASE UploadOpensUi \/ UploadWrites \/ UploadTailLost
  BY <1>8, <1>e, <1>i DEF UploadOpensUi, UploadWrites, UploadTailLost, BootInv
<1>9. CASE UploadOpensFirmware
  <2>1. st'[running'] = "valid"
    BY <1>9, <1>e, TwoSlots DEF UploadOpensFirmware, Opened, Confirmed, NextSlot, IInv, TypeOK
  <2>2. QED BY <1>9, <1>e, <1>i, <2>1 DEF UploadOpensFirmware, BootInv
<1>10. CASE UploadFinishesUi \/ UploadFails \/ UploadFinishesFirmware
  BY <1>10, <1>e, <1>i DEF UploadFinishesUi, UploadFails, UploadFinishesFirmware, BootInv
<1>11. ASSUME NEW v \in Versions, Publish(v) PROVE BootInv'
  BY <1>11, <1>e, <1>i DEF Publish, BootInv
<1>12. CASE UNCHANGED vars
  BY <1>12, <1>i DEF vars, BootInv
<1>13. QED
  BY <1>1, <1>2, <1>3, <1>4, <1>5, <1>6, <1>7, <1>8, <1>9, <1>10, <1>11, <1>12
     DEF Next, Startup, NetStep, HttpStep

(* Only an update that has begun touches the image that was rolled back. *)
LEMMA KeptStep == ASSUME IInv, [Next]_vars, Working PROVE KeptInv'
<1> USE DEF flash, otadata, netVars, httpVars, bounds, ghosts, Fault, NetIdle, UploadEnds, NextSlot
<1>r. /\ running \in Slots /\ Other(running) \in Slots /\ Other(running) # running
      /\ \A s \in Slots : s = running \/ s = Other(running)
      /\ st \in [Slots -> {"none", "new", "pending", "valid", "aborted"}]
  BY TwoSlots DEF IInv, TypeOK
<1>s. ASSUME NEW v, WasRolledBack(v), UNCHANGED slot, st' = st \/ st' = Confirmed(st)
      PROVE  WasRolledBack(v)'
  BY <1>r, <1>s DEF WasRolledBack, Confirmed, Ver, IInv, BootInv
<1>i. KeptInv
  BY DEF IInv
<1>1. CASE LowBattery \/ DeepSleep \/ StartFails \/ Reset \/ InstallRestarts \/ UploadRestarts
  BY <1>1, BootActions, BootIInv DEF Boots, IInv
<1>2. CASE Start \/ Confirm \/ CheckBegins \/ FetchManifest \/ FetchFails \/ SyncSkips \/ SyncStarts
  BY <1>2, <1>s, <1>i DEF Start, Confirm, CheckBegins, FetchManifest, FetchFails, SyncSkips,
     SyncStarts, KeptInv
<1>3. CASE UiErase \/ UiWrite \/ UiDone \/ UiFails \/ NothingToInstall
  BY <1>3, <1>s, <1>i DEF UiErase, UiWrite, UiDone, UiFails, NothingToInstall, KeptInv
<1>4. CASE Install
  BY <1>4, <1>s, <1>i DEF Install, KeptInv
<1>5. CASE InstallOpens \/ UploadOpensFirmware
  BY <1>5 DEF InstallOpens, UploadOpensFirmware, KeptInv
<1>6. CASE InstallWrites \/ InstallFinishes \/ InstallRejected
  BY <1>6, <1>s, <1>i DEF InstallWrites, InstallFinishes, InstallRejected, InstallEnds, KeptInv
<1>7. CASE InstallFails
  BY <1>7, <1>s, <1>i DEF InstallFails, InstallEnds, KeptInv
<1>8. ASSUME NEW kind \in {"ui", "firmware"}, NEW v \in Versions, UploadBegins(kind, v) PROVE KeptInv'
  BY <1>8, <1>s, <1>i DEF UploadBegins, KeptInv
<1>9. CASE UploadOpensUi
  BY <1>9, <1>s, <1>i DEF UploadOpensUi, KeptInv
<1>10. CASE UploadWrites
  BY <1>10, <1>s, <1>i DEF UploadWrites, KeptInv
<1>11. CASE UploadTailLost \/ UploadFinishesUi \/ UploadFails
  BY <1>11, <1>s, <1>i DEF UploadTailLost, UploadFinishesUi, UploadFails, KeptInv
<1>12. CASE UploadFinishesFirmware
  <2>1. CASE upload.kind = "firmware"
    BY <1>12, <2>1, <1>i DEF UploadFinishesFirmware, KeptInv
  <2>2. QED BY <1>12, <2>1 DEF UploadFinishesFirmware
<1>13. ASSUME NEW v \in Versions, Publish(v) PROVE KeptInv'
  BY <1>13, <1>s, <1>i DEF Publish, KeptInv
<1>14. CASE UNCHANGED vars
  BY <1>14, <1>s, <1>i DEF vars, KeptInv
<1>15. QED
  BY <1>1, <1>2, <1>3, <1>4, <1>5, <1>6, <1>7, <1>8, <1>9, <1>10, <1>11, <1>12, <1>13, <1>14
     DEF Next, Startup, NetStep, HttpStep

(* A firmware on trial finds its UI mounted, and so leaves it alone. *)
LEMMA TrialStep == ASSUME IInv, [Next]_vars, Working PROVE TrialInv'
<1> USE DEF flash, otadata, netVars, httpVars, bounds, ghosts, Fault, NetIdle, UploadEnds, Mount
<1>e. running' = running /\ (st'[running'] = "pending" => st[running] = "pending")
  BY EffectsKeep DEF Working
<1>i. TrialInv
  BY DEF IInv
<1>f. st[running] = "pending" /\ trialUi # {} => Mounted(www) = www
  BY UpdateAssumption, <1>i DEF TrialInv, Mounted, Versions, Erased, Junk
<1>1. CASE LowBattery \/ DeepSleep \/ StartFails \/ Reset \/ InstallRestarts \/ UploadRestarts
  BY <1>1, BootActions, BootIInv DEF Boots, IInv
<1>2. CASE Start
  BY <1>2, <1>e, <1>f, <1>i DEF Start, TrialInv
<1>3. CASE Confirm \/ CheckBegins \/ FetchManifest \/ FetchFails \/ SyncSkips
  BY <1>3, <1>e, <1>i DEF Confirm, CheckBegins, FetchManifest, FetchFails, SyncSkips, TrialInv
<1>4. CASE SyncStarts
  <2>1. phase = "up"
    BY <1>4, <1>i DEF SyncStarts, TrialInv, IInv, TypeOK
  <2>2. ~(st[running] = "pending" /\ trialUi # {})
    BY <1>4, <1>i, <2>1 DEF SyncStarts, TrialInv, UiStays, HasWebUi, RunningConfirmed
  <2>3. QED BY <1>4, <1>e, <1>i, <2>2 DEF SyncStarts, TrialInv
<1>5. CASE UiErase \/ UiWrite
  BY <1>5, <1>e, <1>i DEF UiErase, UiWrite, TrialInv
<1>6. CASE UiDone \/ UiFails
  BY <1>6, <1>e, <1>f, <1>i DEF UiDone, UiFails, TrialInv
<1>7. CASE NothingToInstall \/ Install \/ InstallOpens \/ InstallWrites \/ InstallFinishes
  BY <1>7, <1>e, <1>i DEF NothingToInstall, Install, InstallOpens, InstallWrites, InstallFinishes,
     TrialInv
<1>8. CASE InstallRejected \/ InstallFails
  BY <1>8, <1>e, <1>i DEF InstallRejected, InstallFails, InstallEnds, TrialInv
<1>9. ASSUME NEW kind \in {"ui", "firmware"}, NEW v \in Versions, UploadBegins(kind, v) PROVE TrialInv'
  BY <1>9, <1>e, <1>i DEF UploadBegins, TrialInv
<1>10. CASE UploadOpensUi
  BY <1>10, <1>e, <1>i DEF UploadOpensUi, TrialInv
<1>11. CASE UploadOpensFirmware
  BY <1>11, <1>e, <1>i DEF UploadOpensFirmware, TrialInv
<1>12. CASE UploadWrites \/ UploadTailLost
  BY <1>12, <1>e, <1>i DEF UploadWrites, UploadTailLost, TrialInv
<1>13. CASE UploadFinishesUi \/ UploadFails
  BY <1>13, <1>e, <1>f, <1>i DEF UploadFinishesUi, UploadFails, TrialInv
<1>14. CASE UploadFinishesFirmware
  BY <1>14, <1>e, <1>i DEF UploadFinishesFirmware, TrialInv
<1>15. ASSUME NEW v \in Versions, Publish(v) PROVE TrialInv'
  BY <1>15, <1>e, <1>i DEF Publish, TrialInv
<1>16. CASE UNCHANGED vars
  BY <1>16, <1>i DEF vars, TrialInv
<1>17. QED
  BY <1>1, <1>2, <1>3, <1>4, <1>5, <1>6, <1>7, <1>8, <1>9, <1>10, <1>11, <1>12, <1>13, <1>14,
     <1>15, <1>16 DEF Next, Startup, NetStep, HttpStep

-----------------------------------------------------------------------------
(* The theorems.                                                           *)

LEMMA InitIInv == ASSUME Init PROVE IInv
<1> USE DEF Init
<1>1. /\ 0 \in Slots /\ Other(0) = 1 /\ 1 \in Versions
      /\ 1 \in 1 .. (Pieces + 1) /\ 0 \in 0 .. MaxVersion
      /\ Blank \in Images /\ Image(1) \in Images
  BY UpdateAssumption DEF Slots, Other, Versions, Blank, Image, Images, Content
<1>2. slot[0] = Image(1) /\ st[0] = "valid"
  BY <1>1
<1>3. TypeOK
  BY <1>1 DEF TypeOK, NetPlaces
<1>4. FallbackKept /\ BootInv /\ KeptInv /\ TrialInv
  BY <1>1, <1>2 DEF FallbackKept, BootInv, KeptInv, TrialInv, Whole
<1>5. QED BY <1>3, <1>4 DEF IInv

LEMMA StepIInv == ASSUME IInv, [Next]_vars PROVE IInv'
<1>1. CASE Boots
  BY <1>1, BootIInv DEF Boots
<1>2. CASE Working
  BY <1>2, TypeStep, FallbackStep, BootInvStep, KeptStep, TrialStep DEF Working, IInv
<1>3. QED BY Effects, <1>1, <1>2 DEF Working

(* The inductive invariant holds in every run. *)
THEOREM Invariance == Spec => []IInv
BY InitIInv, StepIInv, PTL DEF Spec

(* Types, for any number of versions and pieces. *)
THEOREM TypeCorrect == Spec => []TypeOK
<1>1. IInv => TypeOK
  BY DEF IInv
<1>2. QED BY <1>1, Invariance, PTL

(* Neither of two concurrent updates, nor a reset between any two steps,   *)
(* takes an unconfirmed firmware its fallback or spoils the one running.   *)
THEOREM FallbackIsKept == Spec => []FallbackKept
<1>1. IInv => FallbackKept
  BY DEF IInv
<1>2. QED BY <1>1, Invariance, PTL

(* An update on trial keeps the web UI it found. *)
THEOREM UiOnTrialIsKept == Spec => []TrialKeepsUi
<1>1. IInv => TrialKeepsUi
  BY DEF IInv, TrialInv, TrialKeepsUi
<1>2. QED BY <1>1, Invariance, PTL

(* The check does not install the version that was rolled back last, as    *)
(* long as that is in its slot.                                            *)
THEOREM RolledBackIsRefused == Spec => RefusesRolledBack
<1>1. ASSUME IInv, [Next]_vars, net = "decide", net' = "open" PROVE ~WasRolledBack(offer)
  <2>1. CASE Boots
    BY <1>1, <2>1 DEF Boots, Boot
  <2>2. CASE Working
    <3> USE DEF flash, otadata, netVars, httpVars, bounds, ghosts, NetIdle, InstallEnds
    <3>1. CASE Install
      BY <3>1 DEF Install
    <3>2. CASE NetStep /\ ~Install
      BY <1>1, <3>2 DEF NetStep, FetchManifest, FetchFails, SyncSkips, SyncStarts, UiErase,
         UiWrite, UiDone, UiFails, NothingToInstall, InstallOpens, InstallWrites,
         InstallFinishes, InstallRejected, InstallFails, InstallRestarts, Boot
    <3>3. CASE Startup \/ Reset \/ Confirm \/ DeepSleep \/ CheckBegins
      BY <1>1, <3>3 DEF Startup, LowBattery, StartFails, Start, Reset, Confirm, DeepSleep,
         CheckBegins, Boot
    <3>4. CASE HttpStep
      BY <1>1, <3>4 DEF HttpStep, UploadOpensUi, UploadOpensFirmware, UploadWrites, UploadTailLost,
         UploadFinishesUi, UploadFinishesFirmware, UploadFails, UploadRestarts, Boot
    <3>5. CASE \E kind \in {"ui", "firmware"}, v \in Versions : UploadBegins(kind, v)
      BY <1>1, <3>5 DEF UploadBegins
    <3>6. CASE \E v \in Versions : Publish(v)
      BY <1>1, <3>6 DEF Publish
    <3>7. CASE UNCHANGED vars
      BY <1>1, <3>7 DEF vars
    <3>8. QED BY <1>1, <3>1, <3>2, <3>3, <3>4, <3>5, <3>6, <3>7 DEF Next
  <2>3. QED BY <1>1, <2>1, <2>2, Effects DEF Working
<1>2. ASSUME IInv, [Next]_vars
      PROVE  [net = "decide" /\ net' = "open" => offer \notin kept]_vars
  BY <1>1, <1>2 DEF IInv, KeptInv
<1>3. QED BY <1>2, Invariance, PTL DEF Spec, RefusesRolledBack

-----------------------------------------------------------------------------
(* SelfUpdate implements TrialBoot.                                        *)

trialVars == <<Ver(running), Home, Trial>>

LEMMA BootIsRestart ==
  ASSUME IInv, NEW states \in {st, Confirmed(st)}, Boot(states)
  PROVE  Trials!Restarted
<1>1. /\ running \in Slots /\ Other(running) # running /\ Other(Other(running)) = running
      /\ latest \in Slots /\ (latest = running \/ latest = Other(running))
  BY TwoSlots DEF IInv, TypeOK
<1>2. slot' = slot /\ latest' = latest /\ Bootloader(states)
  BY DEF Boot, flash
<1>3. GivesUp(states) \/ Reruns(states) \/ Tries(states)
  BY <1>2, BootCases
<1> USE DEF Trials!Restarted, Home, Trial, Ver
<1>4. CASE GivesUp(states)
  <2>1. st[running] = "pending"
    BY <1>4, ConfirmedState DEF GivesUp, IInv
  <2>2. QED BY <1>1, <1>2, <1>4, <2>1 DEF GivesUp
<1>5. CASE Reruns(states)
  <2>1. Trial = {} /\ Home' = Ver(running) /\ running' = running
    BY <1>2, <1>5 DEF Reruns
  <2>2. Trial' = {}
    BY <1>1, <1>2, <1>5, BootCases DEF Reruns, IInv, BootInv
  <2>3. QED BY <1>2, <2>1, <2>2
<1>6. CASE Tries(states)
  BY <1>1, <1>2, <1>6 DEF Tries
<1>7. QED BY <1>3, <1>4, <1>5, <1>6

LEMMA TrialsStep == ASSUME IInv, [Next]_vars PROVE [Trials!Next]_trialVars
<1>1. CASE Boots
  BY <1>1, BootIsRestart DEF Boots, Trials!Next
<1>2. CASE Working
  <2>1. /\ running' = running /\ slot'[running] = slot[running]
        /\ st'[running] \in {st[running], "valid"}
        /\ st'[running] = "pending" => Quiet
    BY <1>2, EffectsKeep DEF Working
  <2>2. /\ running \in Slots /\ Other(running) \in Slots /\ Other(running) # running
        /\ latest \in Slots /\ (latest = running \/ latest = Other(running))
    BY TwoSlots DEF IInv, TypeOK
  <2>3. Ver(running)' = Ver(running)
    BY <2>1 DEF Ver
  <2>4. CASE Quiet
    BY <2>4 DEF Quiet, trialVars, Home, Trial, Ver
  <2>5. CASE ~Quiet /\ st[running] = "pending"
    <3>1. st'[running] = "valid" /\ latest = running /\ Trial = {}
      BY <2>1, <2>2, <2>5 DEF Trial, IInv, FallbackKept, BootInv
    <3>2. Confirms \/ Clears
      BY <1>2, <2>5 DEF Working, Writes, Selects
    <3>3. latest' = latest
      BY <3>2 DEF Confirms, Clears
    <3>4. Trial' = {} /\ Home' = Ver(running)
      BY <2>1, <2>3, <3>1, <3>3 DEF Trial, Home
    <3>5. Trials!Confirmed
      BY <2>3, <3>1, <3>4 DEF Trials!Confirmed
    <3>6. QED BY <3>5 DEF Trials!Next
  <2>6. CASE st[running] = "valid"
    <3>1. Home = Ver(running) /\ Home' = Home /\ st'[running] = "valid"
      BY <2>1, <2>3, <2>6 DEF Home
    <3>2. Trial' = {} \/ \E v \in Versions : Trial' = {v}
      BY WholeHasVersion DEF Trial, Ver
    <3>3. ASSUME Trial' = {} PROVE Trials!Dropped
      BY <2>3, <3>1, <3>3 DEF Trials!Dropped
    <3>4. ASSUME NEW v \in Versions, Trial' = {v} PROVE Trials!Installed(v)
      BY <2>3, <3>1, <3>4 DEF Trials!Installed
    <3>5. QED BY <3>2, <3>3, <3>4 DEF Trials!Next
  <2>7. QED BY <2>4, <2>5, <2>6 DEF IInv, BootInv
<1>3. QED BY Effects, <1>1, <1>2 DEF Working

(* Every run of the station, with its resets, concurrent updates and       *)
(* crashing firmwares, is one of trying each new firmware once.            *)
THEOREM Implements == Spec => TrialSpec
<1>1. Init => Trials!Init
  <2>1. SUFFICES ASSUME Init PROVE Trials!Init
    OBVIOUS
  <2>2. slot[0] = Image(1) /\ st[0] = "valid" /\ 0 \in Slots /\ 1 \in Versions
    BY <2>1, UpdateAssumption DEF Init, Slots, Versions
  <2>3. Head(slot[0]) = 1
    BY <2>2, UpdateAssumption DEF Head, Image
  <2>4. QED BY <2>1, <2>2, <2>3 DEF Init, Trials!Init, Home, Trial, Ver
<1>2. QED
  BY <1>1, TrialsStep, Invariance, PTL DEF Spec, TrialSpec, Trials!Spec, trialVars
=============================================================================
