-------------------------- MODULE OtaManagerProofs --------------------------
(***************************************************************************)
(* Theorems about OtaManager, for every set of versions, sizes and chunks, *)
(* with and without rollback.                                              *)
(***************************************************************************)
EXTENDS OtaManager, TLAPS

\* What the watch holds at each step of the task: it is active from the manifest of
\* another version to the end of the check.
StatusInv ==
    /\ pc \in {"boot", "network", "config"} => status = "Unset"
    /\ pc \in {"select", "manifest"} => status \in {"Unset", "Idle"}
    /\ pc \in {"prepare", "download"} => status = "Preparing"
    /\ pc \in {"body", "activate", "mark"} => status \in {"Preparing", "Downloading"}
    /\ pc = "reboot" => status = "Applying"

\* The slot that is written holds what has been downloaded, and from the end of the body
\* on that is the image of the manifest.
DownloadInv ==
    LET content == slots[Other(running)]
    IN  /\ pc = "body" /\ written > 0 => content = [image |-> target, written |-> written]
        /\ pc \in {"activate", "mark", "reboot"} =>
              content = [image |-> target, written |-> target.size]

\* Only an update that is through selects the slot that does not run.
SelectInv ==
    /\ pc \in {"mark", "reboot"} => selected = Other(running)
    /\ ~faulty /\ pc \notin {"mark", "reboot"} => selected = running

\* What runs has been confirmed, before anything else happens.
ConfirmInv == ~faulty /\ pc # "boot" => imageState # "PendingVerify"

\* A manifest that announces an empty image defeats what is known of the download.
IInv ==
    /\ TypeOK
    /\ RunningIntact
    /\ StatusInv
    /\ ConfirmInv
    /\ 0 \notin Sizes => DownloadInv /\ SelectInv

-----------------------------------------------------------------------------
(* The slots and the percentage *)

LEMMA SlotType ==
    ASSUME NEW slot \in Slot
    PROVE  /\ Other(slot) \in Slot
           /\ Other(slot) # slot
           /\ Other(Other(slot)) = slot
           /\ \A s \in Slot : s = slot \/ s = Other(slot)
  BY DEF Slot, Other

LEMMA PercentType ==
    ASSUME NEW bytes \in Nat, NEW total \in Nat
    PROVE  Percent(bytes, total) \in -1..100
<1>1. CASE total = 0
  BY <1>1 DEF Percent, NoPercent
<1>2. CASE total # 0
  <2> DEFINE p == (bytes * 100) \div total
  <2>1. bytes * 100 \in Nat
    OBVIOUS
  <2>2. p \in Int /\ p >= 0
    BY <1>2, <2>1
  <2>3. Percent(bytes, total) = IF p > 100 THEN 100 ELSE p
    BY <1>2 DEF Percent
  <2> HIDE DEF p
  <2> QED
    BY <2>2, <2>3
<1> QED
  BY <1>1, <1>2

-----------------------------------------------------------------------------
(* Types *)

LEMMA TypeInit == Init => TypeOK
<1> SUFFICES ASSUME Init PROVE TypeOK
  OBVIOUS
<1>1. PICK factory \in Image :
        /\ factory.size \in 1..PartitionSize
        /\ slots = [slot \in Slot |-> [image |-> factory,
                      written |-> IF slot = "ota_0" THEN factory.size ELSE 0]]
        /\ target = factory
  BY DEF Init
<1>2. slots \in [Slot -> Content]
  BY <1>1, OtaAssumption DEF Content
<1>3. written \in 0..PartitionSize /\ published \in -1..100
  BY OtaAssumption DEF Init, NoPercent
<1>4. Progress!TypeOK
  BY DEF Init, Progress!TypeOK
<1>5. running \in Slot /\ selected \in Slot /\ imageState \in OtaImageState
  BY DEF Init, Slot, OtaImageState
<1> QED
  BY <1>1, <1>2, <1>3, <1>4, <1>5 DEF Init, TypeOK, Waiting, Running

\* Sending a status of ota.rs keeps the watch well typed.
LEMMA PublishType ==
    ASSUME NEW s \in {"Idle", "Preparing", "Downloading", "Applying"}, TypeOK,
           PublishStatus(s) \/ Send(s)
    PROVE  Progress!TypeOK' /\ unseen' \in BOOLEAN
  BY DEF TypeOK, PublishStatus, Send, statusVars, Progress!TypeOK, Progress!OtaStatus

LEMMA BootloaderType == TypeOK /\ Bootloader => TypeOK'
<1> SUFFICES ASSUME TypeOK, Bootloader PROVE TypeOK'
  OBVIOUS
<1> DEFINE revert == Rollback /\ imageState = "PendingVerify" /\ Intact(slots[Other(selected)])
           slot   == IF revert THEN Other(selected) ELSE selected
<1>1. slot \in Slot /\ Other(slot) \in Slot
  BY SlotType DEF TypeOK
<1>2. selected' \in Slot /\ running' \in Slot
  BY <1>1 DEF Bootloader
<1>3. imageState' \in OtaImageState
  BY DEF Bootloader, TypeOK, OtaImageState
<1> HIDE DEF slot
<1> QED
  BY <1>2, <1>3 DEF Bootloader, TypeOK, Waiting, Running, updateVars, Progress!Reset,
     Progress!TypeOK, Progress!OtaStatus

\* A read fits into the partition, and the slot it is written to stays a slot.
LEMMA ReadChunkType == TypeOK /\ ReadChunk => TypeOK'
<1> SUFFICES ASSUME TypeOK, ReadChunk PROVE TypeOK'
  OBVIOUS
<1>1. PICK n \in Chunks :
        /\ written + n <= PartitionSize
        /\ written' = written + n
        /\ slots' = [slots EXCEPT ![Next_partition] =
                       [image |-> target, written |-> written + n]]
  BY DEF ReadChunk
<1>2. written' \in 0..PartitionSize /\ written + n \in Nat
  BY <1>1, OtaAssumption DEF TypeOK
<1>3. slots' \in [Slot -> Content]
  BY <1>1, <1>2 DEF TypeOK, Content
<1>4. target.size \in Nat
  BY OtaAssumption DEF TypeOK, Image
<1>5. Percent(written', target.size) \in -1..100
  BY <1>1, <1>2, <1>4, PercentType
<1>6. published' \in -1..100 /\ Progress!TypeOK' /\ unseen' \in BOOLEAN
  BY <1>5, PublishType DEF ReadChunk, TypeOK, statusVars, Progress!TypeOK
<1> QED
  BY <1>2, <1>3, <1>6 DEF ReadChunk, TypeOK, envVars

LEMMA TransferFailsType == TypeOK /\ TransferFails => TypeOK'
<1> SUFFICES ASSUME TypeOK, TransferFails PROVE TypeOK'
  OBVIOUS
<1>1. [image |-> target, written |-> written] \in Content
  BY OtaAssumption DEF TypeOK, Content
<1>2. slots' \in [Slot -> Content]
  BY <1>1 DEF TransferFails, TypeOK
<1>3. Progress!TypeOK' /\ unseen' \in BOOLEAN
  BY PublishType DEF TransferFails, EndCheck
<1> QED
  BY <1>2, <1>3 DEF TransferFails, EndCheck, TypeOK, updateVars, envVars, Waiting, Running

LEMMA TypeStep == TypeOK /\ [Next]_vars => TypeOK'
<1> SUFFICES ASSUME TypeOK, [Next]_vars PROVE TypeOK'
  OBVIOUS
<1> USE DEF TypeOK, flashVars, updateVars, statusVars, envVars, Waiting, Running
<1>1. CASE ConfirmSlot
  BY <1>1 DEF ConfirmSlot, WriteState, OtaImageState, Progress!TypeOK
<1>2. CASE NetworkIsUp \/ ServerIsConfigured
  BY <1>2 DEF NetworkIsUp, ServerIsConfigured, Progress!TypeOK
<1>3. CASE PeriodicCheck \/ RequestedCheck
  <2>1. CASE PeriodicCheck
    BY <2>1 DEF PeriodicCheck, StartCheck, Progress!TypeOK
  <2>2. CASE RequestedCheck
    BY <2>2 DEF RequestedCheck, StartCheck, Progress!TypeOK
  <2> QED
    BY <1>3, <2>1, <2>2
<1>4. CASE NothingNew \/ PreparationFails \/ DownloadRefused
  BY <1>4, PublishType DEF NothingNew, PreparationFails, DownloadRefused, EndCheck
<1>5. CASE NewVersion
  BY <1>5, PublishType DEF NewVersion
<1>6. CASE RequestDownload
  BY <1>6 DEF RequestDownload, Progress!TypeOK
<1>7. CASE DownloadStarts
  BY <1>7, OtaAssumption DEF DownloadStarts, Progress!TypeOK, NoPercent
<1>8. CASE ReadChunk
  BY <1>8, ReadChunkType
<1>9. CASE TransferFails
  BY <1>9, TransferFailsType
<1>10. CASE EndOfBody
  BY <1>10, PublishType DEF EndOfBody, EndCheck, Progress!TypeOK
<1>11. CASE Activate
  <2>1. Next_partition \in Slot
    BY SlotType DEF Next_partition
  <2>2. selected' \in Slot /\ imageState' \in OtaImageState /\ faulty' \in BOOLEAN
    BY <1>11, <2>1 DEF Activate, OtaImageState
  <2>3. Progress!TypeOK' /\ unseen' \in BOOLEAN
    BY <1>11, PublishType DEF Activate, EndCheck, Progress!TypeOK
  <2> QED
    BY <1>11, <2>2, <2>3 DEF Activate, EndCheck
<1>12. CASE MarkNew
  BY <1>12, PublishType DEF MarkNew, EndCheck, OtaImageState
<1>13. CASE SoftwareReset \/ PowerCut
  BY <1>13, BootloaderType DEF SoftwareReset, PowerCut
<1>14. CASE NetworkComesUp \/ Configure \/ RequestCheck
  <2>1. Progress!TypeOK'
    BY <1>14 DEF NetworkComesUp, Configure, RequestCheck, Progress!TypeOK
  <2>2. online' \in BOOLEAN /\ configured' \in BOOLEAN /\ requested' \in BOOLEAN
    BY <1>14 DEF NetworkComesUp, Configure, RequestCheck
  <2>3. UNCHANGED <<pc, slots, running, selected, imageState, faulty, target, written,
                    published, unseen>>
    BY <1>14 DEF NetworkComesUp, Configure, RequestCheck
  <2> QED
    BY <2>1, <2>2, <2>3
<1>15. CASE DisplaySees
  BY <1>15 DEF DisplaySees, Progress!TypeOK
<1>16. CASE UNCHANGED vars
  BY <1>16 DEF vars, Progress!TypeOK
<1> QED
  BY <1>1, <1>2, <1>3, <1>4, <1>5, <1>6, <1>7, <1>8, <1>9, <1>10, <1>11, <1>12, <1>13,
     <1>14, <1>15, <1>16 DEF Next, Step, Environment, Manifest, Prepare, Download, Body
-----------------------------------------------------------------------------
(* Which actions reach the flash *)

LEMMA FlashIsOnlyWrittenThere ==
    ASSUME [Next]_vars
    PROVE  ReadChunk \/ TransferFails \/ SoftwareReset \/ PowerCut \/ UNCHANGED <<slots, running>>
<1> USE DEF flashVars
<1>1. CASE ConfirmSlot \/ NetworkIsUp \/ ServerIsConfigured
  BY <1>1 DEF ConfirmSlot, NetworkIsUp, ServerIsConfigured
<1>2. CASE PeriodicCheck \/ RequestedCheck
  BY <1>2 DEF PeriodicCheck, RequestedCheck, StartCheck
<1>3. CASE Manifest \/ Prepare \/ Download
  BY <1>3 DEF Manifest, NothingNew, NewVersion, Prepare, PreparationFails, RequestDownload,
     Download, DownloadRefused, DownloadStarts
<1>4. CASE EndOfBody \/ Activate \/ MarkNew
  BY <1>4 DEF EndOfBody, Activate, MarkNew
<1>5. CASE NetworkComesUp \/ Configure \/ RequestCheck \/ DisplaySees
  BY <1>5 DEF NetworkComesUp, Configure, RequestCheck, DisplaySees
<1>6. CASE UNCHANGED vars
  BY <1>6 DEF vars
<1> QED
  BY <1>1, <1>2, <1>3, <1>4, <1>5, <1>6 DEF Next, Step, Environment, Body

-----------------------------------------------------------------------------
(* What runs is intact *)

\* The bootloader starts the selected slot, and the one that ran when that is not intact.
LEMMA BootloaderRuns ==
    ASSUME TypeOK, RunningIntact, Bootloader
    PROVE  RunningIntact'
<1> DEFINE revert == Rollback /\ imageState = "PendingVerify" /\ Intact(slots[Other(selected)])
           slot   == IF revert THEN Other(selected) ELSE selected
<1>1. running' = (IF Intact(slots[slot]) THEN slot ELSE Other(slot)) /\ slots' = slots
  BY DEF Bootloader
<1>2. slot \in Slot
  BY SlotType DEF TypeOK
<1>3. running = slot \/ running = Other(slot)
  BY <1>2, SlotType DEF TypeOK
<1> HIDE DEF slot
<1> QED
  BY <1>1, <1>3 DEF RunningIntact, Intact

\* The only writes to the flash go to the other slot.
LEMMA WritesSpareRunning ==
    ASSUME TypeOK, ReadChunk \/ TransferFails
    PROVE  slots'[running] = slots[running] /\ running' = running
<1>1. Next_partition # running /\ running \in Slot
  BY SlotType DEF TypeOK, Next_partition
<1> QED
  BY <1>1 DEF TypeOK, ReadChunk, TransferFails

LEMMA RunningStep == TypeOK /\ RunningIntact /\ [Next]_vars => RunningIntact'
<1> SUFFICES ASSUME TypeOK, RunningIntact, [Next]_vars PROVE RunningIntact'
  OBVIOUS
<1>1. CASE ReadChunk \/ TransferFails
  BY <1>1, WritesSpareRunning DEF RunningIntact, Intact
<1>2. CASE SoftwareReset \/ PowerCut
  BY <1>2, BootloaderRuns DEF SoftwareReset, PowerCut
<1>3. CASE UNCHANGED <<slots, running>>
  BY <1>3 DEF RunningIntact, Intact
<1> QED
  BY <1>1, <1>2, <1>3, FlashIsOnlyWrittenThere

-----------------------------------------------------------------------------
(* What the watch says *)

LEMMA StatusStep == TypeOK /\ StatusInv /\ [Next]_vars => StatusInv'
<1> SUFFICES ASSUME TypeOK, StatusInv, [Next]_vars PROVE StatusInv'
  OBVIOUS
<1> USE DEF StatusInv
<1>1. CASE ConfirmSlot \/ NetworkIsUp
  BY <1>1 DEF ConfirmSlot, NetworkIsUp, statusVars
<1>2. CASE ServerIsConfigured \/ PeriodicCheck \/ RequestedCheck
  BY <1>2 DEF ServerIsConfigured, PeriodicCheck, RequestedCheck, StartCheck, statusVars
<1>3. CASE NothingNew \/ PreparationFails \/ DownloadRefused \/ TransferFails
  BY <1>3 DEF NothingNew, PreparationFails, DownloadRefused, TransferFails, EndCheck,
     PublishStatus, Send, statusVars
<1>4. CASE NewVersion
  BY <1>4 DEF NewVersion, PublishStatus, Send, statusVars
<1>5. CASE RequestDownload \/ DownloadStarts
  BY <1>5 DEF RequestDownload, DownloadStarts, statusVars
<1>6. CASE ReadChunk
  BY <1>6 DEF ReadChunk, Send, statusVars
<1>7. CASE EndOfBody
  BY <1>7 DEF EndOfBody, EndCheck, PublishStatus, Send, statusVars
<1>8. CASE Activate
  BY <1>8 DEF Activate, EndCheck, PublishStatus, Send, statusVars
<1>9. CASE MarkNew
  BY <1>9 DEF MarkNew, EndCheck, PublishStatus, Send, statusVars
<1>10. CASE SoftwareReset \/ PowerCut
  BY <1>10 DEF SoftwareReset, PowerCut, Bootloader, Progress!Reset
<1>11. CASE NetworkComesUp \/ Configure \/ RequestCheck \/ DisplaySees
  BY <1>11 DEF NetworkComesUp, Configure, RequestCheck, DisplaySees, statusVars
<1>12. CASE UNCHANGED vars
  BY <1>12 DEF vars, statusVars
<1> QED
  BY <1>1, <1>2, <1>3, <1>4, <1>5, <1>6, <1>7, <1>8, <1>9, <1>10, <1>11, <1>12
     DEF Next, Step, Environment, Manifest, Prepare, Download, Body

-----------------------------------------------------------------------------
(* What has been downloaded *)

\* A step that leaves the flash, the running slot and the update alone keeps DownloadInv
\* unless it enters one of the steps DownloadInv is about.
LEMMA DownloadKept ==
    ASSUME DownloadInv, UNCHANGED <<slots, running, target, written>>,
           \/ pc' \notin {"body", "activate", "mark", "reboot"}
           \/ pc = "body" /\ pc' = "body"
           \/ pc \in {"activate", "mark", "reboot"} /\ pc' \in {"activate", "mark", "reboot"}
    PROVE  DownloadInv'
  BY DEF DownloadInv

LEMMA DownloadReadChunk ==
    ASSUME TypeOK, ReadChunk
    PROVE  DownloadInv'
<1>1. Next_partition \in Slot /\ Next_partition = Other(running)
  BY SlotType DEF TypeOK, Next_partition
<1>2. PICK n \in Chunks :
        /\ written' = written + n
        /\ slots' = [slots EXCEPT ![Next_partition] =
                       [image |-> target, written |-> written + n]]
  BY DEF ReadChunk
<1>3. slots'[Other(running)] = [image |-> target, written |-> written']
  BY <1>1, <1>2 DEF TypeOK
<1> QED
  BY <1>3 DEF ReadChunk, DownloadInv

\* The body ends with as many bytes as the manifest said; none at all only for the image
\* of none, which is then left as it was.
LEMMA DownloadEndOfBody ==
    ASSUME TypeOK, DownloadInv, 0 \notin Sizes, EndOfBody
    PROVE  DownloadInv'
<1>1. CASE written # target.size /\ EndCheck
  BY <1>1 DEF EndOfBody, EndCheck, DownloadInv
<1>2. CASE written = target.size /\ pc' = "activate"
  <2>1. target.size \in Nat /\ target.size # 0
    BY OtaAssumption DEF TypeOK, Image
  <2>2. slots[Other(running)] = [image |-> target, written |-> target.size]
    BY <1>2, <2>1 DEF EndOfBody, DownloadInv
  <2> QED
    BY <1>2, <2>2 DEF EndOfBody, DownloadInv, flashVars, updateVars
<1> QED
  BY <1>1, <1>2 DEF EndOfBody

LEMMA DownloadStep ==
    ASSUME TypeOK, DownloadInv, 0 \notin Sizes, [Next]_vars
    PROVE  DownloadInv'
<1> USE DEF flashVars, updateVars
<1>1. CASE ConfirmSlot \/ NetworkIsUp \/ ServerIsConfigured
  BY <1>1, DownloadKept DEF ConfirmSlot, NetworkIsUp, ServerIsConfigured
<1>2. CASE PeriodicCheck \/ RequestedCheck
  BY <1>2, DownloadKept DEF PeriodicCheck, RequestedCheck, StartCheck
<1>3. CASE Manifest \/ Prepare \/ DownloadRefused
  BY <1>3 DEF Manifest, NothingNew, NewVersion, Prepare, PreparationFails, RequestDownload,
     DownloadRefused, EndCheck, DownloadInv
<1>4. CASE DownloadStarts
  BY <1>4 DEF DownloadStarts, DownloadInv
<1>5. CASE ReadChunk
  BY <1>5, DownloadReadChunk
<1>6. CASE TransferFails
  BY <1>6 DEF TransferFails, EndCheck, DownloadInv
<1>7. CASE EndOfBody
  BY <1>7, DownloadEndOfBody
<1>8. CASE Activate \/ MarkNew
  BY <1>8, DownloadKept DEF Activate, MarkNew, EndCheck
<1>9. CASE SoftwareReset \/ PowerCut
  BY <1>9 DEF SoftwareReset, PowerCut, Bootloader, DownloadInv
<1>10. CASE NetworkComesUp \/ Configure \/ RequestCheck \/ DisplaySees
  BY <1>10, DownloadKept DEF NetworkComesUp, Configure, RequestCheck, DisplaySees, DownloadInv
<1>11. CASE UNCHANGED vars
  BY <1>11, DownloadKept DEF vars, DownloadInv
<1> QED
  BY <1>1, <1>2, <1>3, <1>4, <1>5, <1>6, <1>7, <1>8, <1>9, <1>10, <1>11
     DEF Next, Step, Environment, Body, Download

-----------------------------------------------------------------------------
(* What is selected *)

\* With the whole image of an update in the other slot, the bootloader starts what it
\* selects.
LEMMA BootloaderStartsSelected ==
    ASSUME TypeOK, RunningIntact, DownloadInv, SelectInv, 0 \notin Sizes, ~faulty, Bootloader
    PROVE  selected' = running'
<1> DEFINE revert == Rollback /\ imageState = "PendingVerify" /\ Intact(slots[Other(selected)])
           slot   == IF revert THEN Other(selected) ELSE selected
<1>1. /\ selected' = slot
      /\ running' = IF Intact(slots[slot]) THEN slot ELSE Other(slot)
  BY DEF Bootloader
<1>2. CASE pc \in {"mark", "reboot"}
  <2>1. slots[selected] = [image |-> target, written |-> target.size]
    BY <1>2 DEF SelectInv, DownloadInv
  <2>2. target.size \in Nat /\ target.size # 0
    BY OtaAssumption DEF TypeOK, Image
  <2>3. Intact(slots[selected])
    BY <2>1, <2>2 DEF Intact
  <2> QED
    BY <1>1, <2>3
<1>3. CASE pc \notin {"mark", "reboot"}
  <2>1. Intact(slots[selected])
    BY <1>3 DEF SelectInv, RunningIntact
  <2> QED
    BY <1>1, <2>1
<1> QED
  BY <1>2, <1>3

LEMMA SelectStep ==
    ASSUME TypeOK, RunningIntact, DownloadInv, SelectInv, 0 \notin Sizes, [Next]_vars
    PROVE  SelectInv'
<1> USE DEF SelectInv, flashVars
<1>1. CASE ConfirmSlot
  BY <1>1 DEF ConfirmSlot, WriteState
<1>2. CASE NetworkIsUp \/ ServerIsConfigured \/ PeriodicCheck \/ RequestedCheck
  BY <1>2 DEF NetworkIsUp, ServerIsConfigured, PeriodicCheck, RequestedCheck, StartCheck
<1>3. CASE Manifest \/ Prepare \/ Download
  BY <1>3 DEF Manifest, NothingNew, NewVersion, Prepare, PreparationFails, RequestDownload,
     Download, DownloadRefused, DownloadStarts, EndCheck
<1>4. CASE Body
  BY <1>4 DEF Body, ReadChunk, TransferFails, EndOfBody, EndCheck
<1>5. CASE Activate
  BY <1>5 DEF Activate, EndCheck, Next_partition
<1>6. CASE MarkNew
  BY <1>6 DEF MarkNew, EndCheck
<1>7. CASE SoftwareReset \/ PowerCut
  <2>1. pc' = "boot" /\ faulty' = faulty
    BY <1>7 DEF SoftwareReset, PowerCut, Bootloader
  <2> QED
    BY <1>7, <2>1, BootloaderStartsSelected DEF SoftwareReset, PowerCut
<1>8. CASE NetworkComesUp \/ Configure \/ RequestCheck \/ DisplaySees
  BY <1>8 DEF NetworkComesUp, Configure, RequestCheck, DisplaySees
<1>9. CASE UNCHANGED vars
  BY <1>9 DEF vars
<1> QED
  BY <1>1, <1>2, <1>3, <1>4, <1>5, <1>6, <1>7, <1>8, <1>9 DEF Next, Step, Environment

-----------------------------------------------------------------------------
(* What has been confirmed *)

LEMMA ConfirmStep == ConfirmInv /\ [Next]_vars => ConfirmInv'
<1> SUFFICES ASSUME ConfirmInv, [Next]_vars PROVE ConfirmInv'
  OBVIOUS
<1> USE DEF ConfirmInv, flashVars
<1>1. CASE ConfirmSlot
  BY <1>1 DEF ConfirmSlot, WriteState
<1>2. CASE NetworkIsUp \/ ServerIsConfigured \/ PeriodicCheck \/ RequestedCheck
  BY <1>2 DEF NetworkIsUp, ServerIsConfigured, PeriodicCheck, RequestedCheck, StartCheck
<1>3. CASE Manifest \/ Prepare \/ Download
  BY <1>3 DEF Manifest, NothingNew, NewVersion, Prepare, PreparationFails, RequestDownload,
     Download, DownloadRefused, DownloadStarts
<1>4. CASE Body
  BY <1>4 DEF Body, ReadChunk, TransferFails, EndOfBody
<1>5. CASE Activate
  BY <1>5 DEF Activate
<1>6. CASE MarkNew
  BY <1>6 DEF MarkNew
<1>7. CASE SoftwareReset \/ PowerCut
  BY <1>7 DEF SoftwareReset, PowerCut, Bootloader
<1>8. CASE NetworkComesUp \/ Configure \/ RequestCheck \/ DisplaySees
  BY <1>8 DEF NetworkComesUp, Configure, RequestCheck, DisplaySees
<1>9. CASE UNCHANGED vars
  BY <1>9 DEF vars
<1> QED
  BY <1>1, <1>2, <1>3, <1>4, <1>5, <1>6, <1>7, <1>8, <1>9 DEF Next, Step, Environment

-----------------------------------------------------------------------------
(* The inductive invariant *)

LEMMA InvInit == Init => IInv
<1> SUFFICES ASSUME Init PROVE IInv
  OBVIOUS
<1>1. TypeOK
  BY TypeInit
<1>2. RunningIntact
  BY OtaAssumption DEF Init, RunningIntact, Intact, Slot
<1>3. StatusInv /\ ConfirmInv /\ DownloadInv /\ SelectInv
  BY DEF Init, StatusInv, ConfirmInv, DownloadInv, SelectInv
<1> QED
  BY <1>1, <1>2, <1>3 DEF IInv

LEMMA InvStep == IInv /\ [Next]_vars => IInv'
<1> SUFFICES ASSUME IInv, [Next]_vars PROVE IInv'
  OBVIOUS
<1> USE DEF IInv
<1>1. TypeOK'
  BY TypeStep
<1>2. RunningIntact'
  BY RunningStep
<1>3. StatusInv'
  BY StatusStep
<1>4. ConfirmInv'
  BY ConfirmStep
<1>5. ASSUME 0 \notin Sizes PROVE DownloadInv' /\ SelectInv'
  BY <1>5, DownloadStep, SelectStep
<1> QED
  BY <1>1, <1>2, <1>3, <1>4, <1>5

LEMMA InvCorrect == Spec => []IInv
  BY InvInit, InvStep, PTL DEF Spec

-----------------------------------------------------------------------------
(* Theorems *)

\* Every variable of manage_ota, of the flash and of the watch keeps to its type: nothing
\* is ever written past the end of a partition.
THEOREM TypeCorrect == Spec => []TypeOK
<1>1. IInv => TypeOK
  BY DEF IInv
<1> QED
  BY <1>1, InvCorrect, PTL

\* Wherever an update is interrupted, by a power cut or a failing transfer, the slot that
\* runs holds a whole image.
THEOREM RunningBoots == Spec => []RunningIntact
<1>1. IInv => RunningIntact
  BY DEF IInv
<1> QED
  BY <1>1, InvCorrect, PTL

\* The watch announces an update exactly while check_and_apply_update has one in flight.
THEOREM UpdateAnnounced == Spec => []ActiveIffInFlight
<1>1. IInv => ActiveIffInFlight
  BY DEF IInv, TypeOK, Waiting, Running, StatusInv, ActiveIffInFlight, Progress!IsActive,
     Progress!OtaStatus
<1> QED
  BY <1>1, InvCorrect, PTL

\* As long as no otadata write fails and no manifest announces an empty image, the slot to
\* start next holds a whole image.
THEOREM SelectedIsComplete ==
    ASSUME 0 \notin Sizes
    PROVE  Spec => []SelectedBoots
<1>1. IInv => SelectedBoots
  <2> SUFFICES ASSUME IInv, ~faulty PROVE Intact(slots[selected])
    BY DEF SelectedBoots
  <2>1. CASE pc \in {"mark", "reboot"}
    <3>1. slots[selected] = [image |-> target, written |-> target.size]
      BY <2>1 DEF IInv, SelectInv, DownloadInv
    <3>2. target.size \in Nat /\ target.size # 0
      BY OtaAssumption DEF IInv, TypeOK, Image
    <3> QED
      BY <3>1, <3>2 DEF Intact
  <2>2. CASE pc \notin {"mark", "reboot"}
    BY <2>2 DEF IInv, SelectInv, RunningIntact
  <2> QED
    BY <2>1, <2>2
<1> QED
  BY <1>1, InvCorrect, PTL

\* The same of what Applying announces: the reboot goes to the whole of the image the
\* manifest named, whatever otadata writes failed before.
THEOREM AppliedIsComplete ==
    ASSUME 0 \notin Sizes
    PROVE  Spec => []ApplyingIsComplete
<1>1. IInv => ApplyingIsComplete
  <2> SUFFICES ASSUME IInv, status = "Applying"
               PROVE  /\ selected # running
                      /\ slots[selected] = [image |-> target, written |-> target.size]
                      /\ Intact(slots[selected])
    BY DEF ApplyingIsComplete
  <2>1. pc = "reboot"
    BY DEF IInv, TypeOK, Waiting, Running, StatusInv
  <2>2. selected = Other(running)
    BY <2>1 DEF IInv, SelectInv
  <2>3. slots[selected] = [image |-> target, written |-> target.size]
    BY <2>1, <2>2 DEF IInv, DownloadInv
  <2>4. target.size \in Nat /\ target.size # 0
    BY OtaAssumption DEF IInv, TypeOK, Image
  <2> QED
    BY <2>2, <2>3, <2>4, SlotType DEF IInv, TypeOK, Intact
<1> QED
  BY <1>1, InvCorrect, PTL

\* Only a boot whose image has not been confirmed yet is reverted: the bootloader starts
\* another slot because an update selected it, or because it did not get past boot.
THEOREM Confirmed == Spec => ConfirmedStays
<1>1. IInv /\ [Next]_vars =>
        [(running' # running /\ ~faulty) => selected # running \/ pc = "boot"]_vars
  <2> SUFFICES ASSUME IInv, [Next]_vars, running' # running, ~faulty, pc # "boot",
                      selected = running
               PROVE  FALSE
    OBVIOUS
  <2>1. Bootloader
    BY FlashIsOnlyWrittenThere, WritesSpareRunning DEF IInv, SoftwareReset, PowerCut
  <2>2. imageState # "PendingVerify"
    BY DEF IInv, ConfirmInv
  <2>3. running' = running
    BY <2>1, <2>2 DEF Bootloader, IInv, RunningIntact
  <2> QED
    BY <2>3
<1> QED
  BY <1>1, InvCorrect, PTL DEF Spec, ConfirmedStays

\* A step of manage_ota publishes what OtaProgress allows next, or the value the watch
\* already holds.
LEMMA ProgressStep == IInv /\ [Next]_vars => [Progress!Next]_status
<1> SUFFICES ASSUME IInv, [Next]_vars, status' # status PROVE Progress!Next
  OBVIOUS
<1> USE DEF IInv, StatusInv, statusVars, Progress!Next, Progress!Publish, Progress!Successors,
            Progress!OtaStatus
<1>1. CASE ConfirmSlot \/ NetworkIsUp \/ ServerIsConfigured \/ PeriodicCheck \/ RequestedCheck
  BY <1>1 DEF ConfirmSlot, NetworkIsUp, ServerIsConfigured, PeriodicCheck, RequestedCheck,
     StartCheck
<1>2. CASE NothingNew \/ PreparationFails \/ DownloadRefused \/ TransferFails
  BY <1>2 DEF NothingNew, PreparationFails, DownloadRefused, TransferFails, EndCheck,
     PublishStatus, Send
<1>3. CASE NewVersion
  BY <1>3 DEF NewVersion, PublishStatus, Send
<1>4. CASE RequestDownload \/ DownloadStarts
  BY <1>4 DEF RequestDownload, DownloadStarts
<1>5. CASE ReadChunk
  BY <1>5 DEF ReadChunk, Send
<1>6. CASE EndOfBody \/ Activate
  BY <1>6 DEF EndOfBody, Activate, EndCheck, PublishStatus, Send
<1>7. CASE MarkNew
  BY <1>7 DEF MarkNew, EndCheck, PublishStatus, Send
<1>8. CASE SoftwareReset \/ PowerCut
  BY <1>8 DEF SoftwareReset, PowerCut, Bootloader
<1>9. CASE NetworkComesUp \/ Configure \/ RequestCheck \/ DisplaySees
  BY <1>9 DEF NetworkComesUp, Configure, RequestCheck, DisplaySees
<1>10. CASE UNCHANGED vars
  BY <1>10 DEF vars
<1> QED
  BY <1>1, <1>2, <1>3, <1>4, <1>5, <1>6, <1>7, <1>8, <1>9, <1>10
     DEF Next, Step, Environment, Manifest, Prepare, Download, Body

\* manage_ota implements the abstract watch that the motor task is verified against.
THEOREM RefinesProgress == Spec => ImplementsProgress
<1>1. Init => Progress!Init
  BY DEF Init, Progress!Init
<1> QED
  BY <1>1, ProgressStep, InvCorrect, PTL DEF Spec, ImplementsProgress, Progress!Spec

=============================================================================
