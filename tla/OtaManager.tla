----------------------------- MODULE OtaManager -----------------------------
(***************************************************************************)
(* manage_ota (src/src/tasks/ota_manager.rs): checking for firmware,       *)
(* writing it into the other slot, activating it, and the OTA_STATUS watch *)
(* that tells the other tasks about it; together with the flash, the       *)
(* otadata and the bootloader it relies on, and a power cut at any moment. *)
(*                                                                         *)
(* An image is its version and its size.  A slot remembers the image it    *)
(* last received and how many of its bytes have arrived.                   *)
(***************************************************************************)
EXTENDS Integers

CONSTANTS
    Versions,        \* firmware versions
    Sizes,           \* sizes a manifest may announce
    Chunks,          \* bytes one read may return
    PartitionSize,   \* bytes of an app partition
    Rollback         \* the bootloader reverts unconfirmed images

ASSUME OtaAssumption ==
    /\ Sizes \subseteq Nat
    /\ Chunks \subseteq Nat \ {0}
    /\ PartitionSize \in Nat \ {0}
    /\ Rollback \in BOOLEAN

VARIABLES
    pc,          \* where manage_ota is
    slots,       \* the app partitions ota_0 and ota_1
    running,     \* the slot the bootloader started
    selected,    \* otadata: the slot to start next
    imageState,  \* otadata: OtaImageState of the selected slot
    target,      \* firmware_path and expected_size of the update in flight
    written,     \* bytes written so far
    published,   \* published_percent
    status,      \* OTA_STATUS: the kind of the latest value ...
    unseen,      \* ... and whether the display has yet to see it
    requested,   \* OTA_CHECK_REQUEST
    configured,  \* OTA_CONFIGURATION holds a server
    online,      \* NETWORK_READY
    faulty       \* history: writing the otadata has failed

flashVars == <<slots, running, selected, imageState, faulty>>
updateVars == <<target, written, published>>
statusVars == <<status, unseen>>
envVars == <<requested, configured, online>>
vars == <<pc, flashVars, updateVars, statusVars, envVars>>

Progress == INSTANCE OtaProgress

Slot == {"ota_0", "ota_1"}
Other(slot) == IF slot = "ota_0" THEN "ota_1" ELSE "ota_0"

Image == [version : Versions, size : Sizes]
Content == [image : Image, written : Nat]

\* A slot the bootloader accepts: the whole of some image and nothing less.
Intact(content) == content.image.size > 0 /\ content.written = content.image.size

OtaImageState == {"Undefined", "New", "PendingVerify", "Valid"}

NoPercent == -1

\* OtaStatus::percent of Downloading; a u8, so never above 100.
Percent(bytes, total) ==
    IF total = 0 THEN NoPercent
    ELSE LET p == (bytes * 100) \div total IN IF p > 100 THEN 100 ELSE p

\* Between two awaits no other task runs, but the power may still be cut.
Waiting == {"network", "config", "select", "manifest", "download", "body", "reboot"}
Running == {"boot", "prepare", "activate", "mark"}

TypeOK ==
    /\ pc \in Waiting \cup Running
    /\ slots \in [Slot -> Content]
    /\ running \in Slot
    /\ selected \in Slot
    /\ imageState \in OtaImageState
    /\ target \in Image
    /\ written \in 0..PartitionSize
    /\ published \in -1..100
    /\ Progress!TypeOK
    /\ unseen \in BOOLEAN
    /\ requested \in BOOLEAN
    /\ configured \in BOOLEAN
    /\ online \in BOOLEAN
    /\ faulty \in BOOLEAN

\* A board fresh from the factory: ota_0 flashed, ota_1 never written.
Init ==
    /\ pc = "boot"
    /\ \E factory \in Image :
         /\ factory.size \in 1..PartitionSize
         /\ slots = [slot \in Slot |-> [image |-> factory,
                       written |-> IF slot = "ota_0" THEN factory.size ELSE 0]]
         /\ target = factory
    /\ running = "ota_0"
    /\ selected = "ota_0"
    /\ imageState = "Undefined"
    /\ written = 0
    /\ published = NoPercent
    /\ status = "Unset"
    /\ unseen = FALSE
    /\ requested = FALSE
    /\ configured = FALSE
    /\ online = FALSE
    /\ faulty = FALSE

-----------------------------------------------------------------------------
(* The watch *)

Send(s) == status' = s /\ unseen' = TRUE

\* publish_status: nobody is woken for a value the watch already holds.
PublishStatus(s) == IF status = s THEN UNCHANGED statusVars ELSE Send(s)

-----------------------------------------------------------------------------
(* Booting *)

\* An otadata write either happens or fails; a failure leaves it as it was.
WriteState(state) ==
    \/ imageState' = state /\ UNCHANGED faulty
    \/ imageState' = imageState /\ faulty' = TRUE

\* Bug: the image is left to be verified for ever.
BugConfirmSlot ==
    /\ pc = "boot"
    /\ pc' = "network"
    /\ UNCHANGED <<flashVars, updateVars, statusVars, envVars>>

\* The state is read and written through the slot that is selected.
ConfirmSlot ==
    /\ pc = "boot"
    /\ pc' = "network"
    /\ IF imageState \in {"New", "PendingVerify"}
       THEN WriteState("Valid") ELSE UNCHANGED <<imageState, faulty>>
    /\ UNCHANGED <<slots, running, selected, updateVars, statusVars, envVars>>

NetworkIsUp ==
    /\ pc = "network"
    /\ online
    /\ pc' = "config"
    /\ UNCHANGED <<flashVars, updateVars, statusVars, envVars>>

ServerIsConfigured ==
    /\ pc = "config"
    /\ configured
    /\ pc' = "select"
    /\ UNCHANGED <<flashVars, updateVars, statusVars, envVars>>

-----------------------------------------------------------------------------
(* One check *)

StartCheck ==
    /\ pc' = "manifest"
    /\ UNCHANGED <<flashVars, updateVars, statusVars, configured, online>>

\* The timer of 30 minutes; select polls it first and leaves the signal alone.
PeriodicCheck == pc = "select" /\ StartCheck /\ UNCHANGED requested

\* Bug: the signal is looked at and not taken.
BugRequestedCheck == pc = "select" /\ requested /\ StartCheck /\ UNCHANGED requested

RequestedCheck == pc = "select" /\ requested /\ requested' = FALSE /\ StartCheck

\* Every way out of check_and_apply_update that is not an installed update.
EndCheck ==
    /\ pc' = "select"
    /\ PublishStatus("Idle")

\* No answer, an unsuccessful one, one that does not parse, or the version that
\* runs already.
NothingNew ==
    /\ pc = "manifest"
    /\ EndCheck
    /\ UNCHANGED <<flashVars, updateVars, envVars>>

\* Bug: nobody is told before the first bytes arrive.
BugNewVersion ==
    /\ pc = "manifest"
    /\ \E image \in Image :
         /\ image.version # slots[running].image.version
         /\ target' = image
    /\ pc' = "prepare"
    /\ UNCHANGED <<flashVars, written, published, statusVars, envVars>>

NewVersion ==
    /\ pc = "manifest"
    /\ \E image \in Image :
         /\ image.version # slots[running].image.version
         /\ target' = image
    /\ PublishStatus("Preparing")
    /\ pc' = "prepare"
    /\ UNCHANGED <<flashVars, written, published, envVars>>

\* A URL that does not fit, no OTA partition table, an image that does not fit.
PreparationFails ==
    /\ pc = "prepare"
    /\ EndCheck
    /\ UNCHANGED <<flashVars, updateVars, envVars>>

RequestDownload ==
    /\ pc = "prepare"
    /\ target.size <= PartitionSize
    /\ pc' = "download"
    /\ UNCHANGED <<flashVars, updateVars, statusVars, envVars>>

\* Bug: an early return past the Idle at the end of the check.
BugDownloadRefused ==
    /\ pc = "download"
    /\ pc' = "select"
    /\ UNCHANGED <<flashVars, updateVars, statusVars, envVars>>

\* The connection fails or the server refuses.
DownloadRefused ==
    /\ pc = "download"
    /\ EndCheck
    /\ UNCHANGED <<flashVars, updateVars, envVars>>

DownloadStarts ==
    /\ pc = "download"
    /\ pc' = "body"
    /\ written' = 0
    /\ published' = NoPercent
    /\ UNCHANGED <<flashVars, target, statusVars, envVars>>

\* Bug: the partition after the selected one, whichever runs.
BugNext_partition == Other(selected)

\* next_partition: with two slots, the one that does not run.
Next_partition == Other(running)

\* One read and the write of what it returned, at the offset reached.
ReadChunk ==
    /\ pc = "body"
    /\ \E n \in Chunks :
         /\ written + n <= PartitionSize
         /\ written' = written + n
         /\ slots' = [slots EXCEPT ![Next_partition] =
                        [image |-> target, written |-> written + n]]
    /\ LET percent == Percent(written', target.size)
       IN  IF percent = published
           THEN UNCHANGED <<published, statusVars>>
           ELSE published' = percent /\ Send("Downloading")
    /\ UNCHANGED <<pc, running, selected, imageState, faulty, target, envVars>>

\* Bug: a broken transfer leaves the motors cut until the next check ends.
BugTransferFails ==
    /\ pc = "body"
    /\ pc' = "select"
    /\ UNCHANGED <<flashVars, updateVars, statusVars, envVars>>

\* A read error, or a write past the partition or refused by the flash, which may
\* have touched the slot all the same.
TransferFails ==
    /\ pc = "body"
    /\ EndCheck
    /\ \/ slots' = slots
       \/ slots' = [slots EXCEPT ![Next_partition] = [image |-> target, written |-> written]]
    /\ UNCHANGED <<running, selected, imageState, faulty, updateVars, envVars>>

\* Bug: the end of the body is the end of the image.
BugEndOfBody ==
    /\ pc = "body"
    /\ pc' = "activate"
    /\ UNCHANGED <<flashVars, updateVars, statusVars, envVars>>

\* The body ends, with the announced size or with another one.
EndOfBody ==
    /\ pc = "body"
    /\ \/ written # target.size /\ EndCheck
       \/ written = target.size /\ pc' = "activate" /\ UNCHANGED statusVars
    /\ UNCHANGED <<flashVars, updateVars, envVars>>

\* activate_next_partition writes a new otadata entry.
Activate ==
    /\ pc = "activate"
    /\ \/ /\ pc' = "mark"
          /\ selected' = Next_partition
          /\ imageState' = "Undefined"
          /\ UNCHANGED <<faulty, statusVars>>
       \/ EndCheck /\ faulty' = TRUE /\ UNCHANGED <<selected, imageState>>
    /\ UNCHANGED <<slots, running, updateVars, envVars>>

\* set_current_ota_state(New); its failure ends the check, and nothing takes the
\* activation back.
MarkNew ==
    /\ pc = "mark"
    /\ \/ /\ imageState' = "New"
          /\ UNCHANGED faulty
          /\ PublishStatus("Applying")
          /\ pc' = "reboot"
       \/ EndCheck /\ faulty' = TRUE /\ UNCHANGED imageState
    /\ UNCHANGED <<slots, running, selected, updateVars, envVars>>

-----------------------------------------------------------------------------
(* The bootloader, the power, the other tasks *)

\* Reverting makes the other slot the selected one; a slot that is not intact is
\* passed over for this boot.
Bootloader ==
    /\ LET revert == Rollback /\ imageState = "PendingVerify" /\ Intact(slots[Other(selected)])
           slot   == IF revert THEN Other(selected) ELSE selected
       IN  /\ selected' = slot
           /\ running' = IF Intact(slots[slot]) THEN slot ELSE Other(slot)
           /\ imageState' = IF revert THEN "Valid"
                            ELSE IF Rollback /\ imageState = "New" THEN "PendingVerify"
                            ELSE imageState
    /\ pc' = "boot"
    /\ Progress!Reset
    /\ unseen' = FALSE
    /\ requested' = FALSE
    /\ configured' = FALSE
    /\ online' = FALSE
    /\ UNCHANGED <<slots, faulty, updateVars>>

SoftwareReset == pc = "reboot" /\ Bootloader

PowerCut == Bootloader

NetworkComesUp ==
    /\ pc \in Waiting
    /\ ~online
    /\ online' = TRUE
    /\ UNCHANGED <<pc, flashVars, updateVars, statusVars, requested, configured>>

\* manage_mqtt_client delivers the retained /config/ota.
Configure ==
    /\ pc \in Waiting
    /\ online
    /\ ~configured
    /\ configured' = TRUE
    /\ UNCHANGED <<pc, flashVars, updateVars, statusVars, requested, online>>

\* Any number of requests before the next check are one request.
RequestCheck ==
    /\ pc \in Waiting
    /\ online
    /\ ~requested
    /\ requested' = TRUE
    /\ UNCHANGED <<pc, flashVars, updateVars, statusVars, configured, online>>

DisplaySees ==
    /\ pc \in Waiting
    /\ unseen
    /\ unseen' = FALSE
    /\ UNCHANGED <<pc, flashVars, updateVars, status, envVars>>

-----------------------------------------------------------------------------
Manifest == NothingNew \/ NewVersion
Prepare == PreparationFails \/ RequestDownload
Download == DownloadRefused \/ DownloadStarts
Body == ReadChunk \/ TransferFails \/ EndOfBody

Step == \/ ConfirmSlot \/ NetworkIsUp \/ ServerIsConfigured
        \/ PeriodicCheck \/ RequestedCheck
        \/ Manifest \/ Prepare \/ Download \/ Body \/ Activate \/ MarkNew
        \/ SoftwareReset

Environment == \/ PowerCut \/ NetworkComesUp \/ Configure \/ RequestCheck \/ DisplaySees

Next == Step \/ Environment

Spec == Init /\ [][Next]_vars

\* The task is scheduled, and the server answers or the connection fails: nothing
\* in the task limits how long it waits for either.  The timer is created anew for
\* each select, so it cannot expire first over and over while a request waits.
FairSpec == Spec /\ WF_vars(Step) /\ SF_vars(RequestedCheck)

-----------------------------------------------------------------------------
(* Properties *)

\* Lines 214-216 and 254: an update never touches the slot it runs from, so a
\* power cut at any moment leaves a slot that boots.
RunningIntact == Intact(slots[running])

\* Lines 271-283: Applying is only announced for a slot that holds the whole of the
\* announced image and is the one to start next.
ApplyingIsComplete ==
    status = "Applying" =>
        /\ selected # running
        /\ slots[selected] = [image |-> target, written |-> target.size]
        /\ Intact(slots[selected])

\* Lines 282-283: only a failing otadata write leaves the slot to start next in
\* pieces: the activation stands, and the next update overwrites it.
SelectedBoots == ~faulty => Intact(slots[selected])

\* Lines 133-151: an update in flight, and nothing else, is announced as active,
\* whichever way out of check_and_apply_update is taken.
ActiveIffInFlight ==
    Progress!IsActive(status) <=>
        pc \in {"prepare", "download", "body", "activate", "mark", "reboot"}

\* Lines 89-98: once booted, an image is not reverted any more: another slot starts
\* only because an update selected it.
ConfirmedStays ==
    [][(running' # running /\ ~faulty) => selected # running \/ pc = "boot"]_vars

\* The watch goes through an update the way MotorControl expects it to.
ImplementsProgress == Progress!Spec

\* An update ends, in a released watch or in a reboot.
UpdateEnds == Progress!IsActive(status) ~> ~Progress!IsActive(status)

\* A request is never lost in a check that runs already: it starts another one.
RequestIsServed == (configured /\ requested) ~> (~configured \/ ~requested)

=============================================================================
