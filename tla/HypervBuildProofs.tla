------------------------- MODULE HypervBuildProofs -------------------------
(***************************************************************************)
(* Type correctness of one build, for every set of accepted                *)
(* configurations and whatever fails.                                      *)
(***************************************************************************)
EXTENDS HypervBuild, SequenceTheorems, TLAPS

(***************************************************************************)
(* The parts of TypeOK: what the runner keeps, and what the steps keep.    *)
(***************************************************************************)
RunnerTypeOK ==
  /\ config \in Configs
  /\ pc \in {"next", "run", "cleanup", "done"}
  /\ pos \in 0 .. Len(Steps) + 1
  /\ pc = "next" => pos >= 1
  /\ pc = "run" => pos \in 1 .. Len(Steps)
  /\ pc = "cleanup" => pos <= Len(Steps)
  /\ ctxDone \in BOOLEAN
  /\ bag \subseteq Key
  /\ result \in {"none", "artifact", "error", "cancelled", "halted", "panic"}

HostTypeOK == dvdProps \subseteq Image /\ own \in Own /\ host \in Host

\* TypeOK is its two parts, before and after a step.
LEMMA TypeParts ==
  /\ TypeOK <=> RunnerTypeOK /\ HostTypeOK
  /\ TypeOK' <=> RunnerTypeOK' /\ HostTypeOK'
BY DEF TypeOK, RunnerTypeOK, HostTypeOK

\* The lists of steps of the two builders have 32 and 34 entries.
LEMMA StepCount == Len(IsoSteps) = 32 /\ Len(VmcxSteps) = 34
BY DEF IsoSteps, VmcxSteps

LEMMA StepsLength == Len(Steps) \in Nat
BY StepCount DEF Steps

\* What the steps put in the bag are keys.
LEMMA Puts ==
  /\ {} \in SUBSET Key /\ {"build_dir"} \in SUBSET Key /\ {"iso_path"} \in SUBSET Key
  /\ {"floppy_path"} \in SUBSET Key /\ {"http_port"} \in SUBSET Key
  /\ {"SwitchName"} \in SUBSET Key /\ {"vmName"} \in SUBSET Key
  /\ {"cd_path"} \in SUBSET Key /\ {"http_ip"} \in SUBSET Key
  /\ {"communicator"} \in SUBSET Key /\ {"export_path"} \in SUBSET Key
  /\ {"error"} \in SUBSET Key
BY DEF Key

\* A Run that returns leaves the runner's state well typed.
LEMMA ReturnType ==
  ASSUME RunnerTypeOK, pc = "run", NEW put \in SUBSET Key, NEW halt \in BOOLEAN,
         Return(put, halt)
  PROVE  RunnerTypeOK'
<1>1. pos' \in {pos, pos + 1} /\ pc' \in {"cleanup", "next"} /\ config' = config
      /\ ctxDone' = ctxDone /\ result' = result
  BY DEF Return
<1>2. Len(Steps)' = Len(Steps)
  BY <1>1 DEF Steps
<1>3. bag' \subseteq Key
  BY DEF Return, RunnerTypeOK, Key
<1>4. pc' = "cleanup" => pos' = pos
  BY DEF Return
<1> QED
  BY <1>1, <1>2, <1>3, <1>4, StepsLength DEF RunnerTypeOK

\* ... whichever of the three ways it returns.
LEMMA ReturnsType ==
  ASSUME RunnerTypeOK, pc = "run",
         \/ \E put \in SUBSET Key : Continue(put)
         \/ HaltWithError
         \/ HaltOnCancel
  PROVE  RunnerTypeOK'
<1>1. CASE \E put \in SUBSET Key : Continue(put)
  BY <1>1, ReturnType DEF Continue
<1>2. CASE HaltWithError
  BY <1>2, ReturnType, Puts DEF HaltWithError, Key
<1>3. CASE HaltOnCancel
  BY <1>3, ReturnType, Puts DEF HaltOnCancel
<1> QED
  BY <1>1, <1>2, <1>3

\* A step that leaves the host alone.
LEMMA PlainType ==
  ASSUME TypeOK, NEW s, NEW put \in SUBSET Key, PlainInterruptible(s, put)
  PROVE  TypeOK'
<1>1. pc = "run" /\ UNCHANGED <<dvdProps, own, host>>
  BY DEF PlainInterruptible, Plain, Running
<1>2. Continue(put) \/ HaltWithError \/ HaltOnCancel
  BY DEF PlainInterruptible, Plain
<1>3. RunnerTypeOK'
  BY <1>1, <1>2, ReturnsType, TypeParts
<1> QED
  BY <1>1, <1>3, TypeParts DEF HostTypeOK

\* A call that fails leaves a host of the same kind.
LEMMA CallFailsType ==
  ASSUME NEW after \in Host, host \in Host, CallFails(after)
  PROVE  host' \in Host
BY DEF CallFails

\* The images of a mount or unmount step are images.
LEMMA PathsType ==
  ASSUME TypeOK
  PROVE  /\ OsDvd \in Seq(Image) /\ GuestDvd \in Seq(Image)
         /\ config.secondary \in Seq(SecondaryImage)
         /\ SecondaryDvds \in Seq(Image)
         /\ <<>> \in Seq(Image)
<1>1. config.secondary \in SecondaryDvdImages
  BY ConfigsAssumption DEF TypeOK, Config
<1>2. config.secondary \in Seq(SecondaryImage)
  <2>1. /\ <<>> \in Seq(SecondaryImage) /\ <<"sec1">> \in Seq(SecondaryImage)
        /\ <<"sec1", "sec2">> \in Seq(SecondaryImage)
        /\ <<"sec1", "sec2", "sec3">> \in Seq(SecondaryImage)
    BY DEF SecondaryImage
  <2> QED
    BY <1>1, <2>1 DEF SecondaryDvdImages
<1>3. SecondaryDvds \in Seq(SecondaryImage)
  <2>1. <<"cd">> \in Seq(SecondaryImage) /\ <<>> \in Seq(SecondaryImage)
    BY DEF SecondaryImage
  <2> QED
    BY <1>2, <2>1, ConcatProperties DEF SecondaryDvds
<1>4. SecondaryDvds \in Seq(Image)
  BY <1>3 DEF Image
<1> QED
  BY <1>2, <1>4 DEF OsDvd, GuestDvd, Image

LEMMA FirstType ==
  ASSUME NEW paths \in Seq(Image), NEW k \in 0 .. Len(paths)
  PROVE  First(paths, k) \subseteq Image
BY DEF First

\* Mounting and unmounting drives.
LEMMA MountType ==
  ASSUME TypeOK, pc = "run", NEW paths \in Seq(Image), NEW reachable,
         MountDrives(paths, reachable)
  PROVE  TypeOK'
<1>1. PICK k \in 0 .. Len(paths), stray \in BOOLEAN :
        LET made == First(paths, IF stray THEN k + 1 ELSE k) IN
          /\ stray => k < Len(paths)
          /\ host' = [host EXCEPT !.drives = @ \cup made]
          /\ dvdProps' = dvdProps \cup First(paths, k)
          /\ Continue({}) \/ HaltWithError
          /\ own' = own
  BY DEF MountDrives
<1>2. (IF stray THEN k + 1 ELSE k) \in 0 .. Len(paths)
  BY <1>1
<1>3. First(paths, IF stray THEN k + 1 ELSE k) \subseteq Image /\ First(paths, k) \subseteq Image
  BY <1>2, FirstType
<1>4. RunnerTypeOK'
  BY <1>1, ReturnsType, TypeParts
<1>5. HostTypeOK'
  BY <1>1, <1>3, TypeParts DEF HostTypeOK, Host
<1> QED
  BY <1>4, <1>5, TypeParts

LEMMA UnmountType ==
  ASSUME TypeOK, NEW s, NEW paths, UnmountDrives(s, paths)
  PROVE  TypeOK'
<1>1. PICK k \in 0 .. Len(paths) :
        /\ host' = [host EXCEPT !.drives = @ \ (First(paths, k) \cap dvdProps)]
        /\ dvdProps' \subseteq dvdProps
        /\ Continue({}) \/ HaltWithError
        /\ own' = own
  BY DEF UnmountDrives
<1>2. RunnerTypeOK'
  BY <1>1, ReturnsType, TypeParts DEF UnmountDrives, Running
<1>3. HostTypeOK'
  BY <1>1, TypeParts DEF HostTypeOK, Host
<1> QED
  BY <1>2, <1>3, TypeParts

\* The steps that leave the host alone.
PlainStep ==
  \/ StepValidateHost \/ StepValidateClone \/ StepDownload \/ StepCreateFloppy
  \/ StepHTTPServer \/ StepCreateCD \/ StepResizeVhd \/ StepEnableIntegrationService
  \/ StepConfigureVlan \/ StepSetBootOrder \/ StepSetFirstBootDevice
  \/ StepTypeBootCommand \/ StepConfigurePSRP \/ StepConnect \/ StepProvision
  \/ StepCleanupTempKeys

LEMMA PlainSteps ==
  ASSUME PlainStep
  PROVE  \E s, put : put \in SUBSET Key /\ PlainInterruptible(s, put)
<1>1. CASE StepDownload \/ StepTypeBootCommand \/ StepConnect \/ StepProvision
  BY <1>1, Puts DEF StepDownload, StepTypeBootCommand, StepConnect, StepProvision
<1>2. CASE ~(StepDownload \/ StepTypeBootCommand \/ StepConnect \/ StepProvision)
  <2>1. \E s, put : put \in SUBSET Key /\ Plain(s, put)
    BY <1>2, Puts
       DEF PlainStep, StepValidateHost, StepValidateClone, StepCreateFloppy,
           StepHTTPServer, StepCreateCD, StepResizeVhd, StepEnableIntegrationService,
           StepConfigureVlan, StepSetBootOrder, StepSetFirstBootDevice,
           StepConfigurePSRP, StepCleanupTempKeys
  <2> QED
    BY <2>1 DEF PlainInterruptible
<1> QED
  BY <1>1, <1>2

\* What the host becomes when an image of the VM is written.
LEMMA WrittenType ==
  ASSUME host \in Host
  PROVE  /\ [host EXCEPT !.image = "nested", !.sealed = Sealed] \in Host
         /\ [host EXCEPT !.image = "disks", !.sealed = Sealed, !.disks = "output"] \in Host
<1>1. /\ [host EXCEPT !.image = "nested", !.sealed = TRUE] \in Host
      /\ [host EXCEPT !.image = "disks", !.sealed = TRUE, !.disks = "output"] \in Host
  BY ZenonT(60) DEF Host
<1>2. /\ [host EXCEPT !.image = "nested", !.sealed = FALSE] \in Host
      /\ [host EXCEPT !.image = "disks", !.sealed = FALSE, !.disks = "output"] \in Host
  BY DEF Host
<1>3. Sealed = TRUE \/ Sealed = FALSE
  BY DEF Sealed
<1> QED
  BY <1>1, <1>2, <1>3, Zenon

\* Every Run preserves the types.
LEMMA RunStepType ==
  ASSUME TypeOK, RunStep
  PROVE  TypeOK'
<1> USE TypeParts
<1>1. CASE StepCreateBuildDir \/ StepOutputDir
  BY <1>1, ReturnsType, Puts
     DEF StepCreateBuildDir, StepOutputDir, Running, HostTypeOK, Host
<1>2. CASE \E s, put : put \in SUBSET Key /\ PlainInterruptible(s, put)
  BY <1>2, PlainType
<1>3. CASE StepCreateSwitch
  <2>1. RunnerTypeOK'
    BY <1>3, ReturnsType, Puts DEF StepCreateSwitch, Running
  <2>2. HostTypeOK'
    BY <1>3 DEF StepCreateSwitch, CallFails, HostTypeOK, Host, Own
  <2> QED
    BY <2>1, <2>2
<1>4. CASE StepCreateVM \/ StepCloneVM
  <2>1. RunnerTypeOK'
    BY <1>4, ReturnsType, Puts
       DEF StepCreateVM, StepCloneVM, MakeVM, Running
  <2>2. HostTypeOK'
    BY <1>4, ZenonT(60) DEF StepCreateVM, StepCloneVM, MakeVM, NewVM, CallFails, HostTypeOK, Host, Own
  <2> QED
    BY <2>1, <2>2
<1>5. CASE StepMountDvdDrive \/ StepMountGuestAdditions \/ StepMountSecondaryDvdImages
  BY <1>5, MountType, PathsType
     DEF StepMountDvdDrive, StepMountGuestAdditions, StepMountSecondaryDvdImages, Running
<1>6. CASE StepMountFloppydrive
  <2> DEFINE copied == [host EXCEPT !.floppyCopy = "file"]
             inserted == [copied EXCEPT !.floppy = TRUE]
  <2>1. RunnerTypeOK'
    BY <1>6, ReturnsType, Puts DEF StepMountFloppydrive, Running
  <2>2. copied \in Host /\ inserted \in Host
    BY ZenonT(60) DEF HostTypeOK, Host
  <2>3. host' \in {host, copied, inserted} /\ dvdProps' = dvdProps
        /\ (own' = own \/ own' = [own EXCEPT !.floppyPath = TRUE])
    BY <1>6 DEF StepMountFloppydrive
  <2>4. own' \in Own
    BY <2>3 DEF HostTypeOK, Own
  <2> QED
    BY <2>1, <2>2, <2>3, <2>4 DEF HostTypeOK
<1>7. CASE StepRun
  <2>1. RunnerTypeOK'
    BY <1>7, ReturnsType, Puts DEF StepRun, Running
  <2>2. HostTypeOK'
    BY <1>7 DEF StepRun, CallFails, HostTypeOK, Host, Own
  <2> QED
    BY <2>1, <2>2
<1>8. CASE StepShutdown
  <2>1. RunnerTypeOK'
    BY <1>8, ReturnsType, Puts DEF StepShutdown, Running
  <2>2. HostTypeOK'
    BY <1>8 DEF StepShutdown, HostTypeOK, Host
  <2> QED
    BY <2>1, <2>2
<1>9. CASE StepWaitForPowerOff \/ StepCompactDisk
  BY <1>9, ReturnsType, Puts
     DEF StepWaitForPowerOff, StepCompactDisk, Running, HostTypeOK
<1>10. CASE \/ StepUnmountSecondaryDvdImages \/ StepUnmountGuestAdditions
            \/ StepUnmountDvdDrive
  BY <1>10, UnmountType
     DEF StepUnmountSecondaryDvdImages, StepUnmountGuestAdditions, StepUnmountDvdDrive
<1>11. CASE StepUnmountFloppyDrive
  <2>1. RunnerTypeOK'
    BY <1>11, ReturnsType, Puts
       DEF StepUnmountFloppyDrive, Running
  <2>2. HostTypeOK'
    BY <1>11, ZenonT(60) DEF StepUnmountFloppyDrive, CallFails, HostTypeOK, Host
  <2> QED
    BY <2>1, <2>2
<1>12. CASE StepExportVm
  <2> DEFINE exported == [host EXCEPT !.image = "nested", !.sealed = Sealed]
  <2>1. RunnerTypeOK'
    BY <1>12, ReturnsType, Puts DEF StepExportVm, Running
  <2>2. exported \in Host
    BY WrittenType, Zenon DEF HostTypeOK
  <2>3. host' \in {host, exported} /\ UNCHANGED <<dvdProps, own>>
    BY <1>12 DEF StepExportVm, CallFails
  <2> QED
    BY <2>1, <2>2, <2>3 DEF HostTypeOK
<1>13. CASE StepCollateArtifacts
  <2> DEFINE moved ==
        [host EXCEPT !.image = "disks", !.sealed = Sealed, !.disks = "output"]
      lifted == [host EXCEPT !.image = "flat"]
  <2>1. RunnerTypeOK'
    BY <1>13, ReturnsType, Puts DEF StepCollateArtifacts, Running
  <2>2. moved \in Host
    BY WrittenType, Zenon DEF HostTypeOK
  <2>3. lifted \in Host
    BY DEF HostTypeOK, Host
  <2>4. host' \in {host, moved, lifted} /\ UNCHANGED <<dvdProps, own>>
    BY <1>13 DEF StepCollateArtifacts, CallFails
  <2> QED
    BY <2>1, <2>2, <2>3, <2>4 DEF HostTypeOK
<1>14. CASE PlainStep
  BY <1>14, <1>2, PlainSteps
<1> QED
  BY <1>1, <1>3, <1>4, <1>5, <1>6, <1>7, <1>8, <1>9, <1>10, <1>11, <1>12, <1>13, <1>14
     DEF RunStep, RunOtherStep, PlainStep

\* A Cleanup keeps to the runner's part what it owes it.
LEMMA CleansUpType ==
  ASSUME RunnerTypeOK, NEW s, CleansUp(s)
  PROVE  RunnerTypeOK'
<1>1. pos' = pos - 1 /\ pos > 0 /\ UNCHANGED <<config, pc, ctxDone, bag, result>>
      /\ pc = "cleanup" /\ pos \in 0 .. Len(Steps) + 1 /\ pos <= Len(Steps)
  BY DEF CleansUp, RunnerTypeOK
<1>2. Len(Steps)' = Len(Steps)
  BY <1>1 DEF Steps
<1>3. pos' \in 0 .. Len(Steps)
  BY <1>1, StepsLength
<1> QED
  BY <1>1, <1>2, <1>3, StepsLength DEF RunnerTypeOK

\* Every Cleanup preserves the types.
LEMMA CleanupStepType ==
  ASSUME TypeOK, CleanupStep
  PROVE  TypeOK'
<1>1. \E s : CleansUp(s)
  BY DEF CleanupStep, CleanupCreateBuildDir, CleanupOutputDir, CleanupCreateSwitch,
         CleanupVM, CleanupMountDvdDrive, CleanupMountGuestAdditions,
         CleanupMountSecondaryDvdImages, CleanupDrives, CleanupMountFloppydrive,
         CleanupRun, NoCleanup
<1>2. RunnerTypeOK'
  BY <1>1, CleansUpType, TypeParts
<1>3. dvdProps' = dvdProps /\ own' = own /\ dvdProps \subseteq Image /\ own \in Own
      /\ host \in Host
  BY <1>1, TypeParts DEF CleansUp, HostTypeOK
<1>4. CASE CleanupCreateBuildDir \/ CleanupOutputDir \/ CleanupCreateSwitch \/ CleanupVM
  <2> DEFINE deleted == [host EXCEPT !.buildDir = "deleted",
                                     !.disks = IF @ = "build" THEN "gone" ELSE @]
             unregistered == [host EXCEPT !.vm = "absent", !.drives = {},
                                          !.floppy = FALSE, !.otherVM = FALSE]
  <2> HIDE DEF deleted, unregistered
  <2>1. deleted \in Host /\ unregistered \in Host
    <3>1. /\ [host EXCEPT !.buildDir = "deleted", !.disks = "gone"] \in Host
          /\ [host EXCEPT !.buildDir = "deleted", !.disks = host.disks] \in Host
          /\ [host EXCEPT !.vm = "absent", !.drives = {}, !.floppy = FALSE,
                          !.otherVM = FALSE] \in Host
      BY <1>3, ZenonT(60) DEF Host
    <3>2. CASE host.disks = "build"
      BY <3>1, <3>2, Zenon DEF deleted, unregistered
    <3>3. CASE host.disks # "build"
      BY <3>1, <3>3, Zenon DEF deleted, unregistered
    <3> QED
      BY <3>2, <3>3
  <2>2. /\ [host EXCEPT !.outputDir = "deleted"] \in Host
        /\ [host EXCEPT !.switch = "none"] \in Host
    BY <1>3 DEF Host
  <2>3. host' \in {host, deleted, unregistered, [host EXCEPT !.outputDir = "deleted"],
                   [host EXCEPT !.switch = "none"]}
    BY <1>4, Zenon DEF CleanupCreateBuildDir, CleanupOutputDir, CleanupCreateSwitch,
                       CleanupVM, Attempt, deleted, unregistered
  <2> QED
    BY <1>2, <1>3, <2>1, <2>2, <2>3, TypeParts DEF HostTypeOK
<1>5. CASE CleanupMountDvdDrive \/ CleanupMountGuestAdditions
           \/ CleanupMountSecondaryDvdImages
  <2>1. \E deleted : host' = [host EXCEPT !.drives = @ \ deleted]
    BY <1>5 DEF CleanupMountDvdDrive, CleanupMountGuestAdditions,
                CleanupMountSecondaryDvdImages, CleanupDrives
  <2>2. host' \in Host
    BY <1>3, <2>1 DEF Host
  <2> QED
    BY <1>2, <1>3, <2>2, TypeParts DEF HostTypeOK
<1>6. CASE CleanupMountFloppydrive
  <2>1. \/ host' = host
        \/ \E e, r \in BOOLEAN :
             host' = [host EXCEPT !.floppy = IF e THEN FALSE ELSE @,
                                  !.floppyCopy = IF r THEN "dir" ELSE @]
    BY <1>6 DEF CleanupMountFloppydrive
  <2>2. /\ [host EXCEPT !.floppy = FALSE, !.floppyCopy = "dir"] \in Host
        /\ [host EXCEPT !.floppy = host.floppy, !.floppyCopy = "dir"] \in Host
        /\ [host EXCEPT !.floppy = FALSE, !.floppyCopy = host.floppyCopy] \in Host
        /\ [host EXCEPT !.floppy = host.floppy, !.floppyCopy = host.floppyCopy] \in Host
    BY <1>3, ZenonT(60) DEF Host
  <2>3. host' \in Host
    BY <1>3, <2>1, <2>2, Zenon
  <2> QED
    BY <1>2, <1>3, <2>3, TypeParts DEF HostTypeOK
<1>7. CASE CleanupRun \/ NoCleanup
  <2>1. host' \in Host
    BY <1>3, <1>7 DEF CleanupRun, NoCleanup, Attempt, Host
  <2> QED
    BY <1>2, <1>3, <2>1, TypeParts DEF HostTypeOK
<1> QED
  BY <1>4, <1>5, <1>6, <1>7 DEF CleanupStep

\* The runner's own actions, and those of the guest and the user.
LEMMA RunnerType ==
  ASSUME TypeOK,
         \/ RunnerNext \/ Panic \/ Cancel \/ MarkCancelled \/ Guest \/ Finish
         \/ UNCHANGED vars
  PROVE  TypeOK'
<1> USE StepsLength DEF TypeOK
<1>1. CASE RunnerNext
  <2>1. config' = config /\ Len(Steps)' = Len(Steps)
    BY <1>1 DEF RunnerNext, Steps
  <2>2. bag' \subseteq Key
    BY <1>1 DEF RunnerNext, Key
  <2>3. CASE pos > Len(Steps) \/ ctxDone
    BY <1>1, <2>1, <2>2, <2>3 DEF RunnerNext
  <2>4. CASE ~(pos > Len(Steps) \/ ctxDone)
    BY <1>1, <2>1, <2>2, <2>4 DEF RunnerNext
  <2> QED
    BY <2>3, <2>4
<1>2. CASE Panic
  BY <1>2 DEF Panic, Steps
<1>3. CASE Cancel
  BY <1>3 DEF Cancel, Steps
<1>4. CASE MarkCancelled
  BY <1>4 DEF MarkCancelled, Key, Steps
<1>5. CASE Guest
  BY <1>5 DEF Guest, Host, Steps
<1>6. CASE Finish
  BY <1>6 DEF Finish, Steps
<1>7. CASE UNCHANGED vars
  BY <1>7 DEF vars, Steps
<1> QED
  BY <1>1, <1>2, <1>3, <1>4, <1>5, <1>6, <1>7

\* Every step preserves the types.
LEMMA TypeStep == TypeOK /\ [Next]_vars => TypeOK'
BY RunStepType, CleanupStepType, RunnerType DEF Next, Terminated

\* A build starts well typed.
LEMMA InitType == Init => TypeOK
<1> SUFFICES ASSUME Init PROVE TypeOK
  OBVIOUS
<1>1. config \in Configs /\ config \in Config
  BY ConfigsAssumption DEF Init
<1>2. config.keepRegistered \in BOOLEAN /\ config.nameTaken \in BOOLEAN
  BY <1>1 DEF Config
<1>3. host \in Host /\ own \in Own
  BY <1>2 DEF Init, Host, Own
<1>4. pos \in 0 .. Len(Steps) + 1 /\ bag \subseteq Key
  BY StepsLength DEF Init, Key
<1>5. pc = "next" /\ pos = 1 /\ ctxDone = FALSE /\ dvdProps = {} /\ result = "none"
  BY Zenon DEF Init
<1>6. ctxDone \in BOOLEAN
  BY <1>5, Zenon
<1>7. /\ pc = "next" /\ pc # "run" /\ pc # "cleanup" /\ pos >= 1
      /\ result = "none" /\ dvdProps \subseteq Image
  BY <1>5
<1> QED
  BY <1>1, <1>3, <1>4, <1>5, <1>6, <1>7 DEF TypeOK

(***************************************************************************)
(* TypeCorrect: whatever the set of accepted configurations, the state of  *)
(* the build, of the runner and of the host keeps its types, and the       *)
(* runner's position stays within the list of steps (multistep's loops     *)
(* over b.steps in Run and in the deferred Cleanups).                      *)
(***************************************************************************)
THEOREM TypeCorrect == Spec => []TypeOK
BY InitType, TypeStep, PTL DEF Spec
=============================================================================
