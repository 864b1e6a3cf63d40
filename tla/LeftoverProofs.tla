---------------------------- MODULE LeftoverProofs ----------------------------
(***************************************************************************)
(* What a build needs of the state bag, and what it leaves on the host     *)
(* when it is over, for every set of accepted configurations.              *)
(*                                                                         *)
(* The argument: each key that a step asserts is put by an earlier step    *)
(* (BagInv).  A thing is there only once the step that makes it has been   *)
(* reached, and when the cleanups work it is gone once that step has been  *)
(* cleaned up, unless it is to be kept (LeftInv); what is to be kept is    *)
(* touched by no cleanup of a build that nothing spoilt (KeptInv); and the *)
(* steps of a build that meets no fault all go on (SmoothInv), the drives  *)
(* they make having a place each (RoomForNext).                            *)
(***************************************************************************)
EXTENDS PromiseProofs, FiniteSetTheorems

\* Where the VM is made; the switch is made one step earlier.
VmAt == IF config.builder = "iso" THEN 8 ELSE 9

LEMMA MakersPositions ==
  ASSUME TypeOK
  PROVE  /\ VmAt \in {8, 9}
         /\ \A i \in 1 .. Len(Steps) :
              /\ Steps[i] = "CreateBuildDir" <=> i = 1
              /\ Steps[i] = "HTTPServer" <=> i = VmAt - 2
              /\ Steps[i] = "CreateSwitch" <=> i = VmAt - 1
              /\ Steps[i] \in {"CreateVM", "CloneVM"} <=> i = VmAt
              /\ Steps[i] = "Connect" <=> i = Shift + 21
              /\ Steps[i] = "ValidateClone" => config.builder = "vmcx" /\ i < VmAt
              /\ Steps[i] = "CloneVM" => config.builder = "vmcx"
              /\ i <= VmAt =>
                   Steps[i] \in {"CreateBuildDir", "OutputDir", "ValidateHost", "ValidateClone",
                                 "Download", "CreateFloppy", "HTTPServer", "CreateSwitch",
                                 "CreateVM", "CloneVM"}
<1>1. config.builder = "iso" \/ config.builder = "vmcx"
  BY ConfigsAssumption DEF TypeOK, Config
<1>2. CASE config.builder = "iso"
  BY <1>2, SMTT(60) DEF Steps, IsoSteps, Shift, VmAt
<1>3. CASE config.builder = "vmcx"
  BY <1>3, SMTT(60) DEF Steps, VmcxSteps, Shift, VmAt
<1> QED
  BY <1>1, <1>2, <1>3

(***************************************************************************)
(* What a Run touches, however it returns, and what one that goes on has   *)
(* put in the bag.                                                         *)
(***************************************************************************)
Maker == {"CreateVM", "CloneVM"}

\* Every switch that is made is known as the build's own.
OwnKnown == ~RunMayFailLate /\ ~SwitchIsPrinted

Touches ==
  /\ Steps[pos] # "CreateBuildDir" => host'.buildDir = host.buildDir
  /\ Steps[pos] # "CreateSwitch" =>
       host'.switch = host.switch /\ own'.createdSwitch = own.createdSwitch
  /\ Steps[pos] = "CreateSwitch" /\ OwnKnown =>
       host'.switch = host.switch \/ own'.createdSwitch
  /\ Steps[pos] \notin Maker =>
       own'.keepVM = own.keepVM /\ (host.vm = "absent" => host'.vm = "absent")
  /\ Steps[pos] \in Maker => own'.keepVM = own.keepVM \/ host' = host
  /\ Steps[pos] \notin Maker /\ ~config.skipExport => host'.disks = host.disks

Provides ==
  /\ Steps[pos] = "CreateBuildDir" => "build_dir" \in bag' /\ host'.buildDir = "present"
  /\ Steps[pos] = "HTTPServer" => "http_port" \in bag'
  /\ Steps[pos] = "CreateSwitch" => "SwitchName" \in bag'
  /\ Steps[pos] \in Maker =>
       "vmName" \in bag' /\ host'.disks = "build" /\ own'.keepVM = own.keepVM
  /\ Steps[pos] = "Connect" => "communicator" \in bag'

\* What a step that goes on puts is in the bag.
LEMMA ContinuePuts ==
  ASSUME NEW put, Continue(put)
  PROVE  put \subseteq bag'
BY DEF Continue, Return

LEMMA RunTouches ==
  ASSUME TypeOK, RunStep
  PROVE  Touches /\ (pc' = "next" => Provides)
<1> USE DEF Running, CallFails, Maker
<1>1. host \in Host /\ own \in Own
  BY DEF TypeOK
<1>2. pc' = "next" => ~HaltWithError /\ ~HaltOnCancel
  BY RunReturns, ReturnEffect
<1>3. CASE PlainStep
  <2>1. UNCHANGED <<own, host>>
    BY <1>3, PlainSteps DEF PlainInterruptible, Plain
  <2>2. Steps[pos] \in {"ValidateHost", "ValidateClone", "Download", "CreateFloppy", "HTTPServer",
           "CreateCD", "ResizeVhd", "EnableIntegrationService", "ConfigureVlan",
           "SetBootOrder", "SetFirstBootDevice", "TypeBootCommand", "ConfigurePSRP",
           "Connect", "Provision", "CleanupTempKeys"}
    BY <1>3 DEF PlainStep, StepValidateHost, StepValidateClone, StepDownload, StepCreateFloppy,
           StepHTTPServer, StepCreateCD, StepResizeVhd, StepEnableIntegrationService,
           StepConfigureVlan, StepSetBootOrder, StepSetFirstBootDevice,
           StepTypeBootCommand, StepConfigurePSRP, StepConnect, StepProvision,
           StepCleanupTempKeys, PlainInterruptible, Plain
  <2>3. CASE StepHTTPServer
    BY <1>2, <2>1, <2>3, ContinuePuts DEF StepHTTPServer, Plain, Touches, Provides
  <2>4. CASE StepConnect
    BY <1>2, <2>1, <2>4, ContinuePuts
       DEF StepConnect, Plain, PlainInterruptible, Touches, Provides
  <2>5. CASE ~StepHTTPServer /\ ~StepConnect
    <3>1. Steps[pos] \notin {"HTTPServer", "Connect"}
      BY <1>3, <2>5 DEF PlainStep, StepValidateHost, StepValidateClone, StepDownload,
           StepCreateFloppy, StepCreateCD, StepResizeVhd, StepEnableIntegrationService,
           StepConfigureVlan, StepSetBootOrder, StepSetFirstBootDevice,
           StepTypeBootCommand, StepConfigurePSRP, StepProvision,
           StepCleanupTempKeys, PlainInterruptible, Plain
    <3> QED
      BY <2>1, <2>2, <3>1 DEF Touches, Provides
  <2> QED
    BY <2>3, <2>4, <2>5
<1>4. CASE StepCreateBuildDir
  BY <1>1, <1>2, <1>4, ContinuePuts DEF StepCreateBuildDir, Host, Touches, Provides
<1>5. CASE StepOutputDir
  BY <1>1, <1>5 DEF StepOutputDir, Host, Touches, Provides
<1>6. CASE StepCreateSwitch
  <2> DEFINE made == [host EXCEPT !.switch = IF @ = "none" THEN "ours" ELSE @]
  <2>1. Steps[pos] = "CreateSwitch" /\ (pc' = "next" => "SwitchName" \in bag')
    BY <1>2, <1>6, ContinuePuts DEF StepCreateSwitch
  <2> DEFINE known == host.switch = "none" /\ ~SwitchIsPrinted
  <2>2. \/ host' = made /\ own' = [own EXCEPT !.createdSwitch = known]
        \/ host' = host /\ own' = own
        \/ RunMayFailLate /\ host' = made /\ own' = own
    BY <1>6 DEF StepCreateSwitch
  <2>3. host'.buildDir = host.buildDir /\ host'.vm = host.vm /\ host'.disks = host.disks
        /\ own'.keepVM = own.keepVM
    BY <1>1, <2>2 DEF Host, Own
  <2>4. OwnKnown => host'.switch = host.switch \/ own'.createdSwitch
    BY <1>1, <2>2 DEF Host, Own, OwnKnown
  <2> QED
    BY <2>1, <2>3, <2>4 DEF Touches, Provides
<1>7. CASE StepCreateVM \/ StepCloneVM
  <2>1. Steps[pos] \in Maker
    BY <1>7 DEF StepCreateVM, StepCloneVM
  <2>2. \/ own' = own /\ host' = NewVM
        \/ host' = host /\ (own' = own \/ own' = [own EXCEPT !.keepVM = TRUE])
    BY <1>7 DEF StepCreateVM, StepCloneVM, MakeVM
  <2>3. pc' = "next" => "vmName" \in bag' /\ host' = NewVM /\ own' = own
    BY <1>2, <1>7, ContinuePuts DEF StepCreateVM, StepCloneVM, MakeVM
  <2>4. host'.buildDir = host.buildDir /\ host'.switch = host.switch
        /\ own'.createdSwitch = own.createdSwitch
    BY <1>1, <2>2 DEF Host, Own, NewVM
  <2>5. NewVM.disks = "build"
    BY <1>1 DEF Host, NewVM
  <2> QED
    BY <2>1, <2>2, <2>3, <2>4, <2>5 DEF Touches, Provides
<1>8. CASE \/ StepMountDvdDrive \/ StepMountGuestAdditions \/ StepMountSecondaryDvdImages
           \/ StepUnmountSecondaryDvdImages \/ StepUnmountGuestAdditions
           \/ StepUnmountDvdDrive
  <2>1. (\E d : host' = [host EXCEPT !.drives = d]) /\ own' = own
    BY <1>8 DEF StepMountDvdDrive, StepMountGuestAdditions, StepMountSecondaryDvdImages,
                MountDrives, StepUnmountSecondaryDvdImages, StepUnmountGuestAdditions,
                StepUnmountDvdDrive, UnmountDrives
  <2>2. Steps[pos] \in Mounts \cup Unmounts
    BY <1>8 DEF StepMountDvdDrive, StepMountGuestAdditions, StepMountSecondaryDvdImages,
                StepUnmountSecondaryDvdImages, StepUnmountGuestAdditions,
                StepUnmountDvdDrive, UnmountDrives, Mounts, Unmounts
  <2> QED
    BY <1>1, <2>1, <2>2 DEF Host, Touches, Provides, Mounts, Unmounts
<1>9. CASE StepMountFloppydrive \/ StepUnmountFloppyDrive
  <2>1. \E f, c : host' = [host EXCEPT !.floppy = f, !.floppyCopy = c]
    <3>1. \/ host' = host \/ host' = [host EXCEPT !.floppyCopy = "file"]
          \/ host' = [host EXCEPT !.floppyCopy = "file", !.floppy = TRUE]
          \/ host' = [host EXCEPT !.floppy = FALSE]
      BY <1>1, <1>9 DEF StepMountFloppydrive, StepUnmountFloppyDrive, Host
    <3>2. host' = [host EXCEPT !.floppy = host'.floppy, !.floppyCopy = host'.floppyCopy]
      BY <1>1, <3>1 DEF Host
    <3> QED
      BY <3>2
  <2>2. own' = own \/ own' = [own EXCEPT !.floppyPath = TRUE]
    BY <1>9 DEF StepMountFloppydrive, StepUnmountFloppyDrive
  <2>3. Steps[pos] \in {"MountFloppydrive", "UnmountFloppyDrive"}
    BY <1>9 DEF StepMountFloppydrive, StepUnmountFloppyDrive
  <2> QED
    BY <1>1, <2>1, <2>2, <2>3 DEF Host, Own, Touches, Provides
<1>10. CASE StepRun \/ StepShutdown \/ StepWaitForPowerOff \/ StepCompactDisk
  <2>1. /\ host' = [host EXCEPT !.vm = host'.vm] /\ (host.vm = "absent" => host'.vm = "absent")
        /\ Steps[pos] \in {"Run", "Shutdown", "WaitForPowerOff", "CompactDisk"}
    <3>1. CASE StepRun
      <4>1. host' = host \/ host' = [host EXCEPT !.vm = IF @ = "off" THEN "running" ELSE @]
        BY <3>1 DEF StepRun
      <4> QED
        BY <1>1, <3>1, <4>1 DEF StepRun, Host
    <3>2. CASE StepShutdown
      <4>1. host' = host \/ (host.vm = "running" /\ host' = [host EXCEPT !.vm = "off"])
        BY <3>2 DEF StepShutdown
      <4> QED
        BY <1>1, <3>2, <4>1 DEF StepShutdown, Host
    <3>3. CASE StepWaitForPowerOff \/ StepCompactDisk
      BY <1>1, <3>3 DEF StepWaitForPowerOff, StepCompactDisk, Host
    <3> QED
      BY <1>10, <3>1, <3>2, <3>3
  <2>2. own' = own \/ own' = [own EXCEPT !.started = TRUE]
    BY <1>10 DEF StepRun, StepShutdown, StepWaitForPowerOff, StepCompactDisk
  <2>3. /\ host'.buildDir = host.buildDir /\ host'.switch = host.switch
        /\ host'.disks = host.disks
    BY <1>1, <2>1 DEF Host
  <2>4. own'.keepVM = own.keepVM /\ own'.createdSwitch = own.createdSwitch
    BY <1>1, <2>2 DEF Own
  <2> QED
    BY <2>1, <2>3, <2>4 DEF Touches, Provides
<1>11. CASE StepExportVm \/ StepCollateArtifacts
  <2> DEFINE sealed == Sealed
  <2>1. \/ host' = host
        \/ host' = [host EXCEPT !.image = "nested", !.sealed = sealed]
        \/ /\ config.skipExport
           /\ host' = [host EXCEPT !.image = "disks", !.sealed = sealed, !.disks = "output"]
        \/ host' = [host EXCEPT !.image = "flat"]
    BY <1>11 DEF StepExportVm, StepCollateArtifacts
  <2>2. own' = own /\ Steps[pos] \in {"ExportVm", "CollateArtifacts"}
    BY <1>11 DEF StepExportVm, StepCollateArtifacts
  <2> HIDE DEF sealed
  <2>3. /\ host'.buildDir = host.buildDir /\ host'.switch = host.switch
        /\ host'.vm = host.vm /\ (~config.skipExport => host'.disks = host.disks)
    BY <1>1, <2>1 DEF Host
  <2> QED
    BY <2>2, <2>3 DEF Touches, Provides
<1> QED
  BY <1>3, <1>4, <1>5, <1>6, <1>7, <1>8, <1>9, <1>10, <1>11 DEF RunStep, RunOtherStep, PlainStep

\* The steps that are neither a Run nor a Cleanup.
LEMMA OtherTouches ==
  ASSUME TypeOK, [Next]_vars, ~RunStep, ~CleanupStep
  PROVE  /\ UNCHANGED <<config, own>> /\ bag \subseteq bag'
         /\ host'.buildDir = host.buildDir /\ host'.switch = host.switch
         /\ host'.disks = host.disks /\ host'.drives = host.drives
         /\ host'.floppy = host.floppy
         /\ host.vm # "running" => host'.vm = host.vm
         /\ host.vm = "running" => host'.vm # "absent"
         /\ \/ UNCHANGED <<pc, pos, result>>
            \/ pc = "next" /\ pc' = "run" /\ UNCHANGED <<pos, result>>
            \/ pc = "next" /\ pc' = "cleanup" /\ pos' = pos - 1 /\ result' = result
            \/ Panic /\ pc = "run" /\ pc' = "cleanup" /\ pos' = pos - 1 /\ result' = "panic"
            \/ Finish /\ pc = "cleanup" /\ pc' = "done" /\ bag' = bag
<1>1. CASE Guest
  <2>1. /\ UNCHANGED <<config, own, pc, pos, bag, result>> /\ host.vm = "running"
        /\ \/ host' = [host EXCEPT !.vm = "off"]
           \/ host' = [host EXCEPT !.vm = "paused"]
    BY <1>1 DEF Guest
  <2> QED
    BY <2>1 DEF TypeOK, Host
<1>2. CASE RunnerNext
  BY <1>2 DEF RunnerNext
<1>3. CASE Panic
  BY <1>3 DEF Panic
<1>4. CASE Cancel \/ MarkCancelled
  BY <1>4 DEF Cancel, MarkCancelled
<1>5. CASE Finish
  BY <1>5 DEF Finish
<1>6. CASE UNCHANGED vars
  BY <1>6 DEF vars
<1> QED
  BY <1>1, <1>2, <1>3, <1>4, <1>5, <1>6 DEF Next, Terminated

(***************************************************************************)
(* The keys of the state bag.                                              *)
(***************************************************************************)
\* Nothing in the plugin puts "config", which only a clone's check asserts.
ConfigNotNeeded == ConfigInBag \/ config.builder = "iso"

BagInv ==
  /\ ConfigInBag => "config" \in bag
  /\ InRun =>
       /\ pos > 1 => "build_dir" \in bag
       /\ pos > VmAt - 2 => "http_port" \in bag
       /\ pos > VmAt - 1 => "SwitchName" \in bag
       /\ pos > VmAt => "vmName" \in bag
       /\ pos > Shift + 21 => "communicator" \in bag
  /\ ConfigNotNeeded => NoPanic

\* Each step finds the keys it asserts.
LEMMA NeedsMet ==
  ASSUME TypeOK, BagInv, pc = "run", ConfigNotNeeded
  PROVE  Needs(Steps[pos]) \subseteq bag
<1>1. pos \in 1 .. Len(Steps) /\ Len(Steps) = Shift + 32 /\ Shift \in {0, 2}
  BY Positions DEF TypeOK
<1>2. /\ VmAt \in {8, 9}
      /\ Steps[pos] = "Shutdown" => pos = Shift + 24
      /\ Steps[pos] = "ValidateClone" => config.builder = "vmcx" /\ pos < VmAt
      /\ Steps[pos] \in {"CreateVM", "CloneVM"} <=> pos = VmAt
      /\ pos <= VmAt =>
           Steps[pos] \in {"CreateBuildDir", "OutputDir", "ValidateHost", "ValidateClone",
                          "Download", "CreateFloppy", "HTTPServer", "CreateSwitch",
                          "CreateVM", "CloneVM"}
  BY <1>1, MakersPositions, Positions
<1>3. CASE pos < VmAt
  <2>1. Needs(Steps[pos]) \subseteq {"config"}
    BY <1>1, <1>2, <1>3 DEF Needs
  <2>2. Needs(Steps[pos]) # {} => Steps[pos] = "ValidateClone"
    BY <1>1, <1>2, <1>3 DEF Needs
  <2> QED
    BY <1>2, <2>1, <2>2 DEF BagInv, ConfigNotNeeded
<1>4. CASE pos = VmAt
  <2>1. Needs(Steps[pos]) \subseteq {"build_dir"}
    BY <1>2, <1>4 DEF Needs
  <2> QED
    BY <1>1, <1>2, <1>4, <2>1 DEF BagInv, InRun
<1>5. CASE pos > VmAt
  <2>1. {"build_dir", "http_port", "SwitchName", "vmName"} \subseteq bag
    BY <1>1, <1>2, <1>5 DEF BagInv, InRun
  <2>2. Steps[pos] = "Shutdown" => "communicator" \in bag
    BY <1>1, <1>2 DEF BagInv, InRun
  <2>3. Steps[pos] # "ValidateClone"
    BY <1>1, <1>2, <1>5
  <2> QED
    BY <2>1, <2>2, <2>3 DEF Needs
<1> QED
  BY <1>1, <1>2, <1>3, <1>4, <1>5

LEMMA BagStep == TypeOK /\ BagInv /\ [Next]_vars => BagInv'
<1> SUFFICES ASSUME TypeOK, BagInv, [Next]_vars PROVE BagInv'
  OBVIOUS
<1> USE DEF InRun, NoPanic
<1>0. pos \in Nat /\ VmAt \in {8, 9} /\ Shift \in {0, 2}
  BY MakersPositions, Positions, StepsLength DEF TypeOK
<1>1. CASE RunStep
  <2>1. /\ pc = "run" /\ pc' \in {"next", "cleanup"} /\ bag \subseteq bag'
        /\ UNCHANGED <<config, result>> /\ (pc' = "next" => pos' = pos + 1)
    BY <1>1, RunReturns, ReturnEffect DEF Returns
  <2>2. VmAt' = VmAt /\ Shift' = Shift /\ (ConfigNotNeeded' <=> ConfigNotNeeded)
    BY <2>1 DEF VmAt, Shift, ConfigNotNeeded
  <2>3. CASE pc' = "cleanup"
    BY <2>1, <2>2, <2>3 DEF BagInv
  <2>4. CASE pc' = "next"
    <3>1. Provides
      BY <1>1, <2>4, RunTouches
    <3>2. /\ Steps[pos] = "CreateBuildDir" <=> pos = 1
          /\ Steps[pos] = "HTTPServer" <=> pos = VmAt - 2
          /\ Steps[pos] = "CreateSwitch" <=> pos = VmAt - 1
          /\ Steps[pos] \in Maker <=> pos = VmAt
          /\ Steps[pos] = "Connect" <=> pos = Shift + 21
      BY <2>1, MakersPositions DEF TypeOK, Maker
    <3> QED
      BY <1>0, <2>1, <2>2, <2>4, <3>1, <3>2 DEF BagInv, Provides
  <2> QED
    BY <2>1, <2>3, <2>4
<1>2. CASE CleanupStep
  <2>1. pc = "cleanup" /\ UNCHANGED <<config, pc, bag, result>>
    BY <1>2, CleanupEffect
  <2> QED
    BY <2>1 DEF BagInv, ConfigNotNeeded
<1>3. CASE ~RunStep /\ ~CleanupStep
  <2>1. /\ UNCHANGED config /\ bag \subseteq bag'
        /\ \/ UNCHANGED <<pc, pos, result>>
           \/ pc = "next" /\ pc' = "run" /\ UNCHANGED <<pos, result>>
           \/ pc = "next" /\ pc' = "cleanup" /\ result' = result
           \/ Panic /\ pc = "run" /\ pc' = "cleanup"
           \/ Finish /\ pc = "cleanup" /\ pc' = "done"
    BY <1>3, OtherTouches
  <2>2. VmAt' = VmAt /\ Shift' = Shift /\ (ConfigNotNeeded' <=> ConfigNotNeeded)
    BY <2>1 DEF VmAt, Shift, ConfigNotNeeded
  <2>3. CASE Panic
    BY <2>1, <2>2, <2>3, NeedsMet DEF Panic, BagInv
  <2>4. CASE Finish
    BY <2>1, <2>2, <2>4 DEF Finish, BagInv
  <2>5. CASE ~Panic /\ ~Finish
    BY <2>1, <2>2, <2>5 DEF BagInv
  <2> QED
    BY <2>3, <2>4, <2>5
<1> QED
  BY <1>1, <1>2, <1>3

LEMMA BagCorrect == Spec => []BagInv
<1>1. Init => BagInv
  BY DEF Init, BagInv, InRun, NoPanic, VmAt, Shift
<1> QED
  BY <1>1, BagStep, TypeCorrect, PTL DEF Spec

(***************************************************************************)
(* OnlyConfigPanics: "config" is the one key of the state bag that a step  *)
(* may look for in vain.  An iso build, and a clone if something puts      *)
(* that key, never panics: whatever failed or was cancelled before, each   *)
(* step finds what it asserts (the step lists of both builder.go; the      *)
(* assertion of "config" is in step_validate_clone.go).                    *)
(***************************************************************************)
THEOREM OnlyConfigPanics == Spec => [](ConfigNotNeeded => NoPanic)
<1>1. BagInv => (ConfigNotNeeded => NoPanic)
  BY DEF BagInv
<1> QED
  BY <1>1, BagCorrect, PTL

(***************************************************************************)
(* What is there before a step is reached, and after its cleanup.          *)
(***************************************************************************)
Before(n) == InRun /\ pos <= n
CleanedUp(n) == (pc = "cleanup" /\ pos < n) \/ Done

DirectoryInv ==
  /\ Before(1) => host.buildDir # "present"
  /\ CleanedUp(1) /\ ~CleanupMayFail => config.keepRegistered \/ host.buildDir # "present"

OurSwitchInv ==
  /\ Before(VmAt - 1) => host.switch # "ours"
  /\ OwnKnown /\ host.switch = "ours" => own.createdSwitch
  /\ CleanedUp(VmAt - 1) /\ ~CleanupMayFail /\ OwnKnown => host.switch # "ours"

VmInv ==
  /\ Before(VmAt) => host.vm = "absent"
  /\ own.keepVM => config.keepRegistered \/ (~InRun /\ host.vm = "absent")
  /\ CleanedUp(VmAt) /\ ~CleanupMayFail => own.keepVM \/ host.vm = "absent"

LeftInv == DirectoryInv /\ OurSwitchInv /\ VmInv

\* A Run moves on, or stops where it is.
LEMMA RunMoves ==
  ASSUME RunStep
  PROVE  \/ pc' = "next" /\ pos' = pos + 1
         \/ pc' = "cleanup" /\ pos' = pos
<1>1. ASSUME NEW put, NEW halt \in BOOLEAN, Return(put, halt)
      PROVE  \/ pc' = "next" /\ pos' = pos + 1
             \/ pc' = "cleanup" /\ pos' = pos
  BY <1>1 DEF Return
<1>2. \E halt \in BOOLEAN : \E put : Return(put, halt)
  BY RunReturns DEF Returns, Continue, HaltWithError, HaltOnCancel
<1> QED
  BY <1>1, <1>2

\* The step at a place is the one of that place.
LEMMA CleanupAt ==
  ASSUME CleanupStep
  PROVE  /\ Steps[pos] = "CreateBuildDir" => CleanupCreateBuildDir
         /\ Steps[pos] = "CreateSwitch" => CleanupCreateSwitch
         /\ Steps[pos] \in Maker => CleanupVM
         /\ Steps[pos] # "CreateBuildDir" => host'.buildDir = host.buildDir \/ host \notin Host
         /\ Steps[pos] # "CreateSwitch" => host'.switch = host.switch \/ host \notin Host
<1> USE DEF CleansUp, Maker, Attempt, Host, HasCleanup
<1>1. CASE CleanupCreateBuildDir
  BY <1>1 DEF CleanupCreateBuildDir
<1>2. CASE CleanupOutputDir \/ CleanupRun
  BY <1>2 DEF CleanupOutputDir, CleanupRun
<1>3. CASE CleanupCreateSwitch
  BY <1>3 DEF CleanupCreateSwitch
<1>4. CASE CleanupVM
  BY <1>4 DEF CleanupVM
<1>5. CASE \/ CleanupMountDvdDrive \/ CleanupMountGuestAdditions
           \/ CleanupMountSecondaryDvdImages
  BY <1>5 DEF CleanupMountDvdDrive, CleanupMountGuestAdditions,
              CleanupMountSecondaryDvdImages, CleanupDrives
<1>6. CASE CleanupMountFloppydrive
  <2>1. \/ host' = host
        \/ \E e, r \in BOOLEAN :
             host' = [host EXCEPT !.floppy = IF e THEN FALSE ELSE @,
                                  !.floppyCopy = IF r THEN "dir" ELSE @]
    BY <1>6 DEF CleanupMountFloppydrive
  <2>2. \E f, c : host' = [host EXCEPT !.floppy = f, !.floppyCopy = c] \/ host' = host
    BY <2>1, Zenon
  <2> QED
    BY <1>6, <2>2 DEF CleanupMountFloppydrive
<1>7. CASE NoCleanup
  BY <1>7 DEF NoCleanup
<1> QED
  BY <1>1, <1>2, <1>3, <1>4, <1>5, <1>6, <1>7 DEF CleanupStep

LEMMA LeftRun ==
  ASSUME TypeOK, LeftInv, RunStep
  PROVE  LeftInv'
<1>1. pc = "run" /\ config' = config
      /\ ((pc' = "next" /\ pos' = pos + 1) \/ (pc' = "cleanup" /\ pos' = pos))
  BY RunReturns, ReturnEffect, RunMoves DEF Returns
<1>2. /\ VmAt' = VmAt /\ (OwnKnown' <=> OwnKnown)
      /\ (CleanupMayFail' <=> CleanupMayFail)
  BY <1>1 DEF VmAt, OwnKnown, RunMayFailLate, SwitchIsPrinted, CleanupMayFail
<1>3. /\ pos \in Nat /\ pos >= 1 /\ VmAt \in {8, 9}
      /\ Steps[pos] = "CreateBuildDir" <=> pos = 1
      /\ Steps[pos] = "CreateSwitch" <=> pos = VmAt - 1
      /\ Steps[pos] \in Maker <=> pos = VmAt
  BY <1>1, MakersPositions, StepsLength DEF TypeOK, Maker
<1>4. Touches /\ host'.buildDir \in {host.buildDir, "present"}
      /\ (host.switch = host'.switch \/ host.switch = "none")
  BY RunTouches, RunMakes DEF RunFrame
<1>5. DirectoryInv'
  BY <1>1, <1>3, <1>4 DEF LeftInv, DirectoryInv, Before, CleanedUp, InRun, Done, Touches
<1>6. OurSwitchInv'
  BY <1>1, <1>2, <1>3, <1>4 DEF LeftInv, OurSwitchInv, Before, CleanedUp, InRun, Done, Touches
<1>7. VmInv'
  <2>1. pos <= VmAt => host.vm = "absent"
    BY <1>1 DEF LeftInv, VmInv, Before, InRun
  <2>2. own'.keepVM => config'.keepRegistered \/ (~InRun' /\ host'.vm = "absent")
    <3>1. own.keepVM => config.keepRegistered
      BY <1>1 DEF LeftInv, VmInv, InRun
    <3>2. CASE own'.keepVM = own.keepVM
      BY <1>1, <3>1, <3>2
    <3>3. CASE own'.keepVM # own.keepVM
      <4>1. Steps[pos] \in Maker /\ host' = host
        BY <1>4, <3>3 DEF Touches
      <4>2. pc' # "next"
        BY <3>3, <4>1, RunTouches DEF Provides
      <4> QED
        BY <1>1, <1>3, <2>1, <4>1, <4>2 DEF InRun
    <3> QED
      BY <3>2, <3>3
  <2> QED
    BY <1>1, <1>2, <1>3, <1>4, <2>1, <2>2 DEF VmInv, Before, CleanedUp, InRun, Done, Touches
<1> QED
  BY <1>5, <1>6, <1>7 DEF LeftInv

LEMMA LeftCleanup ==
  ASSUME TypeOK, LeftInv, CleanupStep
  PROVE  LeftInv'
<1>1. pc = "cleanup" /\ UNCHANGED <<config, pc, bag, own>> /\ pos' = pos - 1
      /\ pos \in 1 .. Len(Steps) /\ host \in Host
  BY CleanupEffect, CleanupUndoes DEF CleanupFrame, TypeOK
<1>2. /\ VmAt' = VmAt /\ (OwnKnown' <=> OwnKnown)
      /\ (CleanupMayFail' <=> CleanupMayFail)
  BY <1>1 DEF VmAt, OwnKnown, RunMayFailLate, SwitchIsPrinted, CleanupMayFail
<1>3. /\ VmAt \in {8, 9}
      /\ Steps[pos] = "CreateBuildDir" <=> pos = 1
      /\ Steps[pos] = "CreateSwitch" <=> pos = VmAt - 1
      /\ Steps[pos] \in Maker <=> pos = VmAt
  BY <1>1, MakersPositions DEF Maker
<1>4. /\ host'.buildDir \in {host.buildDir, "deleted"}
      /\ host'.switch = host.switch \/ host'.switch = "none"
      /\ host.vm = "absent" => host'.vm = "absent"
  BY CleanupUndoes DEF CleanupFrame
<1>5. DirectoryInv'
  <2>1. CASE pos = 1
    <3>1. CleanupCreateBuildDir
      BY <1>3, <2>1, CleanupAt
    <3>2. ~CleanupMayFail => config.keepRegistered \/ host'.buildDir # "present"
      BY <1>1, <3>1 DEF CleanupCreateBuildDir, Attempt, Host
    <3> QED
      BY <1>1, <1>2, <3>2 DEF DirectoryInv, Before, CleanedUp, InRun, Done
  <2>2. CASE pos # 1
    BY <1>1, <1>2, <2>2 DEF DirectoryInv, Before, CleanedUp, InRun, Done
  <2> QED
    BY <2>1, <2>2
<1>6. OurSwitchInv'
  <2>1. CASE pos = VmAt - 1
    <3>1. CleanupCreateSwitch
      BY <1>3, <2>1, CleanupAt
    <3>2. ~CleanupMayFail /\ own.createdSwitch => host'.switch = "none"
      BY <1>1, <3>1 DEF CleanupCreateSwitch, Attempt, Host
    <3> QED
      BY <1>1, <1>2, <1>4, <3>2
         DEF LeftInv, OurSwitchInv, Before, CleanedUp, InRun, Done
  <2>2. CASE pos # VmAt - 1
    <3>1. pos' < VmAt - 1 => pos < VmAt - 1
      BY <1>1, <1>3, <2>2
    <3> QED
      BY <1>1, <1>2, <1>4, <3>1 DEF LeftInv, OurSwitchInv, Before, CleanedUp, InRun, Done
  <2> QED
    BY <2>1, <2>2
<1>7. VmInv'
  <2>1. CASE pos = VmAt
    <3>1. CleanupVM
      BY <1>3, <2>1, CleanupAt
    <3>2. ~CleanupMayFail /\ ~own.keepVM => host'.vm = "absent"
      BY <1>1, <3>1 DEF CleanupVM, Attempt, Host
    <3> QED
      BY <1>1, <1>2, <1>4, <3>2 DEF LeftInv, VmInv, Before, CleanedUp, InRun, Done
  <2>2. CASE pos # VmAt
    <3>1. pos' < VmAt => pos < VmAt
      BY <1>1, <1>3, <2>2
    <3> QED
      BY <1>1, <1>2, <1>4, <3>1 DEF LeftInv, VmInv, Before, CleanedUp, InRun, Done
  <2> QED
    BY <2>1, <2>2
<1> QED
  BY <1>5, <1>6, <1>7 DEF LeftInv

LEMMA LeftOther ==
  ASSUME TypeOK, LeftInv, [Next]_vars, ~RunStep, ~CleanupStep
  PROVE  LeftInv'
<1>1. /\ UNCHANGED <<config, own>> /\ host'.buildDir = host.buildDir
      /\ host'.switch = host.switch /\ (host.vm = "absent" <=> host'.vm = "absent")
      /\ \/ UNCHANGED <<pc, pos>>
         \/ pc = "next" /\ pc' = "run" /\ pos' = pos
         \/ InRun /\ pc' = "cleanup" /\ pos' = pos - 1
         \/ Finish /\ pc = "cleanup" /\ pc' = "done"
  BY OtherTouches DEF InRun
<1>2. /\ VmAt' = VmAt /\ (OwnKnown' <=> OwnKnown)
      /\ (CleanupMayFail' <=> CleanupMayFail) /\ pos \in Int /\ VmAt \in {8, 9}
  BY <1>1, MakersPositions, StepsLength
     DEF VmAt, OwnKnown, RunMayFailLate, SwitchIsPrinted, CleanupMayFail, TypeOK
<1>3. CASE UNCHANGED <<pc, pos>>
  BY <1>1, <1>2, <1>3 DEF LeftInv, DirectoryInv, OurSwitchInv, VmInv, Before, CleanedUp, InRun, Done
<1>4. CASE pc = "next" /\ pc' = "run" /\ pos' = pos
  BY <1>1, <1>2, <1>4 DEF LeftInv, DirectoryInv, OurSwitchInv, VmInv, Before, CleanedUp, InRun, Done
<1>5. CASE InRun /\ pc' = "cleanup" /\ pos' = pos - 1
  <2>1. \A n \in Int : (CleanedUp(n)' => Before(n)) /\ ~Before(n)'
    BY <1>2, <1>5 DEF CleanedUp, Before, InRun, Done
  <2> QED
    BY <1>1, <1>2, <1>5, <2>1 DEF LeftInv, DirectoryInv, OurSwitchInv, VmInv, InRun
<1>6. CASE Finish /\ pc = "cleanup" /\ pc' = "done"
  <2>1. \A n \in Int : n > 0 => CleanedUp(n) /\ ~Before(n)'
    BY <1>6 DEF Finish, CleanedUp, Before, InRun, Done
  <2> QED
    BY <1>1, <1>2, <1>6, <2>1 DEF LeftInv, DirectoryInv, OurSwitchInv, VmInv, InRun
<1> QED
  BY <1>1, <1>3, <1>4, <1>5, <1>6

LEMMA LeftInit == Init => LeftInv
<1> SUFFICES ASSUME Init PROVE LeftInv
  OBVIOUS
<1>1. /\ host.buildDir = "none" /\ host.switch # "ours" /\ host.vm = "absent"
      /\ pc = "next" /\ own.keepVM = config.keepRegistered
  BY DEF Init
<1> QED
  BY <1>1 DEF LeftInv, DirectoryInv, OurSwitchInv, VmInv, CleanedUp, Done

LEMMA LeftCorrect == Spec => []LeftInv
BY LeftInit, LeftRun, LeftCleanup, LeftOther, TypeCorrect, PTL DEF Spec

(***************************************************************************)
(* LeavesNothing: when driver calls fail cleanly and the cleanup's calls   *)
(* work, a build leaves no VM, build directory or switch of its own behind *)
(* unless it was asked to keep the VM, at whatever step it stopped, also   *)
(* half way through the calls that set the VM up, and also if it found its *)
(* VM's name taken (the Cleanups of StepCreateVM, StepCloneVM,             *)
(* StepCreateSwitch and StepCreateBuildDir); the switch, if New-VMSwitch   *)
(* prints nothing that hides from the build that it made one.              *)
(***************************************************************************)
THEOREM LeavesNothing == Spec => []NothingLeft
<1>1. LeftInv => NothingLeft
  BY DEF LeftInv, DirectoryInv, OurSwitchInv, VmInv, CleanedUp, NothingLeft, OwnKnown
<1> QED
  BY <1>1, LeftCorrect, PTL

(***************************************************************************)
(* FilesOutlive: when the cleanup's calls work, the build directory is     *)
(* deleted only after the VM whose files it holds, unless the VM is kept:  *)
(* the directory is made first, and cleaned up last.                       *)
(***************************************************************************)
THEOREM FilesOutlive == Spec => FilesOutliveVm
<1>1. TypeOK /\ LeftInv /\ [Next]_vars =>
        [~CleanupMayFail /\ host.buildDir = "present" /\ host'.buildDir = "deleted"
           => host.vm = "absent" \/ own.keepVM]_vars
  <2> SUFFICES ASSUME TypeOK, LeftInv, Next, ~CleanupMayFail, host.buildDir = "present",
                      host'.buildDir = "deleted"
               PROVE  host.vm = "absent" \/ own.keepVM
    BY DEF vars
  <2>1. CleanupStep
    <3>1. ~RunStep
      BY RunMakes DEF RunFrame
    <3> QED
      BY <3>1, OtherTouches
  <2>2. pos \in 1 .. Len(Steps) /\ pc = "cleanup" /\ Steps[pos] = "CreateBuildDir"
    BY <2>1, CleanupAt, CleanupEffect, CleanupUndoes DEF CleanupFrame, TypeOK
  <2>3. pos = 1 /\ VmAt \in {8, 9}
    BY <2>2, MakersPositions
  <2> QED
    BY <2>2, <2>3 DEF LeftInv, VmInv, CleanedUp
<1> QED
  BY <1>1, LeftCorrect, TypeCorrect, PTL DEF Spec, FilesOutliveVm

(***************************************************************************)
(* A VM that is to be kept.                                                *)
(***************************************************************************)
KeptState ==
  /\ host.vm = "off" /\ host.disks = "build" /\ host.buildDir = "present"
  /\ host.drives = {} /\ ~host.floppy

KeptInv ==
  config.keepRegistered /\ ~config.skipExport =>
    /\ own.keepVM
    /\ InRun /\ pos > 1 => host.buildDir = "present"
    /\ InRun /\ pos > VmAt => host.disks = "build"
    /\ ~InRun /\ ~Interrupted /\ ~Failed /\ result # "panic" => KeptState

\* The cleanups of a build that nothing spoilt leave it alone.
LEMMA KeptCleanup ==
  ASSUME TypeOK, CleanupStep, own.keepVM, config.keepRegistered, ~Interrupted, KeptState
  PROVE  KeptState'
<1> USE DEF CleansUp, KeptState, Host
<1>1. host \in Host
  BY DEF TypeOK
<1>2. CASE CleanupCreateBuildDir
  BY <1>2 DEF CleanupCreateBuildDir
<1>3. CASE CleanupOutputDir
  BY <1>3 DEF CleanupOutputDir
<1>4. CASE CleanupCreateSwitch
  BY <1>1, <1>4 DEF CleanupCreateSwitch, Attempt
<1>5. CASE CleanupVM \/ CleanupRun
  BY <1>5 DEF CleanupVM, CleanupRun, IsRunning
<1>6. CASE CleanupMountDvdDrive \/ CleanupMountGuestAdditions
           \/ CleanupMountSecondaryDvdImages
  <2>1. \E gone : host' = [host EXCEPT !.drives = @ \ gone]
    BY <1>6 DEF CleanupMountDvdDrive, CleanupMountGuestAdditions,
                CleanupMountSecondaryDvdImages, CleanupDrives
  <2> QED
    BY <1>1, <2>1
<1>7. CASE CleanupMountFloppydrive
  <2>1. \/ host' = host
        \/ \E e, r \in BOOLEAN :
             host' = [host EXCEPT !.floppy = IF e THEN FALSE ELSE @,
                                  !.floppyCopy = IF r THEN "dir" ELSE @]
    BY <1>7 DEF CleanupMountFloppydrive
  <2>2. CASE host' = host
    BY <2>2
  <2>3. ASSUME NEW e \in BOOLEAN, NEW r \in BOOLEAN,
               host' = [host EXCEPT !.floppy = IF e THEN FALSE ELSE @,
                                    !.floppyCopy = IF r THEN "dir" ELSE @]
        PROVE  KeptState'
    BY <1>1, <2>3
  <2> QED
    BY <2>1, <2>2, <2>3
<1>8. CASE NoCleanup
  BY <1>8 DEF NoCleanup
<1> QED
  BY <1>2, <1>3, <1>4, <1>5, <1>6, <1>7, <1>8 DEF CleanupStep

\* The end of the list is reached with the VM as it is to be kept.
LEMMA KeptAtEnd ==
  ASSUME TypeOK, PipelineInv, KeptInv, InRun, pos > Len(Steps), ~Failed,
         config.keepRegistered, ~config.skipExport
  PROVE  KeptState
<1>1. RunPart
  BY PipelineParts
<1>2. /\ Len(Steps) = Shift + 32 /\ Shift \in {0, 2} /\ VmAt \in {8, 9}
      /\ pos \in 1 .. (Shift + 33)
  BY Positions, MakersPositions, PastAt
<1>3. dvdProps \cap SecondaryImage = {} /\ "guest" \notin dvdProps /\ "os" \notin dvdProps
  BY <1>1, <1>2 DEF RunPart
<1>4. host.drives = {}
  BY <1>1, <1>3 DEF RunPart, TypeOK, Image
<1>5. host.vm = "off" /\ ~host.floppy
  BY <1>1, <1>2 DEF RunPart
<1> QED
  BY <1>2, <1>4, <1>5 DEF KeptInv, KeptState

LEMMA KeptStep == TypeOK /\ PipelineInv /\ KeptInv /\ [Next]_vars => KeptInv'
<1> SUFFICES ASSUME TypeOK, PipelineInv, KeptInv, [Next]_vars,
                    config'.keepRegistered, ~config'.skipExport
             PROVE  /\ own'.keepVM
                    /\ InRun' /\ pos' > 1 => host'.buildDir = "present"
                    /\ InRun' /\ pos' > VmAt' => host'.disks = "build"
                    /\ ~InRun' /\ ~Interrupted' /\ ~Failed' /\ result' # "panic" => KeptState'
  BY DEF KeptInv
<1>0. pos \in Int /\ VmAt \in {8, 9}
  BY MakersPositions, StepsLength DEF TypeOK
<1>1. CASE RunStep
  <2>1. /\ pc = "run" /\ config' = config /\ VmAt' = VmAt
        /\ \/ pc' = "next" /\ pos' = pos + 1
           \/ pc' = "cleanup" /\ Interrupted'
    BY <1>1, RunReturns, ReturnEffect, RunMoves DEF Returns, VmAt
  <2>2. own'.keepVM
    BY <1>1, <2>1, RunMakes DEF RunFrame, KeptInv
  <2>3. CASE pc' = "next"
    <3>1. pos \in 1 .. Len(Steps)
      BY <2>1 DEF TypeOK
    <3>2. /\ Steps[pos] = "CreateBuildDir" <=> pos = 1
          /\ Steps[pos] \in Maker <=> pos = VmAt
      BY <3>1, MakersPositions DEF Maker
    <3>3. Touches /\ Provides
      BY <1>1, <2>3, RunTouches
    <3>4. config.keepRegistered /\ ~config.skipExport /\ pos' = pos + 1 /\ InRun /\ InRun'
      BY <2>1, <2>3 DEF InRun
    <3>5. host'.buildDir = "present"
      <4>1. CASE pos = 1
        BY <3>2, <3>3, <4>1 DEF Provides
      <4>2. CASE pos > 1
        BY <3>2, <3>3, <3>4, <4>2 DEF Touches, KeptInv
      <4> QED
        BY <3>1, <4>1, <4>2
    <3>6. pos + 1 > VmAt => host'.disks = "build"
      <4>1. CASE pos = VmAt
        BY <3>2, <3>3, <4>1 DEF Provides
      <4>2. CASE pos > VmAt
        <5>1. Steps[pos] \notin Maker /\ host.disks = "build"
          BY <1>0, <3>2, <3>4, <4>2 DEF KeptInv
        <5> QED
          BY <3>3, <3>4, <5>1 DEF Touches
      <4> QED
        BY <1>0, <4>1, <4>2
    <3> QED
      BY <2>1, <2>2, <3>4, <3>5, <3>6
  <2>4. CASE pc' = "cleanup"
    BY <2>1, <2>2, <2>4 DEF InRun
  <2> QED
    BY <2>1, <2>3, <2>4
<1>2. CASE CleanupStep
  <2>1. pc = "cleanup" /\ UNCHANGED <<config, pc, bag, result, own>>
    BY <1>2, CleanupEffect, CleanupUndoes DEF CleanupFrame
  <2>2. (Interrupted' <=> Interrupted) /\ (Failed' <=> Failed)
    BY <2>1 DEF Interrupted, Cancelled, Failed
  <2> QED
    BY <1>2, <2>1, <2>2, KeptCleanup DEF KeptInv, InRun
<1>3. CASE ~RunStep /\ ~CleanupStep
  <2>1. /\ UNCHANGED <<config, own>> /\ bag \subseteq bag'
        /\ host'.buildDir = host.buildDir /\ host'.disks = host.disks
        /\ host'.drives = host.drives /\ host'.floppy = host.floppy
        /\ host.vm # "running" => host'.vm = host.vm
        /\ \/ UNCHANGED <<pc, pos, result>>
           \/ pc = "next" /\ pc' = "run" /\ UNCHANGED <<pos, result>>
           \/ pc = "next" /\ pc' = "cleanup"
           \/ pc' = "cleanup" /\ result' = "panic"
           \/ Finish /\ pc = "cleanup" /\ pc' = "done"
    BY <1>3, OtherTouches
  <2>2. VmAt' = VmAt /\ (~Failed' => ~Failed) /\ (~Interrupted' => ~Interrupted)
    BY <2>1 DEF VmAt, Failed, Interrupted, Cancelled
  <2>3. KeptState => KeptState'
    BY <2>1 DEF KeptState
  <2>4. CASE pc = "next" /\ pc' = "cleanup"
    <3>1. RunnerNext
      BY <1>3, <2>4 DEF Next, vars, Panic, Cancel, MarkCancelled, Guest, Finish, Terminated
    <3>2. ~Interrupted' => pos > Len(Steps)
      BY <2>4, <3>1 DEF RunnerNext, Interrupted, Cancelled
    <3> QED
      BY <2>1, <2>2, <2>3, <2>4, <3>2, KeptAtEnd DEF KeptInv, InRun
  <2>5. CASE Finish /\ pc = "cleanup" /\ pc' = "done"
    <3>1. result' # "panic" => result # "panic"
      BY <2>5 DEF Finish
    <3> QED
      BY <2>1, <2>2, <2>3, <2>5, <3>1 DEF KeptInv, InRun
  <2> QED
    BY <2>1, <2>2, <2>3, <2>4, <2>5 DEF KeptInv, InRun
<1> QED
  BY <1>1, <1>2, <1>3

(***************************************************************************)
(* KeptComplete: after a keep_registered build that returned an exported   *)
(* image the VM is registered, off and without media, its disks in the     *)
(* build directory, which is there: nothing that ran after the export, the *)
(* cleanups of the drives and of the directory included, took any of it    *)
(* (KeepRegistered in StepCreateVM, StepCloneVM and StepCreateBuildDir).   *)
(***************************************************************************)
THEOREM KeptComplete == Spec => []KeptVmComplete
<1>1. Init => KeptInv
  <2> SUFFICES ASSUME Init PROVE KeptInv
    OBVIOUS
  <2>1. pc = "next" /\ pos = 1 /\ own.keepVM = config.keepRegistered
    BY DEF Init
  <2>2. VmAt \in {8, 9}
    BY DEF VmAt
  <2> QED
    BY <2>1, <2>2 DEF KeptInv, InRun
<1>2. PipelineInv /\ KeptInv => KeptVmComplete
  BY DEF PipelineInv, KeptInv, KeptVmComplete, KeptState, InRun, Done
<1> QED
  BY <1>1, <1>2, KeptStep, PipelineCorrect, TypeCorrect, PTL DEF Spec

(***************************************************************************)
(* A build that meets no fault.                                            *)
(***************************************************************************)
\* The media of a build come from its configuration, and no drive is made
\* before its step.
OsWanted == IF config.media = "iso" THEN {"os"} ELSE {}
GuestWanted == IF config.guestAdditions THEN {"guest"} ELSE {}

MediaInv ==
  /\ ~config.nameTaken => ~host.otherVM
  /\ "cd_path" \in bag => config.cd
  /\ "floppy_path" \in bag => config.floppy
  /\ InRun =>
       /\ pos <= Shift + 10 => dvdProps = {}
       /\ pos <= Shift + 12 => dvdProps \subseteq OsWanted
       /\ pos <= Shift + 14 => dvdProps \subseteq OsWanted \cup GuestWanted

\* What keys a Run may put, and when it may fail.
FromConfig(put) ==
  ("cd_path" \in put => config.cd) /\ ("floppy_path" \in put => config.floppy)

PathsAsked ==
  /\ "cd_path" \in bag' => "cd_path" \in bag \/ config.cd
  /\ "floppy_path" \in bag' => "floppy_path" \in bag \/ config.floppy

LEMMA PutsFromConfig == RunStep => PathsAsked
<1> SUFFICES ASSUME RunStep PROVE PathsAsked
  OBVIOUS
<1>1. ASSUME NEW put, NEW halt \in BOOLEAN, Return(put, halt), FromConfig(put)
      PROVE  PathsAsked
  BY <1>1 DEF Return, FromConfig, PathsAsked
<1>2. ASSUME NEW put, Continue(put), FromConfig(put)
      PROVE  PathsAsked
  BY <1>1, <1>2 DEF Continue
<1>3. HaltWithError => PathsAsked
  BY <1>1 DEF HaltWithError, FromConfig
<1>4. HaltOnCancel => PathsAsked
  BY <1>1 DEF HaltOnCancel, FromConfig
<1>5. ASSUME NEW s, NEW put, PlainInterruptible(s, put), FromConfig(put)
      PROVE  PathsAsked
  BY <1>2, <1>3, <1>4, <1>5 DEF PlainInterruptible, Plain
<1>6. ASSUME NEW s, NEW put, Plain(s, put), FromConfig(put)
      PROVE  PathsAsked
  BY <1>5, <1>6 DEF PlainInterruptible
<1>7. CASE PlainStep
  BY <1>5, <1>6, <1>7 DEF PlainStep, StepValidateHost, StepValidateClone, StepDownload,
       StepCreateFloppy, StepHTTPServer, StepCreateCD, StepResizeVhd,
       StepEnableIntegrationService, StepConfigureVlan, StepSetBootOrder,
       StepSetFirstBootDevice, StepTypeBootCommand, StepConfigurePSRP, StepConnect,
       StepProvision, StepCleanupTempKeys, FromConfig
<1>8. CASE StepCreateBuildDir \/ StepOutputDir \/ StepCreateSwitch \/ StepCreateVM \/ StepCloneVM
  BY <1>2, <1>3, <1>8 DEF StepCreateBuildDir, StepOutputDir, StepCreateSwitch, StepCreateVM,
       StepCloneVM, MakeVM, FromConfig
<1>9. CASE StepMountDvdDrive \/ StepMountGuestAdditions \/ StepMountSecondaryDvdImages
  BY <1>2, <1>3, <1>9 DEF StepMountDvdDrive, StepMountGuestAdditions,
       StepMountSecondaryDvdImages, MountDrives, FromConfig
<1>10. CASE StepMountFloppydrive \/ StepRun \/ StepShutdown \/ StepWaitForPowerOff
  BY <1>2, <1>3, <1>4, <1>10 DEF StepMountFloppydrive, StepRun, StepShutdown,
       StepWaitForPowerOff, FromConfig
<1>11. CASE \/ StepUnmountSecondaryDvdImages \/ StepUnmountGuestAdditions
            \/ StepUnmountDvdDrive
  BY <1>2, <1>3, <1>11 DEF StepUnmountSecondaryDvdImages, StepUnmountGuestAdditions,
       StepUnmountDvdDrive, UnmountDrives, FromConfig
<1>12. CASE StepUnmountFloppyDrive \/ StepCompactDisk \/ StepExportVm \/ StepCollateArtifacts
  BY <1>2, <1>3, <1>12 DEF StepUnmountFloppyDrive, StepCompactDisk, StepExportVm,
       StepCollateArtifacts, FromConfig
<1> QED
  BY <1>7, <1>8, <1>9, <1>10, <1>11, <1>12
     DEF RunStep, RunOtherStep, PlainStep

\* A step that makes drives is at its place.
LEMMA AtMount ==
  ASSUME RunStep, Steps[pos] \in Mounts
  PROVE  /\ Steps[pos] = "MountDvdDrive" => StepMountDvdDrive
         /\ Steps[pos] = "MountGuestAdditions" => StepMountGuestAdditions
<1> USE DEF Running, Mounts
<1>1. ~PlainStep
  BY DEF PlainStep, StepValidateHost, StepValidateClone, StepDownload, StepCreateFloppy,
       StepHTTPServer, StepCreateCD, StepResizeVhd, StepEnableIntegrationService,
       StepConfigureVlan, StepSetBootOrder, StepSetFirstBootDevice,
       StepTypeBootCommand, StepConfigurePSRP, StepConnect, StepProvision,
       StepCleanupTempKeys, PlainInterruptible, Plain
<1>2. StepMountDvdDrive \/ StepMountGuestAdditions \/ StepMountSecondaryDvdImages
  BY <1>1 DEF RunStep, StepShutdown, RunOtherStep, PlainStep, StepCreateBuildDir, StepOutputDir,
       StepCreateSwitch, StepCreateVM, StepCloneVM, StepMountFloppydrive,
       StepRun, StepWaitForPowerOff, StepUnmountSecondaryDvdImages,
       StepUnmountGuestAdditions, StepUnmountDvdDrive, UnmountDrives,
       StepUnmountFloppyDrive, StepCompactDisk, StepExportVm, StepCollateArtifacts
<1> QED
  BY <1>2 DEF StepMountDvdDrive, StepMountGuestAdditions, StepMountSecondaryDvdImages

\* The three steps that make drives make the ones that are wanted.
LEMMA MountAdds ==
  ASSUME TypeOK, RunStep, Steps[pos] \in Mounts
  PROVE  /\ Steps[pos] = "MountDvdDrive" => dvdProps' \subseteq dvdProps \cup OsWanted
         /\ Steps[pos] = "MountGuestAdditions" => dvdProps' \subseteq dvdProps \cup GuestWanted
<1> USE DEF Running
<1>1. ASSUME NEW paths, NEW reachable, MountDrives(paths, reachable), Len(paths) \in Nat
      PROVE  dvdProps' \subseteq dvdProps \cup Images(paths)
  <2>1. PICK k \in 0 .. Len(paths) : dvdProps' = dvdProps \cup First(paths, k)
    BY <1>1 DEF MountDrives
  <2> QED
    BY <1>1, <2>1 DEF Images, First
<1>2. ASSUME Steps[pos] = "MountDvdDrive"
      PROVE  dvdProps' \subseteq dvdProps \cup OsWanted
  <2>1. StepMountDvdDrive
    BY <1>2, AtMount
  <2> DEFINE paths == IF "iso_path" \in bag /\ config.media = "iso" THEN OsDvd ELSE <<>>
  <2>2. MountDrives(paths, TRUE) /\ Len(paths) \in Nat
    BY <2>1 DEF StepMountDvdDrive, OsDvd
  <2>3. Images(paths) \subseteq OsWanted
    BY DEF Images, First, OsDvd, OsWanted
  <2> HIDE DEF paths
  <2> QED
    BY <1>1, <2>2, <2>3
<1>3. ASSUME Steps[pos] = "MountGuestAdditions"
      PROVE  dvdProps' \subseteq dvdProps \cup GuestWanted
  <2>1. StepMountGuestAdditions
    BY <1>3, AtMount
  <2> DEFINE paths == IF config.guestAdditions THEN GuestDvd ELSE <<>>
  <2>2. MountDrives(paths, ~config.wsl) /\ Len(paths) \in Nat
    BY <2>1 DEF StepMountGuestAdditions, GuestDvd
  <2>3. Images(paths) \subseteq GuestWanted
    BY DEF Images, First, GuestDvd, GuestWanted
  <2> HIDE DEF paths
  <2> QED
    BY <1>1, <2>2, <2>3
<1> QED
  BY <1>2, <1>3

LEMMA MediaRun ==
  ASSUME TypeOK, MediaInv, RunStep
  PROVE  MediaInv'
<1>1. /\ pc = "run" /\ InRun /\ UNCHANGED <<config, ctxDone, result>>
      /\ pc' \in {"next", "cleanup"} /\ (pc' = "next" => pos' = pos + 1)
  BY RunReturns, ReturnEffect DEF Returns, InRun
<1>2. Shift' = Shift /\ OsWanted' = OsWanted /\ GuestWanted' = GuestWanted
  BY <1>1 DEF Shift, OsWanted, GuestWanted
<1>3. pos \in 1 .. Len(Steps) /\ Shift \in {0, 2}
  BY <1>1, Positions DEF TypeOK
<1>4. /\ Steps[pos] = "MountDvdDrive" <=> pos = Shift + 10
      /\ Steps[pos] = "MountGuestAdditions" <=> pos = Shift + 12
      /\ Steps[pos] = "MountSecondaryDvdImages" <=> pos = Shift + 14
      /\ Steps[pos] = "UnmountSecondaryDvdImages" <=> pos = Shift + 26
      /\ Steps[pos] = "UnmountGuestAdditions" <=> pos = Shift + 27
      /\ Steps[pos] = "UnmountDvdDrive" <=> pos = Shift + 28
  BY <1>3, Positions
<1>5. /\ ~config'.nameTaken => ~host'.otherVM
      /\ "cd_path" \in bag' => config'.cd
      /\ "floppy_path" \in bag' => config'.floppy
  BY <1>1, RunMakes, PutsFromConfig DEF MediaInv, RunFrame, PathsAsked
<1>6. ASSUME pc' = "next", pos < Shift + 14
      PROVE  /\ pos' <= Shift + 10 => dvdProps' = {}
             /\ pos' <= Shift + 12 => dvdProps' \subseteq OsWanted
             /\ pos' <= Shift + 14 => dvdProps' \subseteq OsWanted \cup GuestWanted
  <2>1. CASE pos = Shift + 10
    <3>1. dvdProps' \subseteq dvdProps \cup OsWanted /\ dvdProps = {}
      BY <1>1, <1>3, <1>4, <2>1, MountAdds DEF Mounts, MediaInv
    <3> QED
      BY <1>1, <1>3, <1>6, <2>1, <3>1
  <2>2. CASE pos = Shift + 12
    <3>1. dvdProps' \subseteq dvdProps \cup GuestWanted /\ dvdProps \subseteq OsWanted
      BY <1>1, <1>3, <1>4, <2>2, MountAdds DEF Mounts, MediaInv
    <3> QED
      BY <1>1, <1>3, <1>6, <2>2, <3>1
  <2>3. CASE pos # Shift + 10 /\ pos # Shift + 12
    <3>1. Steps[pos] \notin Mounts \cup Unmounts
      BY <1>3, <1>4, <1>6, <2>3 DEF Mounts, Unmounts
    <3>2. dvdProps' = dvdProps
      BY <1>6, <3>1, RunEffect DEF Frame
    <3> QED
      BY <1>1, <1>3, <1>6, <2>3, <3>2 DEF MediaInv
  <2> QED
    BY <2>1, <2>2, <2>3
<1>7. ASSUME pc' = "next", pos >= Shift + 14
      PROVE  pos' > Shift + 14
  BY <1>1, <1>3, <1>7
<1>8. CASE pc' = "cleanup"
  BY <1>5, <1>8 DEF MediaInv, InRun
<1>9. CASE pc' = "next" /\ pos < Shift + 14
  BY <1>2, <1>5, <1>6, <1>9 DEF MediaInv
<1>10. CASE pc' = "next" /\ pos >= Shift + 14
  <2>1. pos' > Shift + 14 /\ pos' \in Int
    BY <1>1, <1>3, <1>7, <1>10
  <2> QED
    BY <1>2, <1>3, <1>5, <1>10, <2>1 DEF MediaInv
<1> QED
  BY <1>1, <1>3, <1>8, <1>9, <1>10

LEMMA MediaStep == TypeOK /\ MediaInv /\ [Next]_vars => MediaInv'
<1> SUFFICES ASSUME TypeOK, MediaInv, [Next]_vars PROVE MediaInv'
  OBVIOUS
<1>1. CASE RunStep
  BY <1>1, MediaRun
<1>2. CASE CleanupStep
  <2>1. pc = "cleanup" /\ UNCHANGED <<config, pc, bag>>
    BY <1>2, CleanupEffect
  <2>2. config.nameTaken \/ ~host.otherVM => config.nameTaken \/ ~host'.otherVM
    <3>1. CASE Steps[pos] \in {"CreateVM", "CloneVM"}
      <4>1. CleanupVM /\ pos \in 1 .. Len(Steps)
        BY <1>2, <3>1, CleanupAt, CleanupUndoes DEF CleanupFrame, Maker
      <4> QED
        BY <4>1 DEF CleanupVM, Attempt, TypeOK, Host
    <3>2. CASE Steps[pos] \notin {"CreateVM", "CloneVM"}
      BY <1>2, <3>2, CleanupUndoes DEF CleanupFrame
    <3> QED
      BY <3>1, <3>2
  <2> QED
    BY <2>1, <2>2 DEF MediaInv, InRun
<1>3. CASE ~RunStep /\ ~CleanupStep
  <2>1. /\ UNCHANGED <<config, dvdProps>> /\ host'.otherVM = host.otherVM
        /\ "cd_path" \in bag' => "cd_path" \in bag
        /\ "floppy_path" \in bag' => "floppy_path" \in bag
        /\ (InRun' => InRun /\ pos' = pos)
    <3>1. CASE Guest
      <4>1. /\ UNCHANGED <<config, dvdProps, bag, pc, pos>>
            /\ \/ host' = [host EXCEPT !.vm = "off"]
               \/ host' = [host EXCEPT !.vm = "paused"]
        BY <3>1 DEF Guest
      <4> QED
        BY <4>1 DEF TypeOK, Host, InRun
    <3>2. CASE RunnerNext \/ Panic \/ Cancel \/ MarkCancelled \/ Finish \/ UNCHANGED vars
      BY <3>2 DEF RunnerNext, Panic, Cancel, MarkCancelled, Finish, vars, InRun
    <3> QED
      BY <1>3, <3>1, <3>2 DEF Next, Terminated
  <2>2. Shift' = Shift /\ OsWanted' = OsWanted /\ GuestWanted' = GuestWanted
    BY <2>1 DEF Shift, OsWanted, GuestWanted
  <2> QED
    BY <2>1, <2>2 DEF MediaInv
<1> QED
  BY <1>1, <1>2, <1>3

(***************************************************************************)
(* The drives that are wanted have a place each.                           *)
(***************************************************************************)
\* What Windows cannot resolve: paths that no step converts under WSL, and the
\* empty path of a clone that is named by its VM, which one does.
PathsReach ==
  config.wsl =>
    /\ config.media # "vhd" /\ ~config.guestAdditions /\ ~config.skipExport
    /\ ~(config.generation = 1 /\ config.floppy)
    /\ ~(config.builder = "vmcx" /\ config.byName)

\* Nothing is to go wrong, and what Prepare has accepted fits.
Smooth ==
  /\ ~RunMayFail /\ ~RunMayFailLate /\ ~GuestMayBeSlow /\ ~config.nameTaken
  /\ config.generation = 1 => DrivesWanted <= 3
  /\ ConfigNotNeeded /\ PathsReach

LEMMA SizeOfParts ==
  /\ IsFiniteSet(OsWanted) /\ Cardinality(OsWanted) = One(config.media = "iso")
  /\ IsFiniteSet(GuestWanted) /\ Cardinality(GuestWanted) = One(config.guestAdditions)
BY FS_EmptySet, FS_Singleton DEF OsWanted, GuestWanted, One

\* No list of images is longer than four.
LEMMA SizeOfFirst ==
  ASSUME NEW paths, NEW k \in 0 .. 3
  PROVE  IsFiniteSet(First(paths, k)) /\ Cardinality(First(paths, k)) <= k
<1>1. /\ First(paths, 0) = {}
      /\ First(paths, 1) = First(paths, 0) \cup {paths[1]}
      /\ First(paths, 2) = First(paths, 1) \cup {paths[2]}
      /\ First(paths, 3) = First(paths, 2) \cup {paths[3]}
  BY DEF First
<1>2. ASSUME NEW S, NEW x, IsFiniteSet(S)
      PROVE  /\ IsFiniteSet(S \cup {x}) /\ Cardinality(S) \in Nat
             /\ Cardinality(S \cup {x}) \in {Cardinality(S), Cardinality(S) + 1}
  BY <1>2, FS_AddElement, FS_CardinalityType
<1>3. IsFiniteSet(First(paths, 0)) /\ Cardinality(First(paths, 0)) <= 0
  BY <1>1, FS_EmptySet
<1>4. IsFiniteSet(First(paths, 1)) /\ Cardinality(First(paths, 1)) <= 1
  <2> DEFINE S == First(paths, 0)
  <2>1. IsFiniteSet(S) /\ Cardinality(S) \in Nat /\ Cardinality(S) <= 0
    BY <1>3, FS_CardinalityType
  <2>2. First(paths, 1) = S \cup {paths[1]}
    BY <1>1
  <2> HIDE DEF S
  <2>3. IsFiniteSet(S \cup {paths[1]})
        /\ Cardinality(S \cup {paths[1]}) \in {Cardinality(S), Cardinality(S) + 1}
    BY <1>2, <2>1
  <2>4. Cardinality(S \cup {paths[1]}) <= 1
    BY <2>1, <2>3
  <2> QED
    BY <2>2, <2>3, <2>4
<1>5. IsFiniteSet(First(paths, 2)) /\ Cardinality(First(paths, 2)) <= 2
  <2> DEFINE S == First(paths, 1)
  <2>1. IsFiniteSet(S) /\ Cardinality(S) \in Nat /\ Cardinality(S) <= 1
    BY <1>4, FS_CardinalityType
  <2>2. First(paths, 2) = S \cup {paths[2]}
    BY <1>1
  <2> HIDE DEF S
  <2>3. IsFiniteSet(S \cup {paths[2]})
        /\ Cardinality(S \cup {paths[2]}) \in {Cardinality(S), Cardinality(S) + 1}
    BY <1>2, <2>1
  <2>4. Cardinality(S \cup {paths[2]}) <= 2
    BY <2>1, <2>3
  <2> QED
    BY <2>2, <2>3, <2>4
<1>6. IsFiniteSet(First(paths, 3)) /\ Cardinality(First(paths, 3)) <= 3
  <2> DEFINE S == First(paths, 2)
  <2>1. IsFiniteSet(S) /\ Cardinality(S) \in Nat /\ Cardinality(S) <= 2
    BY <1>5, FS_CardinalityType
  <2>2. First(paths, 3) = S \cup {paths[3]}
    BY <1>1
  <2> HIDE DEF S
  <2>3. IsFiniteSet(S \cup {paths[3]})
        /\ Cardinality(S \cup {paths[3]}) \in {Cardinality(S), Cardinality(S) + 1}
    BY <1>2, <2>1
  <2>4. Cardinality(S \cup {paths[3]}) <= 3
    BY <2>1, <2>3
  <2> QED
    BY <2>2, <2>3, <2>4
<1> QED
  BY <1>3, <1>4, <1>5, <1>6

LEMMA SizeOfUnion ==
  ASSUME NEW S, NEW T, NEW m \in Nat, NEW n \in Nat, IsFiniteSet(S), IsFiniteSet(T),
         Cardinality(S) <= m, Cardinality(T) <= n
  PROVE  IsFiniteSet(S \cup T) /\ Cardinality(S \cup T) <= m + n
<1>1. IsFiniteSet(S \cap T)
  BY FS_Subset
<1>2. Cardinality(S) \in Nat /\ Cardinality(T) \in Nat /\ Cardinality(S \cap T) \in Nat
  BY <1>1, FS_CardinalityType
<1>3. /\ IsFiniteSet(S \cup T)
      /\ Cardinality(S \cup T) = Cardinality(S) + Cardinality(T) - Cardinality(S \cap T)
  BY FS_Union
<1> QED
  BY <1>2, <1>3

\* A list of images of which not all are mounted leaves room for the next.
LEMMA RoomForNext ==
  ASSUME TypeOK, Smooth, MediaInv,
         NEW drives \in SUBSET (OsWanted \cup GuestWanted),
         NEW k \in Nat, k < Len(SecondaryDvds)
  PROVE  Cardinality(drives \cup First(SecondaryDvds, k)) < DvdLocations
<1>1. /\ config.secondary \in SecondaryDvdImages /\ config.generation \in {1, 2}
  BY ConfigsAssumption DEF TypeOK, Config
<1>2. Len(config.secondary) \in Nat /\ Len(config.secondary) <= 3
  <2>1. \A n : n = 0 \/ n = 1 \/ n = 2 \/ n = 3 => n \in Nat /\ n <= 3
    OBVIOUS
  <2>2. \/ config.secondary = <<>> \/ config.secondary = <<"sec1">>
        \/ config.secondary = <<"sec1", "sec2">>
        \/ config.secondary = <<"sec1", "sec2", "sec3">>
    BY <1>1 DEF SecondaryDvdImages
  <2>3. \/ Len(config.secondary) = 0 \/ Len(config.secondary) = 1
        \/ Len(config.secondary) = 2 \/ Len(config.secondary) = 3
    <3>1. /\ Len(<<>>) = 0 /\ Len(<<"sec1">>) = 1 /\ Len(<<"sec1", "sec2">>) = 2
          /\ Len(<<"sec1", "sec2", "sec3">>) = 3
      OBVIOUS
    <3> QED
      BY <2>2, <3>1, Zenon
  <2> QED
    BY <2>1, <2>3, Zenon
<1>3. Len(SecondaryDvds) <= Len(config.secondary) + One(config.cd)
      /\ Len(SecondaryDvds) \in Nat
  <2>1. config.secondary \in Seq(SecondaryImage)
    BY PathsType
  <2>2. CASE "cd_path" \in bag
    <3>1. SecondaryDvds = config.secondary \o <<"cd">> /\ One(config.cd) = 1
      BY <2>2 DEF SecondaryDvds, One, MediaInv
    <3>2. <<"cd">> \in Seq(SecondaryImage) /\ Len(<<"cd">>) = 1
      BY DEF SecondaryImage
    <3> QED
      BY <2>1, <3>1, <3>2, ConcatProperties
  <2>3. CASE "cd_path" \notin bag
    <3>1. SecondaryDvds = config.secondary
      BY <2>1, <2>3, ConcatEmptySeq DEF SecondaryDvds
    <3>2. One(config.cd) = 0 \/ One(config.cd) = 1
      BY DEF One
    <3> QED
      BY <1>2, <3>1, <3>2
  <2> QED
    BY <2>2, <2>3
<1>4. One(config.cd) \in {0, 1} /\ One(config.media = "iso") \in {0, 1}
      /\ One(config.guestAdditions) \in {0, 1}
  BY DEF One
<1>5. k \in 0 .. 3
  BY <1>2, <1>3, <1>4
<1>6. IsFiniteSet(First(SecondaryDvds, k)) /\ Cardinality(First(SecondaryDvds, k)) <= k
  BY <1>5, SizeOfFirst
<1> DEFINE os == Cardinality(OsWanted)
           guest == Cardinality(GuestWanted)
<1>7. /\ IsFiniteSet(drives) /\ Cardinality(drives) \in Nat
      /\ Cardinality(drives) <= os + guest /\ os \in {0, 1} /\ guest \in {0, 1}
  <2>1. /\ IsFiniteSet(OsWanted) /\ IsFiniteSet(GuestWanted)
        /\ os \in {0, 1} /\ guest \in {0, 1}
    BY <1>4, SizeOfParts
  <2> HIDE DEF os, guest
  <2>2. IsFiniteSet(OsWanted \cup GuestWanted)
        /\ Cardinality(OsWanted \cup GuestWanted) <= os + guest
    <3>1. os \in Nat /\ guest \in Nat
      BY <2>1
    <3>2. Cardinality(OsWanted) <= os /\ Cardinality(GuestWanted) <= guest
      BY <3>1 DEF os, guest
    <3> QED
      BY <2>1, <3>1, <3>2, SizeOfUnion
  <2>3. IsFiniteSet(drives) /\ Cardinality(drives) <= Cardinality(OsWanted \cup GuestWanted)
    BY <2>2, FS_Subset
  <2>4. Cardinality(drives) \in Nat /\ Cardinality(OsWanted \cup GuestWanted) \in Nat
    BY <2>2, <2>3, FS_CardinalityType
  <2> QED
    BY <2>1, <2>2, <2>3, <2>4
<1>8. Cardinality(drives \cup First(SecondaryDvds, k)) <= os + guest + k
  <2> DEFINE both == os + guest
  <2>1. both \in Nat /\ Cardinality(drives) <= both
    BY <1>7
  <2> HIDE DEF both
  <2>2. Cardinality(drives \cup First(SecondaryDvds, k)) <= both + k
    BY <1>6, <1>7, <2>1, SizeOfUnion
  <2> QED
    BY <2>2 DEF both
<1>9. Cardinality(drives \cup First(SecondaryDvds, k)) \in Nat
  <2>1. IsFiniteSet(drives \cup First(SecondaryDvds, k))
    BY <1>6, <1>7, FS_Union
  <2> QED
    BY <2>1, FS_CardinalityType
<1>10. config.generation = 1 => os + guest + k < 3
  <2>1. /\ os = One(config.media = "iso") /\ guest = One(config.guestAdditions)
    BY SizeOfParts
  <2>2. DrivesWanted = os + guest + Len(config.secondary) + One(config.cd)
    BY <2>1 DEF DrivesWanted
  <2> DEFINE cd == One(config.cd)
             secondary == Len(config.secondary)
             dvds == Len(SecondaryDvds)
  <2>3. /\ secondary \in Nat /\ dvds \in Nat /\ cd \in {0, 1} /\ os \in {0, 1}
        /\ guest \in {0, 1} /\ dvds <= secondary + cd /\ k < dvds
    BY <1>2, <1>3, <1>4, <1>7
  <2>4. config.generation = 1 => os + guest + secondary + cd <= 3
    BY <2>2 DEF Smooth
  <2> HIDE DEF os, guest, cd, secondary, dvds
  <2> QED
    BY <2>3, <2>4
<1> HIDE DEF os, guest
<1>11. CASE config.generation = 1
  BY <1>7, <1>8, <1>9, <1>10, <1>11 DEF DvdLocations
<1>12. CASE config.generation = 2
  BY <1>5, <1>7, <1>8, <1>9, <1>12 DEF DvdLocations
<1> QED
  BY <1>1, <1>11, <1>12

(***************************************************************************)
(* Each Run of such a build goes on.                                       *)
(***************************************************************************)
Marks == {"error", "cancelled", "halted"}
GoesOn == \E put : put \cap Marks = {} /\ Continue(put)

\* A step that makes drives has a place for each, and finds each image.
LEMMA MountGoesOn ==
  ASSUME NEW paths, NEW reachable \in BOOLEAN, NEW n \in Nat,
         MountDrives(paths, reachable), Smooth, Len(paths) = n, n = 0 \/ reachable,
         \A k \in Nat : k < n => Cardinality(host.drives \cup First(paths, k)) < DvdLocations
  PROVE  GoesOn
<1>1. PICK k \in 0 .. n, stray \in BOOLEAN :
        LET made == First(paths, IF stray THEN k + 1 ELSE k) IN
          /\ stray => RunMayFailLate
          /\ \/ k = n /\ ~stray /\ Continue({})
             \/ \/ stray \/ RunMayFail
                \/ k < n /\ ~(reachable /\ Cardinality(host.drives \cup made) < DvdLocations)
  BY DEF MountDrives
<1>2. ~stray /\ ~RunMayFail
  BY <1>1 DEF Smooth
<1>3. \/ Continue({})
      \/ k < n /\ ~(reachable /\ Cardinality(host.drives \cup First(paths, k)) < DvdLocations)
  BY <1>1, <1>2
<1>4. k \in Nat /\ (k < n => n # 0)
  OBVIOUS
<1>5. Continue({})
  BY <1>3, <1>4
<1> QED
  BY <1>5 DEF GoesOn

LEMMA OneMountGoesOn ==
  ASSUME NEW image, NEW paths \in {<<>>, <<image>>}, NEW reachable \in BOOLEAN,
         MountDrives(paths, reachable), Smooth, paths = <<>> \/ reachable,
         Cardinality(host.drives) < DvdLocations
  PROVE  GoesOn
<1>1. CASE paths = <<>>
  <2>1. Len(paths) = 0
    BY <1>1
  <2>2. \A k \in Nat : ~(k < 0)
    OBVIOUS
  <2> QED
    BY <2>1, <2>2, MountGoesOn
<1>2. CASE paths = <<image>>
  <2>1. Len(paths) = 1 /\ reachable
    BY <1>2
  <2>2. host.drives \cup First(paths, 0) = host.drives
    BY DEF First
  <2>3. \A k \in Nat : k < 1 => k = 0
    OBVIOUS
  <2>4. \A k \in Nat : k < 1 => Cardinality(host.drives \cup First(paths, k)) < DvdLocations
    BY <2>2, <2>3
  <2> QED
    BY <2>1, <2>4, MountGoesOn
<1> QED
  BY <1>1, <1>2

LEMMA RunGoesOn ==
  ASSUME TypeOK, RunPart, MediaInv, Smooth, ~ctxDone, RunStep
  PROVE  GoesOn
<1> USE DEF Running, CallFails, Marks
<1>1. /\ ~RunMayFail /\ ~RunMayFailLate /\ ~GuestMayBeSlow /\ ~host.otherVM /\ ~HaltOnCancel
  BY DEF Smooth, MediaInv, HaltOnCancel
<1>2. ASSUME NEW put, Continue(put), put \cap Marks = {}
      PROVE  GoesOn
  BY <1>2 DEF GoesOn
<1>3. pc = "run" /\ pos \in 1 .. Len(Steps) /\ InRun /\ Shift \in {0, 2}
  BY RunReturns, Positions DEF Returns, TypeOK, InRun
<1>4. CASE PlainStep
  BY <1>1, <1>2, <1>4 DEF PlainStep, StepValidateHost, StepValidateClone, StepDownload,
       StepCreateFloppy, StepHTTPServer, StepCreateCD, StepResizeVhd,
       StepEnableIntegrationService, StepConfigureVlan, StepSetBootOrder,
       StepSetFirstBootDevice, StepTypeBootCommand, StepConfigurePSRP, StepConnect,
       StepProvision, StepCleanupTempKeys, Plain, PlainInterruptible
<1>5. CASE StepCreateBuildDir \/ StepOutputDir \/ StepCreateSwitch
  BY <1>1, <1>2, <1>5 DEF StepCreateBuildDir, StepOutputDir, StepCreateSwitch
<1>6. CASE StepCreateVM \/ StepCloneVM
  <2>1. HardDiskReachable
    BY DEF Smooth, PathsReach, HardDiskReachable
  <2>2. StepCloneVM => config.builder = "vmcx"
    BY <1>3, MakersPositions DEF StepCloneVM
  <2>3. CASE StepCreateVM
    BY <1>1, <1>2, <2>1, <2>3 DEF StepCreateVM, MakeVM
  <2>4. CASE StepCloneVM
    <3>1. ~(config.wsl /\ config.byName)
      BY <2>2, <2>4 DEF Smooth, PathsReach
    <3> QED
      BY <1>1, <1>2, <2>1, <2>4, <3>1 DEF StepCloneVM, MakeVM
  <2> QED
    BY <1>6, <2>3, <2>4
<1>7. CASE StepMountDvdDrive
  <2> DEFINE paths == IF "iso_path" \in bag /\ config.media = "iso" THEN OsDvd ELSE <<>>
  <2>1. MountDrives(paths, TRUE) /\ paths \in {<<>>, <<"os">>}
    BY <1>7 DEF StepMountDvdDrive, OsDvd
  <2>2. host.drives = {}
    <3>1. pos = Shift + 10
      BY <1>3, <1>7, Positions DEF StepMountDvdDrive
    <3> QED
      BY <1>3, <3>1 DEF MediaInv, RunPart
  <2>3. Cardinality(host.drives) < DvdLocations
    BY <2>2, FS_EmptySet DEF DvdLocations
  <2> HIDE DEF paths
  <2> QED
    BY <2>1, <2>3, OneMountGoesOn
<1>8. CASE StepMountGuestAdditions
  <2> DEFINE paths == IF config.guestAdditions THEN GuestDvd ELSE <<>>
             reachable == ~config.wsl
  <2>1. MountDrives(paths, reachable) /\ paths \in {<<>>, <<"guest">>}
        /\ reachable \in BOOLEAN
    BY <1>8 DEF StepMountGuestAdditions, GuestDvd
  <2>2. paths = <<>> \/ reachable
    BY DEF Smooth, PathsReach
  <2>3. Cardinality(host.drives) < DvdLocations
    <3>1. pos = Shift + 12
      BY <1>3, <1>8, Positions DEF StepMountGuestAdditions
    <3>2. host.drives \subseteq OsWanted
      BY <1>3, <3>1 DEF MediaInv, RunPart
    <3>3. host.drives = {} \/ host.drives = {"os"}
      BY <3>2 DEF OsWanted
    <3>4. Cardinality(host.drives) = 0 \/ Cardinality(host.drives) = 1
      BY <3>3, FS_EmptySet, FS_Singleton
    <3> QED
      BY <3>4 DEF DvdLocations
  <2> HIDE DEF paths, reachable
  <2> QED
    BY <2>1, <2>2, <2>3, OneMountGoesOn
<1>9. CASE StepMountSecondaryDvdImages
  <2> DEFINE n == Len(SecondaryDvds)
  <2>1. MountDrives(SecondaryDvds, TRUE)
    BY <1>9 DEF StepMountSecondaryDvdImages
  <2>2. n \in Nat
    <3>1. SecondaryDvds \in Seq(Image)
      BY PathsType
    <3> QED
      BY <3>1
  <2>3. host.drives \in SUBSET (OsWanted \cup GuestWanted)
    <3>1. pos = Shift + 14
      BY <1>3, <1>9, Positions DEF StepMountSecondaryDvdImages
    <3> QED
      BY <1>3, <3>1 DEF MediaInv, RunPart
  <2>4. ASSUME NEW k \in Nat, k < n
        PROVE  Cardinality(host.drives \cup First(SecondaryDvds, k)) < DvdLocations
    BY <2>3, <2>4, RoomForNext
  <2>5. Len(SecondaryDvds) = n
    OBVIOUS
  <2> HIDE DEF n
  <2> QED
    BY <2>1, <2>2, <2>4, <2>5, MountGoesOn
<1>10. CASE StepMountFloppydrive
  <2>1. config.generation = 2 \/ "floppy_path" \notin bag \/ ~config.wsl
    <3>1. config.generation \in {1, 2}
      BY ConfigsAssumption DEF TypeOK, Config
    <3> QED
      BY <3>1 DEF Smooth, PathsReach, MediaInv
  <2> QED
    BY <1>1, <1>2, <1>10, <2>1 DEF StepMountFloppydrive
<1>11. CASE StepRun \/ StepShutdown \/ StepWaitForPowerOff
  BY <1>1, <1>2, <1>11 DEF StepRun, StepShutdown, StepWaitForPowerOff
<1>12. CASE \/ StepUnmountSecondaryDvdImages \/ StepUnmountGuestAdditions
            \/ StepUnmountDvdDrive
  BY <1>1, <1>2, <1>12 DEF StepUnmountSecondaryDvdImages, StepUnmountGuestAdditions,
                           StepUnmountDvdDrive, UnmountDrives
<1>13. CASE StepUnmountFloppyDrive \/ StepCompactDisk \/ StepExportVm
  BY <1>1, <1>2, <1>13 DEF StepUnmountFloppyDrive, StepCompactDisk, StepExportVm
<1>14. CASE StepCollateArtifacts
  <2>1. ~(config.skipExport /\ config.wsl)
    BY DEF Smooth, PathsReach
  <2> QED
    BY <1>1, <1>2, <1>14, <2>1 DEF StepCollateArtifacts
<1> QED
  BY <1>4, <1>5, <1>6, <1>7, <1>8, <1>9, <1>10, <1>11, <1>12, <1>13, <1>14
     DEF RunStep, RunOtherStep, PlainStep

(***************************************************************************)
(* SmoothInv: nothing ever puts a mark in the bag.                         *)
(***************************************************************************)
SmoothInv ==
  Smooth /\ ~ctxDone =>
    /\ ~Failed /\ ~Interrupted
    /\ Done => result = "artifact"

LEMMA SmoothStep ==
  TypeOK /\ PipelineInv /\ BagInv /\ MediaInv /\ SmoothInv /\ [Next]_vars => SmoothInv'
<1> SUFFICES ASSUME TypeOK, PipelineInv, BagInv, MediaInv, SmoothInv, [Next]_vars
             PROVE  SmoothInv'
  OBVIOUS
<1> USE DEF Failed, Interrupted, Cancelled, Done
<1>1. ASSUME config' = config PROVE Smooth' <=> Smooth
  BY <1>1 DEF Smooth, RunMayFail, RunMayFailLate, GuestMayBeSlow, DrivesWanted,
              ConfigNotNeeded, PathsReach
<1>2. CASE RunStep
  <2>1. pc = "run" /\ UNCHANGED <<config, ctxDone>> /\ pc' \in {"next", "cleanup"}
    BY <1>2, RunReturns, ReturnEffect DEF Returns
  <2>2. ASSUME Smooth, ~ctxDone PROVE ~Failed' /\ ~Interrupted'
    <3>1. RunPart
      BY <2>1, PipelineParts DEF InRun
    <3>2. PICK put : put \cap Marks = {} /\ Continue(put)
      BY <1>2, <2>2, <3>1, RunGoesOn DEF GoesOn
    <3>3. ~Failed /\ ~Interrupted
      BY <2>2 DEF SmoothInv
    <3> QED
      BY <3>2, <3>3 DEF Continue, Return, Marks
  <2> QED
    BY <1>1, <2>1, <2>2 DEF SmoothInv
<1>3. CASE CleanupStep
  <2>1. pc = "cleanup" /\ UNCHANGED <<config, ctxDone, pc, bag>>
    BY <1>3, CleanupEffect, CleanupUndoes DEF CleanupFrame
  <2> QED
    BY <1>1, <2>1 DEF SmoothInv
<1>4. CASE RunnerNext \/ Panic
  BY <1>1, <1>4 DEF RunnerNext, Panic, SmoothInv
<1>5. CASE Cancel \/ MarkCancelled \/ Guest
  BY <1>1, <1>5 DEF Cancel, MarkCancelled, Guest, SmoothInv
<1>6. CASE Finish
  <2>1. UNCHANGED <<config, ctxDone, bag>>
    BY <1>6 DEF Finish
  <2>2. ASSUME Smooth, ~ctxDone PROVE result' = "artifact"
    <3>1. result # "panic" /\ ~Failed /\ ~Interrupted
      BY <2>2 DEF Smooth, BagInv, NoPanic, SmoothInv
    <3> QED
      BY <1>6, <3>1 DEF Finish
  <2> QED
    BY <1>1, <2>1, <2>2 DEF SmoothInv
<1>7. CASE UNCHANGED vars
  BY <1>1, <1>7 DEF vars, SmoothInv
<1> QED
  BY <1>2, <1>3, <1>4, <1>5, <1>6, <1>7 DEF Next, Terminated

(***************************************************************************)
(* SmoothBuildSucceeds: a build in which no call fails, whose guest stops  *)
(* in time, which is not interrupted, whose name is free and whose drives  *)
(* fit ends with an artifact: no step finds a key missing, a controller    *)
(* full or an image out of reach.  Two things the code is known to get     *)
(* wrong are excluded by name: the key that a clone's check asserts, and   *)
(* the paths that are not, or wrongly, converted under WSL.                *)
(***************************************************************************)
THEOREM SmoothBuildSucceeds ==
  Spec => [](ConfigNotNeeded /\ PathsReach => FaultFreeBuildSucceeds)
<1>1. Init => MediaInv /\ SmoothInv
  <2> SUFFICES ASSUME Init PROVE MediaInv /\ SmoothInv
    OBVIOUS
  <2>1. /\ pc = "next" /\ dvdProps = {} /\ (host.otherVM <=> config.nameTaken)
        /\ bag \subseteq {"config"}
    BY DEF Init
  <2> QED
    BY <2>1 DEF MediaInv, SmoothInv, Failed, Interrupted, Cancelled, Done
<1>2. SmoothInv => (ConfigNotNeeded /\ PathsReach => FaultFreeBuildSucceeds)
  BY DEF SmoothInv, Smooth, FaultFreeBuildSucceeds
<1> QED
  BY <1>1, <1>2, MediaStep, SmoothStep, BagCorrect, PipelineCorrect, TypeCorrect, PTL DEF Spec
=============================================================================
