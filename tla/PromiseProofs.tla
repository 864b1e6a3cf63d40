---------------------------- MODULE PromiseProofs ----------------------------
(***************************************************************************)
(* HypervBuild implements BuildPromise, for every set of accepted          *)
(* configurations and whatever fails; and what a build does to the VMs and *)
(* switches that are not its own.                                          *)
(*                                                                         *)
(* The argument: a Run only adds to what there is on the host (RunMakes),  *)
(* a Cleanup only takes away, and only what the step's own fields allow it *)
(* to (CleanupUndoes); PipelineInv says that a list of steps that ran to   *)
(* its end has left an image.                                              *)
(***************************************************************************)
EXTENDS PipelineProofs

\* What a Run may do to the directories, the switch and the VMs.
RunFrame ==
  /\ host'.buildDir \in {host.buildDir, "present"}
  /\ host'.outputDir \in {host.outputDir, "present"}
  /\ host'.switch = host.switch \/ (host.switch = "none" /\ host'.switch = "ours")
  /\ host.vm # "absent" => host'.vm # "absent"
  /\ host'.otherVM = host.otherVM
  /\ own'.createdSwitch => own.createdSwitch \/ host.switch = "none"
  /\ own.keepVM => own'.keepVM

LEMMA RunMakes ==
  ASSUME TypeOK, RunStep
  PROVE  RunFrame
<1> USE DEF Running, CallFails, Host, Own, RunFrame
<1>1. host \in Host /\ own \in Own
  BY DEF TypeOK
<1>2. CASE PlainStep
  <2>1. UNCHANGED <<own, host>>
    BY <1>2, PlainSteps DEF PlainInterruptible, Plain
  <2> QED
    BY <2>1
<1>3. CASE StepCreateBuildDir \/ StepOutputDir
  BY <1>1, <1>3 DEF StepCreateBuildDir, StepOutputDir
<1>4. CASE StepCreateSwitch
  <2> DEFINE made == [host EXCEPT !.switch = IF @ = "none" THEN "ours" ELSE @]
  <2>1. host' = host \/ host' = made
    BY <1>4 DEF StepCreateSwitch
  <2> DEFINE known == host.switch = "none" /\ ~SwitchIsPrinted
  <2>2. own' = own \/ own' = [own EXCEPT !.createdSwitch = known]
    BY <1>4 DEF StepCreateSwitch
  <2>3. (own'.createdSwitch => own.createdSwitch \/ host.switch = "none") /\ own'.keepVM = own.keepVM
    BY <1>1, <2>2
  <2>4. CASE host.switch = "none"
    BY <1>1, <2>1, <2>3, <2>4
  <2>5. CASE host.switch # "none"
    BY <1>1, <2>1, <2>3, <2>5
  <2> QED
    BY <2>4, <2>5
<1>5. CASE StepCreateVM \/ StepCloneVM
  BY <1>1, <1>5, ZenonT(60) DEF StepCreateVM, StepCloneVM, MakeVM, NewVM
<1>6. CASE StepMountDvdDrive \/ StepMountGuestAdditions \/ StepMountSecondaryDvdImages
  <2>1. (\E made : host' = [host EXCEPT !.drives = @ \cup made]) /\ own' = own
    BY <1>6 DEF StepMountDvdDrive, StepMountGuestAdditions,
                StepMountSecondaryDvdImages, MountDrives
  <2> QED
    BY <1>1, <2>1
<1>7. CASE StepMountFloppydrive
  BY <1>1, <1>7, ZenonT(60) DEF StepMountFloppydrive
<1>8. CASE StepRun \/ StepShutdown \/ StepWaitForPowerOff \/ StepCompactDisk
  <2>1. CASE StepRun
    <3>1. host' = host \/ host' = [host EXCEPT !.vm = IF @ = "off" THEN "running" ELSE @]
      BY <2>1 DEF StepRun
    <3>2. own' = own \/ own' = [own EXCEPT !.started = TRUE]
      BY <2>1 DEF StepRun
    <3> QED
      BY <1>1, <3>1, <3>2
  <2>2. CASE StepShutdown
    <3>1. \/ host' = host
          \/ host.vm = "running" /\ host' = [host EXCEPT !.vm = "off"]
      BY <2>2 DEF StepShutdown
    <3>2. own' = own
      BY <2>2 DEF StepShutdown
    <3> QED
      BY <1>1, <3>1, <3>2
  <2>3. CASE StepWaitForPowerOff \/ StepCompactDisk
    BY <1>1, <2>3 DEF StepWaitForPowerOff, StepCompactDisk
  <2> QED
    BY <1>8, <2>1, <2>2, <2>3
<1>9. CASE \/ StepUnmountSecondaryDvdImages \/ StepUnmountGuestAdditions
           \/ StepUnmountDvdDrive
  <2>1. (\E gone : host' = [host EXCEPT !.drives = @ \ gone]) /\ own' = own
    BY <1>9 DEF StepUnmountSecondaryDvdImages, StepUnmountGuestAdditions,
                StepUnmountDvdDrive, UnmountDrives
  <2> QED
    BY <1>1, <2>1
<1>10. CASE StepUnmountFloppyDrive
  BY <1>1, <1>10 DEF StepUnmountFloppyDrive
<1>11. CASE StepExportVm \/ StepCollateArtifacts
  <2> DEFINE sealed == Sealed
  <2>1. \/ host' = host
        \/ host' = [host EXCEPT !.image = "nested", !.sealed = sealed]
        \/ host' = [host EXCEPT !.image = "disks", !.sealed = sealed, !.disks = "output"]
        \/ host' = [host EXCEPT !.image = "flat"]
    BY <1>11 DEF StepExportVm, StepCollateArtifacts
  <2>2. own' = own
    BY <1>11 DEF StepExportVm, StepCollateArtifacts
  <2>3. CASE \E i, d, x : host' = [host EXCEPT !.image = i, !.sealed = x, !.disks = d]
    BY <1>1, <2>2, <2>3
  <2>4. CASE host' = host
    BY <2>2, <2>4
  <2>5. host' # host => \E i, d, x : host' = [host EXCEPT !.image = i, !.sealed = x, !.disks = d]
    <3> HIDE DEF sealed
    <3>1. CASE host' = [host EXCEPT !.image = "nested", !.sealed = sealed]
      <4>1. host' = [host EXCEPT !.image = "nested", !.sealed = sealed, !.disks = host.disks]
        BY <1>1, <3>1
      <4> QED
        BY <4>1, Zenon
    <3>2. CASE host' = [host EXCEPT !.image = "flat"]
      <4>1. host' = [host EXCEPT !.image = "flat", !.sealed = host.sealed, !.disks = host.disks]
        BY <1>1, <3>2
      <4> QED
        BY <4>1, Zenon
    <3>3. CASE host' = [host EXCEPT !.image = "disks", !.sealed = sealed, !.disks = "output"]
      BY <3>3, Zenon
    <3> QED
      BY <2>1, <3>1, <3>2, <3>3, Zenon
  <2> QED
    BY <2>3, <2>4, <2>5
<1> QED
  BY <1>2, <1>3, <1>4, <1>5, <1>6, <1>7, <1>8, <1>9, <1>10, <1>11
     DEF RunStep, RunOtherStep, PlainStep

\* What a Cleanup may do to them, and what allows it to.
CleanupFrame ==
  /\ pos' = pos - 1 /\ pos \in 1 .. Len(Steps)
  /\ UNCHANGED <<config, ctxDone, dvdProps, own>>
  /\ host'.buildDir \in {host.buildDir, "deleted"}
  /\ host'.outputDir \in {host.outputDir, "deleted"}
  /\ host'.switch = host.switch \/ (own.createdSwitch /\ host'.switch = "none")
  /\ host.vm = "absent" => host'.vm = "absent"
  /\ host'.otherVM = host.otherVM \/ (~own.keepVM /\ Steps[pos] \in {"CreateVM", "CloneVM"})

LEMMA CleanupUndoes ==
  ASSUME TypeOK, CleanupStep
  PROVE  CleanupFrame
<1> USE DEF Host
<1>1. host \in Host /\ own \in Own
  BY DEF TypeOK
<1>2. /\ pc = "cleanup" /\ pos' = pos - 1 /\ pos \in 1 .. Len(Steps)
      /\ UNCHANGED <<config, ctxDone, dvdProps, own>>
  <2>1. \E s : CleansUp(s)
    BY DEF CleanupStep, CleanupCreateBuildDir, CleanupOutputDir, CleanupCreateSwitch,
           CleanupVM, CleanupMountDvdDrive, CleanupMountGuestAdditions,
           CleanupMountSecondaryDvdImages, CleanupDrives, CleanupMountFloppydrive,
           CleanupRun, NoCleanup
  <2> QED
    BY <2>1, StepsLength DEF CleansUp, TypeOK
<1>3. CASE CleanupCreateBuildDir
  <2> DEFINE disks == IF host.disks = "build" THEN "gone" ELSE host.disks
  <2>1. host' = host \/ host' = [host EXCEPT !.buildDir = "deleted", !.disks = disks]
    BY <1>3, Zenon DEF CleanupCreateBuildDir, Attempt
  <2> HIDE DEF disks
  <2> QED
    BY <1>1, <1>2, <2>1 DEF CleanupFrame
<1>4. CASE CleanupOutputDir \/ CleanupCreateSwitch
  <2>1. \/ host' = host \/ host' = [host EXCEPT !.outputDir = "deleted"]
        \/ own.createdSwitch /\ host' = [host EXCEPT !.switch = "none"]
    BY <1>4 DEF CleanupOutputDir, CleanupCreateSwitch, Attempt
  <2> QED
    BY <1>1, <1>2, <2>1 DEF CleanupFrame
<1>5. CASE CleanupVM
  <2>1. \/ host' = host
        \/ ~own.keepVM /\ host' = [host EXCEPT !.vm = "absent", !.drives = {},
                                               !.floppy = FALSE, !.otherVM = FALSE]
    BY <1>5 DEF CleanupVM, Attempt
  <2>2. Steps[pos] \in {"CreateVM", "CloneVM"}
    BY <1>5 DEF CleanupVM, CleansUp
  <2> QED
    BY <1>1, <1>2, <2>1, <2>2 DEF CleanupFrame
<1>6. CASE CleanupRun
  <2>1. host' = host \/ (host.vm = "running" /\ host' = [host EXCEPT !.vm = "off"])
    BY <1>6 DEF CleanupRun, IsRunning, Attempt
  <2> QED
    BY <1>1, <1>2, <2>1 DEF CleanupFrame
<1>7. CASE CleanupMountDvdDrive \/ CleanupMountGuestAdditions
           \/ CleanupMountSecondaryDvdImages
  <2>1. \E gone : host' = [host EXCEPT !.drives = @ \ gone]
    BY <1>7 DEF CleanupMountDvdDrive, CleanupMountGuestAdditions,
                CleanupMountSecondaryDvdImages, CleanupDrives
  <2> QED
    BY <1>1, <1>2, <2>1 DEF CleanupFrame
<1>8. CASE CleanupMountFloppydrive
  <2>1. \/ host' = host
        \/ \E e, r \in BOOLEAN :
             host' = [host EXCEPT !.floppy = IF e THEN FALSE ELSE @,
                                  !.floppyCopy = IF r THEN "dir" ELSE @]
    BY <1>8 DEF CleanupMountFloppydrive
  <2>2. \E f, c : host' = [host EXCEPT !.floppy = f, !.floppyCopy = c] \/ host' = host
    BY <2>1, Zenon
  <2> QED
    BY <1>1, <1>2, <2>2 DEF CleanupFrame
<1>9. CASE NoCleanup
  BY <1>2, <1>9 DEF NoCleanup, CleanupFrame
<1> QED
  BY <1>3, <1>4, <1>5, <1>6, <1>7, <1>8, <1>9 DEF CleanupStep

(***************************************************************************)
(* The refinement, one kind of step at a time.                             *)
(***************************************************************************)
\* What the abstract step is made of, before and after.
LEMMA Mapped ==
  /\ Doomed \in BOOLEAN /\ Whole \in BOOLEAN /\ Doomed' \in BOOLEAN /\ Whole' \in BOOLEAN
  /\ Made \subseteq {"directory", "output", "vm", "switch"}
  /\ Made' \subseteq {"directory", "output", "vm", "switch"}
BY DEF Doomed, Whole, Made

\* A Run makes things and dooms what it stops.
LEMMA RunPromise ==
  ASSUME TypeOK, PipelineInv, RunStep
  PROVE  Promise!Make \/ Promise!Turn
<1>1. /\ pc = "run" /\ pc' \in {"next", "cleanup"} /\ bag \subseteq bag'
      /\ result' = result /\ (pc' = "cleanup" => Interrupted')
  BY RunReturns, ReturnEffect DEF Returns
<1>2. result = "none"
  BY <1>1 DEF PipelineInv, InRun
<1>3. Made \subseteq Made'
  BY RunMakes DEF RunFrame, Made
<1>4. (Doomed => Doomed') /\ (pc' = "cleanup" => Doomed')
  BY <1>1 DEF Doomed, Failed, Interrupted, Cancelled
<1>5. Phase = "making" /\ (pc' = "next" => Phase' = "making")
      /\ (pc' = "cleanup" => Phase' = "undoing")
  BY <1>1 DEF Phase, InRun, Done
<1>6. CASE pc' = "next"
  <2>1. Promise!Make
    BY <1>1, <1>3, <1>4, <1>5, <1>6, Mapped DEF Promise!Make, Promise!Doom
  <2> QED
    BY <2>1
<1>7. CASE pc' = "cleanup"
  <2>1. Promise!Turn
    BY <1>1, <1>2, <1>3, <1>4, <1>5, <1>7, Mapped DEF Promise!Turn, Promise!Doom
  <2> QED
    BY <2>1
<1> QED
  BY <1>1, <1>6, <1>7

\* A Cleanup takes away, and the image only from a build that is interrupted.
LEMMA CleanupPromise ==
  ASSUME TypeOK, CleanupStep
  PROVE  Promise!Undo
<1>1. /\ pc = "cleanup" /\ UNCHANGED <<config, pc, bag, result>>
      /\ host'.image = host.image /\ host'.sealed = host.sealed
      /\ ~Interrupted => host'.outputDir = host.outputDir
  BY CleanupEffect
<1>2. Made' \subseteq Made
  BY CleanupUndoes DEF CleanupFrame, Made
<1>3. (Doomed' <=> Doomed) /\ (Whole' => Whole) /\ (Whole => Whole' \/ Doomed)
  BY <1>1, CleanupUndoes DEF CleanupFrame, Doomed, Failed, Interrupted, Cancelled, Whole
<1>4. Phase = "undoing" /\ Phase' = "undoing"
  BY <1>1 DEF Phase, InRun, Done
<1> QED
  BY <1>1, <1>2, <1>3, <1>4, Mapped DEF Promise!Undo, Promise!Doom

\* The runner turns to the cleanups with the image made, or interrupted.
LEMMA RunnerPromise ==
  ASSUME TypeOK, PipelineInv, RunnerNext
  PROVE  Promise!Turn \/ UNCHANGED Promise!promise
<1>1. pc = "next" /\ UNCHANGED <<config, host, result>> /\ result = "none"
  BY DEF RunnerNext, PipelineInv, InRun
<1>2. Made' = Made /\ (Whole' <=> Whole) /\ Phase = "making"
  BY <1>1 DEF Made, Whole, Phase, InRun
<1>3. CASE pc' = "cleanup"
  <2>1. bag \subseteq bag' /\ Phase' = "undoing"
    BY <1>3 DEF RunnerNext, Phase, InRun, Done
  <2>2. Whole' \/ Doomed'
    <3>1. PipelineInv'
      BY PipelineStep DEF Next
    <3> QED
      BY <1>1, <1>3, <3>1 DEF PipelineInv, InRun, ImageMade, Whole, Doomed, Failed
  <2>3. Doomed => Doomed'
    BY <1>1, <2>1 DEF Doomed, Failed, Interrupted, Cancelled
  <2> QED
    BY <1>1, <1>2, <2>1, <2>2, <2>3, Mapped DEF Promise!Turn, Promise!Doom
<1>4. CASE pc' # "cleanup"
  <2>1. pc' = "run" /\ bag' = bag
    BY <1>4 DEF RunnerNext
  <2>2. Doomed' = Doomed /\ Phase' = Phase /\ Whole' = Whole
    BY <1>1, <2>1 DEF Doomed, Failed, Interrupted, Cancelled, Phase, InRun, Whole
  <2> QED
    BY <1>1, <1>2, <2>2 DEF Promise!promise
<1> QED
  BY <1>3, <1>4

\* An interruption dooms, before or after the turn; the guest changes nothing.
LEMMA EnvironmentPromise ==
  ASSUME TypeOK, PipelineInv, Cancel \/ MarkCancelled \/ Guest
  PROVE  Promise!Make \/ Promise!Undo \/ UNCHANGED Promise!promise
<1>1. /\ UNCHANGED <<config, pc, result>> /\ bag \subseteq bag' /\ pc # "done"
      /\ \/ host' = host
         \/ host.vm = "running" /\ host' = [host EXCEPT !.vm = "off"]
         \/ host.vm = "running" /\ host' = [host EXCEPT !.vm = "paused"]
  BY DEF Cancel, MarkCancelled, Guest
<1>2. /\ host'.buildDir = host.buildDir /\ host'.outputDir = host.outputDir
      /\ host'.switch = host.switch /\ host'.image = host.image
      /\ host'.sealed = host.sealed /\ (host.vm = "absent" <=> host'.vm = "absent")
  BY <1>1 DEF TypeOK, Host
<1>3. Made' = Made /\ (Whole' <=> Whole) /\ (Doomed => Doomed') /\ Phase' = Phase
  BY <1>1, <1>2 DEF Made, Whole, Doomed, Failed, Interrupted, Cancelled, Phase, InRun, Done
<1>4. Phase \in {"making", "undoing"}
  BY <1>1 DEF Phase, Done
<1> QED
  BY <1>1, <1>3, <1>4, Mapped DEF Promise!Make, Promise!Undo, Promise!Doom

\* A panic turns the build, and the end tells how it went.
LEMMA EndPromise ==
  ASSUME TypeOK, PipelineInv, Panic \/ Finish
  PROVE  Promise!Turn \/ Promise!Return
<1>1. CASE Panic
  <2>1. /\ UNCHANGED <<config, bag, host>> /\ pc = "run" /\ pc' = "cleanup"
        /\ result' = "panic"
    BY <1>1 DEF Panic
  <2>2. Made' = Made /\ Doomed' /\ Phase = "making" /\ Phase' = "undoing"
    BY <2>1 DEF Made, Doomed, Phase, InRun, Done
  <2> QED
    BY <2>1, <2>2, Mapped DEF Promise!Turn, Promise!Doom
<1>2. CASE Finish
  <2>1. /\ UNCHANGED <<config, bag, host>> /\ pc = "cleanup" /\ pc' = "done"
        /\ result \in {"none", "panic"}
    BY <1>2 DEF Finish, PipelineInv
  <2>2. /\ result' \in {"artifact", "error", "cancelled", "halted", "panic"}
        /\ result' = "artifact" <=> ~Doomed
        /\ result' = "panic" <=> result = "panic"
    BY <1>2, <2>1 DEF Finish, Doomed, Failed, Interrupted, Cancelled
  <2>3. Made' = Made /\ Doomed' = Doomed /\ Whole' = Whole
    BY <2>1, <2>2 DEF Made, Doomed, Failed, Interrupted, Cancelled, Whole
  <2>4. Phase = "undoing" /\ Phase' = "over"
    BY <2>1 DEF Phase, InRun, Done
  <2> QED
    BY <2>1, <2>2, <2>3, <2>4 DEF Promise!Return
<1> QED
  BY <1>1, <1>2

(***************************************************************************)
(* BuildsKeepPromise: every build of either builder, whatever fails,       *)
(* implements BuildPromise: it makes, then undoes, then returns, an        *)
(* artifact just in case nothing has spoilt it, and its image then stays   *)
(* (Builder.Run of both builders and the multistep runner under it).       *)
(***************************************************************************)
THEOREM BuildsKeepPromise == Spec => RefinesPromise
<1>1. Init => Promise!Init
  BY DEF Init, Promise!Init, Phase, InRun, Made, Doomed, Failed, Interrupted, Cancelled, Whole
<1>2. TypeOK /\ PipelineInv /\ [Next]_vars => [Promise!Next]_(Promise!promise)
  <2> SUFFICES ASSUME TypeOK, PipelineInv, [Next]_vars
               PROVE  Promise!Next \/ UNCHANGED Promise!promise
    OBVIOUS
  <2>1. CASE UNCHANGED vars
    BY <2>1 DEF vars, Promise!promise, Phase, InRun, Done, Made, Doomed, Failed,
                Interrupted, Cancelled, Whole
  <2>2. CASE Terminated
    BY <2>1, <2>2 DEF Terminated
  <2> QED
    BY <2>1, <2>2, RunPromise, CleanupPromise, RunnerPromise, EnvironmentPromise, EndPromise
       DEF Next, Promise!Next
<1> QED
  BY <1>1, <1>2, TypeCorrect, PipelineCorrect, PTL DEF Spec, RefinesPromise, Promise!Spec

(***************************************************************************)
(* What was on the host before.                                            *)
(***************************************************************************)
\* A switch that was found is not this build's, and the step knows.
SwitchInv == config.switchExists => host.switch = "other" /\ ~own.createdSwitch

\* The builds whose check of the VM's name works.
NameChecked ==
  config.nameTaken /\ config.builder = "iso" /\ ~config.wsl /\ ~NameCheckMayMiss

\* Either StepCreateVM has not been run, or it has marked the VM as one to keep.
CollisionInv ==
  NameChecked =>
    /\ host.otherVM
    /\ \/ InRun /\ pos <= 8
       \/ pc = "cleanup" /\ pos < 8
       \/ own.keepVM
       \/ Done

\* The steps that are neither a Run nor a Cleanup.
LEMMA OtherSteps ==
  ASSUME TypeOK, RunnerNext \/ Panic \/ Cancel \/ MarkCancelled \/ Guest \/ Finish \/ UNCHANGED vars
  PROVE  /\ UNCHANGED <<config, own>>
         /\ host'.switch = host.switch /\ host'.otherVM = host.otherVM
         /\ \/ UNCHANGED <<pc, pos>>
            \/ pc = "next" /\ pc' = "run" /\ pos' = pos
            \/ InRun /\ pc' = "cleanup" /\ pos' = pos - 1
            \/ pc' = "done"
<1>1. CASE Guest
  <2>1. UNCHANGED <<config, own, pc, pos>>
        /\ \/ host' = [host EXCEPT !.vm = "off"]
           \/ host' = [host EXCEPT !.vm = "paused"]
    BY <1>1 DEF Guest
  <2> QED
    BY <2>1 DEF TypeOK, Host
<1>2. CASE RunnerNext
  BY <1>2 DEF RunnerNext, InRun
<1>3. CASE Panic
  BY <1>3 DEF Panic, InRun
<1>4. CASE Cancel \/ MarkCancelled \/ Finish \/ UNCHANGED vars
  BY <1>4 DEF Cancel, MarkCancelled, Finish, vars
<1> QED
  BY <1>1, <1>2, <1>3, <1>4

LEMMA SwitchStep == TypeOK /\ SwitchInv /\ [Next]_vars => SwitchInv'
<1> SUFFICES ASSUME TypeOK, SwitchInv, [Next]_vars PROVE SwitchInv'
  OBVIOUS
<1>1. CASE RunStep
  <2>1. config' = config
    BY <1>1, RunReturns, ReturnEffect
  <2> QED
    BY <1>1, <2>1, RunMakes DEF RunFrame, SwitchInv
<1>2. CASE CleanupStep
  BY <1>2, CleanupUndoes DEF CleanupFrame, SwitchInv
<1>3. CASE ~RunStep /\ ~CleanupStep
  BY <1>3, OtherSteps DEF SwitchInv, Next, Terminated
<1> QED
  BY <1>1, <1>2, <1>3

(***************************************************************************)
(* FoundSwitchKept: whatever fails, and however often the switch's step    *)
(* is told of an error after the fact, a build never deletes a switch it   *)
(* found (StepCreateSwitch.Run and Cleanup, step_create_switch.go:40-84).  *)
(***************************************************************************)
THEOREM FoundSwitchKept == Spec => []OtherSwitchKept
<1>1. Init => SwitchInv
  BY DEF Init, SwitchInv
<1>2. SwitchInv => OtherSwitchKept
  BY DEF SwitchInv, OtherSwitchKept
<1> QED
  BY <1>1, <1>2, SwitchStep, TypeCorrect, PTL DEF Spec

\* The step at StepCreateVM's place is StepCreateVM.
LEMMA AtCreateVM ==
  ASSUME RunStep, Steps[pos] = "CreateVM"
  PROVE  StepCreateVM
<1> USE DEF Running
<1>1. ~PlainStep
  BY DEF PlainStep, StepValidateHost, StepValidateClone, StepDownload, StepCreateFloppy,
       StepHTTPServer, StepCreateCD, StepResizeVhd, StepEnableIntegrationService,
       StepConfigureVlan, StepSetBootOrder, StepSetFirstBootDevice,
       StepTypeBootCommand, StepConfigurePSRP, StepConnect, StepProvision,
       StepCleanupTempKeys, PlainInterruptible, Plain
<1> QED
  BY <1>1 DEF RunStep, StepShutdown, RunOtherStep, PlainStep, StepCreateBuildDir, StepOutputDir,
       StepCreateSwitch, StepCloneVM, StepMountDvdDrive,
       StepMountGuestAdditions, StepMountSecondaryDvdImages, StepMountFloppydrive,
       StepRun, StepWaitForPowerOff, StepUnmountSecondaryDvdImages,
       StepUnmountGuestAdditions, StepUnmountDvdDrive, UnmountDrives,
       StepUnmountFloppyDrive, StepCompactDisk, StepExportVm, StepCollateArtifacts

\* A Run moves on, or stops where it is; StepCreateVM, told that the name is
\* taken, marks the VM.
LEMMA RunFindsName ==
  ASSUME TypeOK, CollisionInv, NameChecked, RunStep
  PROVE  /\ (pc' = "next" /\ pos' = pos + 1) \/ (pc' = "cleanup" /\ pos' = pos)
         /\ pos = 8 => own'.keepVM
<1>1. \E halt \in BOOLEAN : \E put : Return(put, halt)
  BY RunReturns DEF Returns, Continue, HaltWithError, HaltOnCancel
<1>2. (pc' = "next" /\ pos' = pos + 1) \/ (pc' = "cleanup" /\ pos' = pos)
  <2>0. PICK halt \in BOOLEAN : \E put : Return(put, halt)
    BY <1>1
  <2>1. PICK put : Return(put, halt)
    BY <2>0
  <2>2. CASE halt \/ "cancelled" \in bag \cup put
    BY <2>1, <2>2 DEF Return
  <2>3. CASE ~(halt \/ "cancelled" \in bag \cup put)
    BY <2>1, <2>3 DEF Return
  <2> QED
    BY <2>2, <2>3
<1>3. ASSUME pos = 8 PROVE own'.keepVM
  <2>1. Steps[pos] = "CreateVM"
    BY <1>3 DEF NameChecked, Steps, IsoSteps
  <2>2. StepCreateVM
    BY <2>1, AtCreateVM
  <2>3. own' = [own EXCEPT !.keepVM = TRUE]
    BY <2>2 DEF StepCreateVM, CollisionInv, NameChecked
  <2> QED
    BY <2>3 DEF TypeOK, Own
<1> QED
  BY <1>2, <1>3

LEMMA CollisionStep == TypeOK /\ CollisionInv /\ [Next]_vars => CollisionInv'
<1> SUFFICES ASSUME TypeOK, CollisionInv, [Next]_vars, NameChecked
             PROVE  CollisionInv'
  <2>1. CASE RunStep
    BY <2>1, RunReturns, ReturnEffect DEF CollisionInv, NameChecked, NameCheckMayMiss
  <2>2. CASE CleanupStep
    BY <2>2, CleanupUndoes DEF CleanupFrame, CollisionInv, NameChecked, NameCheckMayMiss
  <2>3. CASE ~RunStep /\ ~CleanupStep
    BY <2>3, OtherSteps DEF Next, Terminated, CollisionInv, NameChecked, NameCheckMayMiss
  <2> QED
    BY <2>1, <2>2, <2>3
<1>1. pos \in Int /\ (pc \in {"next", "run", "cleanup", "done"})
  BY StepsLength DEF TypeOK
<1>2. CASE RunStep
  <2>1. pc = "run" /\ (pos <= 8 \/ own.keepVM) /\ host.otherVM
    BY <1>2, RunReturns DEF Returns, CollisionInv, InRun, Done
  <2>2. host'.otherVM /\ (own.keepVM => own'.keepVM)
    BY <1>2, <2>1, RunMakes DEF RunFrame
  <2> QED
    BY <1>1, <1>2, <2>1, <2>2, RunFindsName DEF CollisionInv, InRun
<1>3. CASE CleanupStep
  <2>1. pc = "cleanup" /\ (pos < 8 \/ own.keepVM) /\ host.otherVM /\ pc' = pc
    BY <1>3, CleanupEffect DEF CollisionInv, InRun, Done
  <2>2. /\ own' = own /\ pos' = pos - 1 /\ pos \in 1 .. Len(Steps)
        /\ \/ host'.otherVM = host.otherVM
           \/ ~own.keepVM /\ Steps[pos] \in {"CreateVM", "CloneVM"}
    BY <1>3, CleanupUndoes DEF CleanupFrame
  <2>3. pos < 8 => Steps[pos] \notin {"CreateVM", "CloneVM"}
    BY <2>2 DEF NameChecked, Steps, IsoSteps
  <2>4. host'.otherVM
    BY <2>1, <2>2, <2>3
  <2>5. (pos' < 8 /\ pc' = "cleanup") \/ own'.keepVM
    BY <1>1, <2>1, <2>2
  <2> QED
    BY <2>4, <2>5 DEF CollisionInv
<1>4. CASE ~RunStep /\ ~CleanupStep
  <2>1. /\ UNCHANGED own /\ host'.otherVM = host.otherVM
        /\ \/ UNCHANGED <<pc, pos>>
           \/ pc = "next" /\ pc' = "run" /\ pos' = pos
           \/ InRun /\ pc' = "cleanup" /\ pos' = pos - 1
           \/ pc' = "done"
    BY <1>4, OtherSteps DEF Next, Terminated
  <2>2. host.otherVM
    BY DEF CollisionInv
  <2>3. CASE own.keepVM \/ pc' = "done" \/ UNCHANGED <<pc, pos>>
    BY <2>1, <2>2, <2>3 DEF CollisionInv, InRun, Done
  <2>4. CASE pc = "next" /\ pc' = "run" /\ pos' = pos
    BY <2>1, <2>2, <2>4 DEF CollisionInv, InRun, Done
  <2>5. CASE InRun /\ pc' = "cleanup" /\ pos' = pos - 1
    <3>1. pos <= 8 \/ own.keepVM
      BY <2>5 DEF CollisionInv, InRun, Done
    <3>2. pos <= 8 => pos' < 8
      BY <1>1, <2>5
    <3> QED
      BY <2>1, <2>2, <2>5, <3>1, <3>2 DEF CollisionInv
  <2> QED
    BY <2>1, <2>3, <2>4, <2>5
<1> QED
  BY <1>2, <1>3, <1>4

(***************************************************************************)
(* NamesakeKept: an iso build whose paths need no conversion and whose     *)
(* CheckVMName works never removes the VM that had its name before,        *)
(* although Remove-VM goes by the name: StepCreateVM marks it as one to    *)
(* keep (step_create_vm.go:66-72, 201-222).                                *)
(***************************************************************************)
THEOREM NamesakeKept == Spec => []CollisionHarmless
<1>1. Init => CollisionInv
  BY DEF Init, CollisionInv, NameChecked, InRun
<1>2. CollisionInv => CollisionHarmless
  BY DEF CollisionInv, NameChecked, CollisionHarmless
<1> QED
  BY <1>1, <1>2, CollisionStep, TypeCorrect, PTL DEF Spec
=============================================================================
