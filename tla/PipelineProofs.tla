--------------------------- MODULE PipelineProofs ---------------------------
(***************************************************************************)
(* Proofs about the pipeline of one build: for every set of accepted       *)
(* configurations, and whatever fails, an artifact is only ever returned   *)
(* for an image of a VM that was turned off with its drives empty.         *)
(*                                                                         *)
(* The argument: the place of a step in the list is fixed, so that to have *)
(* passed it is to be at a larger position (PastAt); a Run that continues  *)
(* changes only its own part of the host (Frame) and leaves what later     *)
(* steps rely on (Effect); one that halts leaves a mark in the bag.        *)
(***************************************************************************)
EXTENDS HypervBuildProofs

\* The list of the vmcx builder has two more steps, at its start.
Shift == IF config.builder = "iso" THEN 0 ELSE 2

\* Where the steps that matter stand in the list.
LEMMA Positions ==
  ASSUME TypeOK
  PROVE  /\ Shift \in {0, 2}
         /\ Len(Steps) = Shift + 32
         /\ \A i \in 1 .. Len(Steps) :
              /\ Steps[i] = "OutputDir" <=> i = 2
              /\ Steps[i] \in {"CreateVM", "CloneVM"} => i < 10
              /\ Steps[i] = "MountDvdDrive" <=> i = Shift + 10
              /\ Steps[i] = "MountFloppydrive" <=> i = Shift + 11
              /\ Steps[i] = "MountGuestAdditions" <=> i = Shift + 12
              /\ Steps[i] = "MountSecondaryDvdImages" <=> i = Shift + 14
              /\ Steps[i] = "Run" <=> i = Shift + 18
              /\ Steps[i] = "Shutdown" <=> i = Shift + 24
              /\ Steps[i] = "WaitForPowerOff" <=> i = Shift + 25
              /\ Steps[i] = "UnmountSecondaryDvdImages" <=> i = Shift + 26
              /\ Steps[i] = "UnmountGuestAdditions" <=> i = Shift + 27
              /\ Steps[i] = "UnmountDvdDrive" <=> i = Shift + 28
              /\ Steps[i] = "UnmountFloppyDrive" <=> i = Shift + 29
              /\ Steps[i] = "ExportVm" <=> i = Shift + 31
              /\ Steps[i] = "CollateArtifacts" <=> i = Shift + 32
<1>1. config.builder = "iso" \/ config.builder = "vmcx"
  BY ConfigsAssumption DEF TypeOK, Config
<1>2. CASE config.builder = "iso"
  BY <1>2, SMTT(60) DEF Steps, IsoSteps, Shift
<1>3. CASE config.builder = "vmcx"
  BY <1>3, SMTT(60) DEF Steps, VmcxSteps, Shift
<1> QED
  BY <1>1, <1>2, <1>3

\* To have passed a step is to be beyond its place.
LEMMA PastAt ==
  TypeOK /\ InRun =>
    /\ pos \in 1 .. (Shift + 33)
    /\ Past("OutputDir") <=> pos > 2
    /\ Past("WaitForPowerOff") <=> pos > Shift + 25
    /\ Past("UnmountSecondaryDvdImages") <=> pos > Shift + 26
    /\ Past("UnmountGuestAdditions") <=> pos > Shift + 27
    /\ Past("UnmountDvdDrive") <=> pos > Shift + 28
    /\ Past("UnmountFloppyDrive") <=> pos > Shift + 29
    /\ Past("ExportVm") <=> pos > Shift + 31
    /\ Past("CollateArtifacts") <=> pos > Shift + 32
<1> HAVE TypeOK /\ InRun
<1>1. pos \in 1 .. (Len(Steps) + 1) /\ Len(Steps) \in Nat
  BY StepsLength DEF TypeOK, InRun
<1>2. ASSUME NEW s, NEW n \in 1 .. Len(Steps),
             \A i \in 1 .. Len(Steps) : Steps[i] = s <=> i = n
      PROVE  Past(s) <=> pos > n
  BY <1>1, <1>2 DEF Past
<1>3. Shift \in {0, 2} /\ Len(Steps) = Shift + 32
  BY Positions
<1>4. Past("OutputDir") <=> pos > 2
  <2>1. \A i \in 1 .. Len(Steps) : Steps[i] = "OutputDir" <=> i = 2
    BY Positions
  <2> QED
    BY <1>2, <1>3, <2>1
<1>5. Past("WaitForPowerOff") <=> pos > Shift + 25
  <2>1. \A i \in 1 .. Len(Steps) : Steps[i] = "WaitForPowerOff" <=> i = Shift + 25
    BY Positions
  <2> QED
    BY <1>2, <1>3, <2>1
<1>6. Past("UnmountSecondaryDvdImages") <=> pos > Shift + 26
  <2>1. \A i \in 1 .. Len(Steps) : Steps[i] = "UnmountSecondaryDvdImages" <=> i = Shift + 26
    BY Positions
  <2> QED
    BY <1>2, <1>3, <2>1
<1>7. Past("UnmountGuestAdditions") <=> pos > Shift + 27
  <2>1. \A i \in 1 .. Len(Steps) : Steps[i] = "UnmountGuestAdditions" <=> i = Shift + 27
    BY Positions
  <2> QED
    BY <1>2, <1>3, <2>1
<1>8. Past("UnmountDvdDrive") <=> pos > Shift + 28
  <2>1. \A i \in 1 .. Len(Steps) : Steps[i] = "UnmountDvdDrive" <=> i = Shift + 28
    BY Positions
  <2> QED
    BY <1>2, <1>3, <2>1
<1>9. Past("UnmountFloppyDrive") <=> pos > Shift + 29
  <2>1. \A i \in 1 .. Len(Steps) : Steps[i] = "UnmountFloppyDrive" <=> i = Shift + 29
    BY Positions
  <2> QED
    BY <1>2, <1>3, <2>1
<1>10. Past("ExportVm") <=> pos > Shift + 31
  <2>1. \A i \in 1 .. Len(Steps) : Steps[i] = "ExportVm" <=> i = Shift + 31
    BY Positions
  <2> QED
    BY <1>2, <1>3, <2>1
<1>11. Past("CollateArtifacts") <=> pos > Shift + 32
  <2>1. \A i \in 1 .. Len(Steps) : Steps[i] = "CollateArtifacts" <=> i = Shift + 32
    BY Positions
  <2> QED
    BY <1>2, <1>3, <2>1
<1> QED
  BY <1>1, <1>3, <1>4, <1>5, <1>6, <1>7, <1>8, <1>9, <1>10, <1>11

(***************************************************************************)
(* PipelineInv with positions for the steps passed.                        *)
(***************************************************************************)
RunPart ==
  /\ result = "none"
  /\ host.drives = dvdProps
  /\ dvdProps \subseteq {"os", "guest"} \cup Images(SecondaryDvds)
  /\ config.generation = 2 => ~host.floppy
  /\ pos > 2 => host.outputDir = "present"
  /\ pos > Shift + 25 => host.vm = "off"
  /\ pos > Shift + 26 => dvdProps \cap SecondaryImage = {}
  /\ pos > Shift + 27 => "guest" \notin dvdProps
  /\ pos > Shift + 28 => "os" \notin dvdProps
  /\ pos > Shift + 29 => ~host.floppy \/ Failed
  /\ config.skipExport /\ pos > Shift + 32 => ImageMade
  /\ ~config.skipExport /\ pos > Shift + 31 => ImageMade

CleanupPart ==
  /\ ~InRun /\ ~Interrupted /\ result # "panic" =>
       host.outputDir = "present" /\ ImageMade
  /\ pc = "cleanup" => result \in {"none", "panic"}
  /\ Done /\ result = "artifact" => ~Interrupted /\ ~Failed

LEMMA PipelineParts ==
  TypeOK => (PipelineInv <=> (InRun => RunPart) /\ CleanupPart)
<1>1. TypeOK /\ InRun => (Past(IF config.skipExport THEN "CollateArtifacts" ELSE "ExportVm")
                           <=> \/ config.skipExport /\ pos > Shift + 32
                               \/ ~config.skipExport /\ pos > Shift + 31)
  <2>1. CASE config.skipExport
    BY <2>1, PastAt
  <2>2. CASE ~config.skipExport
    BY <2>2, PastAt
  <2> QED
    BY <2>1, <2>2
<1> HIDE DEF Past, ImageMade, Images, SecondaryDvds, Failed, Shift, InRun
<1> QED
  BY <1>1, PastAt DEF PipelineInv, RunPart, CleanupPart

LEMMA PipelinePartsNext ==
  TypeOK' => (PipelineInv' <=> (InRun' => RunPart') /\ CleanupPart')
BY PipelineParts, PTL

(***************************************************************************)
(* The three ways a Run returns.                                           *)
(***************************************************************************)
Returns ==
  /\ pc = "run"
  /\ (\E put : Continue(put)) \/ HaltWithError \/ HaltOnCancel

\* Of these only one goes on to the next step, and the others leave their mark.
LEMMA ReturnEffect ==
  ASSUME Returns
  PROVE  /\ pc' \in {"next", "cleanup"} /\ bag \subseteq bag'
         /\ UNCHANGED <<config, ctxDone, result>>
         /\ pc' = "next" => pos' = pos + 1 /\ ~HaltWithError /\ ~HaltOnCancel
         /\ pc' = "cleanup" => Interrupted'
<1>1. ASSUME NEW put, NEW halt \in BOOLEAN, Return(put, halt)
      PROVE  /\ pc' \in {"next", "cleanup"} /\ bag \subseteq bag'
             /\ UNCHANGED <<config, ctxDone, result>>
             /\ pc' = "next" => pos' = pos + 1 /\ ~halt
             /\ pc' = "cleanup" => Interrupted'
  BY <1>1 DEF Return, Interrupted, Cancelled
<1>2. CASE HaltWithError \/ HaltOnCancel
  BY <1>1, <1>2 DEF HaltWithError, HaltOnCancel
<1>3. CASE ~HaltWithError /\ ~HaltOnCancel
  <2>1. PICK put : Return(put, FALSE)
    BY <1>3 DEF Returns, Continue
  <2> QED
    BY <1>1, <1>3, <2>1
<1> QED
  BY <1>2, <1>3

\* Every Run is one of a kind, or takes a step of its own.
LEMMA RunReturns == RunStep => Returns
<1> SUFFICES ASSUME RunStep PROVE Returns
  OBVIOUS
<1> USE DEF Returns, Running
<1>1. CASE PlainStep
  BY <1>1, PlainSteps DEF PlainInterruptible, Plain
<1>2. CASE StepCreateBuildDir \/ StepOutputDir \/ StepCreateSwitch
  BY <1>2 DEF StepCreateBuildDir, StepOutputDir, StepCreateSwitch
<1>3. CASE StepCreateVM \/ StepCloneVM
  BY <1>3 DEF StepCreateVM, StepCloneVM, MakeVM
<1>4. CASE StepMountDvdDrive \/ StepMountGuestAdditions \/ StepMountSecondaryDvdImages
  BY <1>4 DEF StepMountDvdDrive, StepMountGuestAdditions, StepMountSecondaryDvdImages,
              MountDrives
<1>5. CASE StepMountFloppydrive \/ StepRun \/ StepShutdown \/ StepWaitForPowerOff
  BY <1>5 DEF StepMountFloppydrive, StepRun, StepShutdown, StepWaitForPowerOff
<1>6. CASE \/ StepUnmountSecondaryDvdImages \/ StepUnmountGuestAdditions
           \/ StepUnmountDvdDrive
  BY <1>6 DEF StepUnmountSecondaryDvdImages, StepUnmountGuestAdditions,
              StepUnmountDvdDrive, UnmountDrives
<1>7. CASE StepUnmountFloppyDrive \/ StepCompactDisk \/ StepExportVm \/ StepCollateArtifacts
  BY <1>7 DEF StepUnmountFloppyDrive, StepCompactDisk, StepExportVm, StepCollateArtifacts
<1> QED
  BY <1>1, <1>2, <1>3, <1>4, <1>5, <1>6, <1>7 DEF RunStep, RunOtherStep, PlainStep

(***************************************************************************)
(* What a Run that goes on leaves alone, and what it brings about.         *)
(***************************************************************************)
Mounts == {"MountDvdDrive", "MountGuestAdditions", "MountSecondaryDvdImages"}
Unmounts == {"UnmountDvdDrive", "UnmountGuestAdditions", "UnmountSecondaryDvdImages"}

Frame ==
  /\ Steps[pos] \notin Mounts \cup Unmounts =>
       dvdProps' = dvdProps /\ host'.drives = host.drives
  /\ Steps[pos] \notin {"MountFloppydrive", "UnmountFloppyDrive"} =>
       host'.floppy = host.floppy
  /\ Steps[pos] \notin {"CreateVM", "CloneVM", "Run", "Shutdown"} => host'.vm = host.vm
  /\ Steps[pos] # "OutputDir" => host'.outputDir = host.outputDir
  /\ Steps[pos] \notin {"ExportVm", "CollateArtifacts"} =>
       host'.image = host.image /\ host'.sealed = host.sealed

Added(images) == host'.drives = host.drives \cup images /\ dvdProps' = dvdProps \cup images
Removed(paths) ==
  /\ host'.drives = host.drives \ (Images(paths) \cap dvdProps)
  /\ dvdProps' = dvdProps \ Images(paths)

Effect ==
  /\ Steps[pos] = "OutputDir" => host'.outputDir = "present"
  /\ Steps[pos] \in Mounts =>
       \E images \in SUBSET ({"os", "guest"} \cup Images(SecondaryDvds)) : Added(images)
  /\ Steps[pos] = "MountFloppydrive" /\ config.generation = 2 => host'.floppy = host.floppy
  /\ Steps[pos] = "WaitForPowerOff" => host.vm = "off"
  /\ Steps[pos] = "UnmountSecondaryDvdImages" => Removed(SecondaryDvds)
  /\ Steps[pos] = "UnmountGuestAdditions" => Removed(GuestDvd)
  /\ Steps[pos] = "UnmountDvdDrive" => Removed(OsDvd)
  /\ Steps[pos] = "UnmountFloppyDrive" =>
       IF config.generation = 2 THEN host'.floppy = host.floppy
                                ELSE ~host'.floppy \/ Failed'
  /\ Steps[pos] = "ExportVm" =>
       IF config.skipExport THEN host' = host
                            ELSE host'.image = "nested" /\ (host'.sealed <=> Sealed)
  /\ Steps[pos] = "CollateArtifacts" =>
       IF config.skipExport THEN host'.image = "disks" /\ (host'.sealed <=> Sealed)
       ELSE host'.image \in {host.image, "flat"} /\ host'.sealed = host.sealed

LEMMA RunEffect ==
  ASSUME TypeOK, RunStep, pc' = "next"
  PROVE  Frame /\ Effect
<1> USE DEF Running
<1>1. ~HaltWithError /\ ~HaltOnCancel
  BY RunReturns, ReturnEffect
<1>2. host \in Host
  BY DEF TypeOK
<1>3. CASE PlainStep
  <2>1. PICK s, put : PlainInterruptible(s, put)
    BY <1>3, PlainSteps
  <2>2. Steps[pos] \in {"ValidateHost", "ValidateClone", "Download", "CreateFloppy", "HTTPServer",
           "CreateCD", "ResizeVhd", "EnableIntegrationService", "ConfigureVlan",
           "SetBootOrder", "SetFirstBootDevice", "TypeBootCommand", "ConfigurePSRP",
           "Connect", "Provision", "CleanupTempKeys"}
    BY <1>3 DEF PlainStep, StepValidateHost, StepValidateClone, StepDownload, StepCreateFloppy,
           StepHTTPServer, StepCreateCD, StepResizeVhd, StepEnableIntegrationService,
           StepConfigureVlan, StepSetBootOrder, StepSetFirstBootDevice,
           StepTypeBootCommand, StepConfigurePSRP, StepConnect, StepProvision,
           StepCleanupTempKeys, PlainInterruptible, Plain
  <2>3. UNCHANGED <<dvdProps, host>>
    BY <2>1 DEF PlainInterruptible, Plain
  <2> QED
    BY <2>2, <2>3 DEF Frame, Effect, Mounts, Unmounts
<1>4. CASE StepCreateBuildDir \/ StepOutputDir \/ StepCreateSwitch
  BY <1>1, <1>2, <1>4 DEF StepCreateBuildDir, StepOutputDir, StepCreateSwitch, Host,
                          Frame, Effect, Mounts, Unmounts
<1>5. CASE StepCreateVM \/ StepCloneVM
  BY <1>1, <1>2, <1>5 DEF StepCreateVM, StepCloneVM, MakeVM, NewVM, Host,
                          Frame, Effect, Mounts, Unmounts
<1>6. CASE StepMountFloppydrive
  BY <1>1, <1>2, <1>6 DEF StepMountFloppydrive, Host, Frame, Effect, Mounts, Unmounts
<1>7. CASE StepRun \/ StepWaitForPowerOff \/ StepCompactDisk
  BY <1>1, <1>2, <1>7 DEF StepRun, StepWaitForPowerOff, IsOff, StepCompactDisk, Host,
                          Frame, Effect, Mounts, Unmounts
<1>8. CASE StepShutdown
  BY <1>1, <1>2, <1>8 DEF StepShutdown, Host, Frame, Effect, Mounts, Unmounts
<1>9. CASE StepMountDvdDrive \/ StepMountGuestAdditions \/ StepMountSecondaryDvdImages
  <2>1. PICK paths \in {<<>>, OsDvd, GuestDvd, SecondaryDvds} :
          \E reachable : MountDrives(paths, reachable)
    BY <1>9 DEF StepMountDvdDrive, StepMountGuestAdditions, StepMountSecondaryDvdImages
  <2>2. Steps[pos] \in Mounts /\ own' = own
    BY <1>9, <2>1 DEF StepMountDvdDrive, StepMountGuestAdditions,
                      StepMountSecondaryDvdImages, MountDrives, Mounts
  <2>3. PICK k \in 0 .. Len(paths), stray \in BOOLEAN :
          /\ host' = [host EXCEPT !.drives =
                        @ \cup First(paths, IF stray THEN k + 1 ELSE k)]
          /\ dvdProps' = dvdProps \cup First(paths, k)
          /\ (k = Len(paths) /\ ~stray) \/ HaltWithError
    BY <2>1 DEF MountDrives
  <2>4. k = Len(paths) /\ ~stray
    BY <1>1, <2>3
  <2>5. host' = [host EXCEPT !.drives = @ \cup Images(paths)]
        /\ dvdProps' = dvdProps \cup Images(paths)
    BY <2>3, <2>4 DEF Images
  <2>6. Images(paths) \subseteq {"os", "guest"} \cup Images(SecondaryDvds)
    <3>1. CASE paths = <<>>
      BY <3>1 DEF Images, First
    <3>2. CASE paths = OsDvd \/ paths = GuestDvd
      BY <3>2 DEF Images, First, OsDvd, GuestDvd
    <3> QED
      BY <2>1, <3>1, <3>2
  <2>7. Added(Images(paths))
    BY <1>2, <2>5 DEF Added, Host
  <2>8. Frame
    BY <1>2, <2>2, <2>5 DEF Frame, Host, Mounts
  <2> QED
    BY <2>2, <2>6, <2>7, <2>8 DEF Effect, Mounts
<1>10. CASE \/ StepUnmountSecondaryDvdImages \/ StepUnmountGuestAdditions
            \/ StepUnmountDvdDrive
  <2>1. ASSUME NEW s, NEW paths, UnmountDrives(s, paths)
        PROVE  /\ Steps[pos] = s /\ Removed(paths)
               /\ host' = [host EXCEPT !.drives = host'.drives]
    <3>1. PICK k \in 0 .. Len(paths) :
            /\ host' = [host EXCEPT !.drives = @ \ (First(paths, k) \cap dvdProps)]
            /\ \/ k = Len(paths) /\ dvdProps' = dvdProps \ First(paths, k)
               \/ HaltWithError
      BY <2>1 DEF UnmountDrives
    <3>2. k = Len(paths) /\ dvdProps' = dvdProps \ First(paths, k)
      BY <1>1, <3>1
    <3> QED
      BY <1>2, <2>1, <3>1, <3>2 DEF UnmountDrives, Removed, Images, Host
  <2>2. CASE StepUnmountSecondaryDvdImages
    BY <1>2, <2>1, <2>2 DEF StepUnmountSecondaryDvdImages, Frame, Effect, Mounts, Unmounts, Host
  <2>3. CASE StepUnmountGuestAdditions
    BY <1>2, <2>1, <2>3 DEF StepUnmountGuestAdditions, Frame, Effect, Mounts, Unmounts, Host
  <2>4. CASE StepUnmountDvdDrive
    BY <1>2, <2>1, <2>4 DEF StepUnmountDvdDrive, Frame, Effect, Mounts, Unmounts, Host
  <2> QED
    BY <1>10, <2>2, <2>3, <2>4
<1>11. CASE StepUnmountFloppyDrive
  <2>1. Steps[pos] = "UnmountFloppyDrive" /\ dvdProps' = dvdProps
    BY <1>11 DEF StepUnmountFloppyDrive
  <2>2. \/ config.generation = 2 /\ host' = host
        \/ config.generation # 2 /\ host' = [host EXCEPT !.floppy = FALSE]
        \/ config.generation # 2 /\ host' = host /\ Continue({"error"})
    BY <1>1, <1>11 DEF StepUnmountFloppyDrive, CallFails
  <2>3. Continue({"error"}) => Failed'
    BY DEF Continue, Return, Failed
  <2>4. /\ host'.drives = host.drives /\ host'.vm = host.vm
        /\ host'.outputDir = host.outputDir /\ host'.image = host.image
        /\ host'.sealed = host.sealed
    BY <1>2, <2>2 DEF Host
  <2>5. \/ config.generation = 2 /\ host'.floppy = host.floppy
        \/ config.generation # 2 /\ (~host'.floppy \/ Failed')
    BY <1>2, <2>2, <2>3 DEF Host
  <2> QED
    BY <2>1, <2>4, <2>5 DEF Frame, Effect, Mounts, Unmounts
<1>12. CASE StepExportVm
  <2>1. Steps[pos] = "ExportVm" /\ dvdProps' = dvdProps
    BY <1>12 DEF StepExportVm
  <2>2. \/ config.skipExport /\ host' = host
        \/ ~config.skipExport /\ host' = [host EXCEPT !.image = "nested", !.sealed = Sealed]
    BY <1>1, <1>12 DEF StepExportVm
  <2> QED
    BY <1>2, <2>1, <2>2 DEF Frame, Effect, Mounts, Unmounts, Host
<1>13. CASE StepCollateArtifacts
  <2>1. Steps[pos] = "CollateArtifacts" /\ dvdProps' = dvdProps
    BY <1>13 DEF StepCollateArtifacts
  <2>2. \/ /\ config.skipExport
           /\ host' = [host EXCEPT !.image = "disks", !.sealed = Sealed, !.disks = "output"]
        \/ ~config.skipExport /\ host' \in {host, [host EXCEPT !.image = "flat"]}
    BY <1>1, <1>13 DEF StepCollateArtifacts
  <2> QED
    BY <1>2, <2>1, <2>2 DEF Frame, Effect, Mounts, Unmounts, Host
<1> QED
  BY <1>3, <1>4, <1>5, <1>6, <1>7, <1>8, <1>9, <1>10, <1>11, <1>12, <1>13
     DEF RunStep, RunOtherStep, PlainStep

\* The bag only grows, and with it what is excused and what is recorded there.
LEMMA BagGrows ==
  ASSUME bag \subseteq bag', config' = config, TypeOK
  PROVE  /\ Failed => Failed'
         /\ Interrupted => Interrupted'
         /\ Images(SecondaryDvds) \subseteq Images(SecondaryDvds)'
         /\ ImageMade /\ host'.image = host.image /\ host'.sealed = host.sealed => ImageMade'
<1>1. Failed => Failed'
  BY DEF Failed
<1>2. Interrupted => Interrupted'
  BY DEF Interrupted, Cancelled
<1>3. config.secondary \in Seq(SecondaryImage)
  BY PathsType
<1>4. Images(SecondaryDvds) \subseteq Images(SecondaryDvds)'
  <2>1. ASSUME NEW s \in Seq(SecondaryImage) PROVE Images(s) \subseteq Images(s \o <<"cd">>)
    BY <2>1 DEF Images, First
  <2>2. ASSUME NEW s \in Seq(SecondaryImage) PROVE s \o <<>> = s
    BY <2>2
  <2>3. CASE "cd_path" \in bag
    BY <2>3 DEF SecondaryDvds
  <2>4. CASE "cd_path" \notin bag
    BY <1>3, <2>1, <2>2, <2>4 DEF SecondaryDvds
  <2> QED
    BY <2>3, <2>4
<1>5. ImageMade /\ host'.image = host.image /\ host'.sealed = host.sealed => ImageMade'
  BY <1>1 DEF ImageMade
<1> QED
  BY <1>1, <1>2, <1>4, <1>5

\* A Run that goes on keeps its part of the invariant.
LEMMA RunPartKept ==
  ASSUME TypeOK, RunPart, RunStep, pc' = "next"
  PROVE  RunPart'
<1>1. /\ pc = "run" /\ pos' = pos + 1 /\ bag \subseteq bag'
      /\ UNCHANGED <<config, result>> /\ Shift' = Shift
  BY RunReturns, ReturnEffect DEF Returns, Shift
<1>2. Frame /\ Effect
  BY RunEffect
<1>3. pos \in 1 .. Len(Steps)
  BY <1>1 DEF TypeOK
<1>4. /\ Shift \in {0, 2}
      /\ Steps[pos] = "OutputDir" <=> pos = 2
      /\ Steps[pos] \in {"CreateVM", "CloneVM"} => pos < 10
      /\ Steps[pos] = "MountDvdDrive" <=> pos = Shift + 10
      /\ Steps[pos] = "MountFloppydrive" <=> pos = Shift + 11
      /\ Steps[pos] = "MountGuestAdditions" <=> pos = Shift + 12
      /\ Steps[pos] = "MountSecondaryDvdImages" <=> pos = Shift + 14
      /\ Steps[pos] = "Run" <=> pos = Shift + 18
      /\ Steps[pos] = "Shutdown" <=> pos = Shift + 24
      /\ Steps[pos] = "WaitForPowerOff" <=> pos = Shift + 25
      /\ Steps[pos] = "UnmountSecondaryDvdImages" <=> pos = Shift + 26
      /\ Steps[pos] = "UnmountGuestAdditions" <=> pos = Shift + 27
      /\ Steps[pos] = "UnmountDvdDrive" <=> pos = Shift + 28
      /\ Steps[pos] = "UnmountFloppyDrive" <=> pos = Shift + 29
      /\ Steps[pos] = "ExportVm" <=> pos = Shift + 31
      /\ Steps[pos] = "CollateArtifacts" <=> pos = Shift + 32
  BY <1>3, Positions
<1>5. /\ Failed => Failed'
      /\ Images(SecondaryDvds) \subseteq Images(SecondaryDvds)'
      /\ ImageMade /\ host'.image = host.image /\ host'.sealed = host.sealed => ImageMade'
  BY <1>1, BagGrows
<1>6. /\ Images(OsDvd) = {"os"} /\ Images(GuestDvd) = {"guest"}
      /\ {"os", "guest"} \cap SecondaryImage = {}
  BY DEF Images, First, OsDvd, GuestDvd, SecondaryImage
<1>7. result' = "none" /\ (pos' > 2 => host'.outputDir = "present")
  BY <1>1, <1>2, <1>3, <1>4 DEF RunPart, Frame, Effect
<1>8. pos' > Shift' + 25 => host'.vm = "off"
  BY <1>1, <1>2, <1>3, <1>4 DEF RunPart, Frame, Effect
<1>9. host'.drives = dvdProps' /\ dvdProps' \subseteq {"os", "guest"} \cup Images(SecondaryDvds)'
  <2>1. CASE Steps[pos] \notin Mounts \cup Unmounts
    BY <1>2, <1>5, <2>1 DEF RunPart, Frame
  <2>2. CASE Steps[pos] \in Mounts
    BY <1>2, <1>5, <2>2 DEF RunPart, Effect, Added
  <2>3. CASE Steps[pos] \in Unmounts
    BY <1>2, <1>5, <2>3, ZenonT(60) DEF RunPart, Effect, Removed, Unmounts
  <2> QED
    BY <2>1, <2>2, <2>3
<1>10. /\ pos' > Shift' + 26 => dvdProps' \cap SecondaryImage = {}
       /\ pos' > Shift' + 27 => "guest" \notin dvdProps'
       /\ pos' > Shift' + 28 => "os" \notin dvdProps'
  <2>1. CASE pos < Shift + 26
    BY <1>1, <1>3, <1>4, <2>1
  <2>2. CASE pos = Shift + 26
    <3>1. dvdProps' = dvdProps \ Images(SecondaryDvds)
      BY <1>2, <1>4, <2>2 DEF Effect, Removed
    <3>2. dvdProps' \cap SecondaryImage = {}
      BY <1>6, <3>1 DEF RunPart
    <3> QED
      BY <1>1, <1>3, <1>4, <2>2, <3>2
  <2>3. CASE pos = Shift + 27
    BY <1>1, <1>2, <1>3, <1>4, <1>6, <2>3 DEF RunPart, Effect, Removed
  <2>4. CASE pos = Shift + 28
    BY <1>1, <1>2, <1>3, <1>4, <1>6, <2>4 DEF RunPart, Effect, Removed
  <2>5. CASE pos > Shift + 28
    <3>1. Steps[pos] \notin Mounts \cup Unmounts
      BY <1>3, <1>4, <2>5 DEF Mounts, Unmounts
    <3>2. dvdProps' = dvdProps
      BY <1>2, <3>1 DEF Frame
    <3>3. pos > Shift + 26 /\ pos > Shift + 27 /\ pos \in Nat /\ Shift \in Nat
      BY <1>3, <1>4, <2>5
    <3> QED
      BY <2>5, <3>2, <3>3 DEF RunPart
  <2> QED
    BY <1>3, <1>4, <2>1, <2>2, <2>3, <2>4, <2>5
<1>11. /\ config'.generation = 2 => ~host'.floppy
       /\ pos' > Shift' + 29 => ~host'.floppy \/ Failed'
  BY <1>1, <1>2, <1>3, <1>4, <1>5 DEF RunPart, Frame, Effect
<1>12. /\ config'.skipExport /\ pos' > Shift' + 32 => ImageMade'
       /\ ~config'.skipExport /\ pos' > Shift' + 31 => ImageMade'
  <2>1. CASE pos < Shift + 31
    BY <1>1, <1>3, <1>4, <2>1
  <2>2. ASSUME pos > Shift + 29 PROVE Sealed \/ Failed
    <3>1. dvdProps \cap SecondaryImage = {} /\ "guest" \notin dvdProps /\ "os" \notin dvdProps
      BY <1>3, <1>4, <2>2 DEF RunPart
    <3>2. dvdProps \subseteq Image
      BY DEF TypeOK
    <3>3. host.drives = {}
      BY <3>1, <3>2 DEF RunPart, Image
    <3> QED
      BY <1>3, <1>4, <2>2, <3>3 DEF RunPart, Sealed
  <2>3. CASE pos = Shift + 31
    BY <1>1, <1>2, <1>3, <1>4, <1>5, <2>2, <2>3 DEF Effect, ImageMade
  <2>4. CASE pos = Shift + 32
    BY <1>1, <1>2, <1>3, <1>4, <1>5, <2>2, <2>4 DEF RunPart, Effect, ImageMade
  <2>5. CASE pos > Shift + 32
    BY <1>3, <2>5, Positions
  <2> QED
    BY <1>3, <1>4, <2>1, <2>3, <2>4, <2>5
<1> QED
  BY <1>1, <1>7, <1>8, <1>9, <1>10, <1>11, <1>12 DEF RunPart

(***************************************************************************)
(* The inductive step: every action keeps PipelineInv.                     *)
(***************************************************************************)
ArithInv == (InRun => RunPart) /\ CleanupPart

\* A Run that does not go on leaves the mark that excuses the rest.
LEMMA RunStepInv ==
  ASSUME TypeOK, ArithInv, RunStep
  PROVE  ArithInv'
<1>1. /\ pc = "run" /\ pc' \in {"next", "cleanup"} /\ result' = result
      /\ pc' = "cleanup" => Interrupted'
  BY RunReturns, ReturnEffect DEF Returns
<1>2. RunPart
  BY <1>1 DEF ArithInv, InRun
<1>3. CASE pc' = "next"
  BY <1>1, <1>2, <1>3, RunPartKept DEF ArithInv, CleanupPart, InRun, Done
<1>4. CASE pc' = "cleanup"
  BY <1>1, <1>2, <1>4 DEF ArithInv, CleanupPart, InRun, Done, RunPart
<1> QED
  BY <1>1, <1>3, <1>4

\* No Cleanup touches an image, nor the output directory unless interrupted.
LEMMA CleanupEffect ==
  ASSUME TypeOK, CleanupStep
  PROVE  /\ pc = "cleanup" /\ UNCHANGED <<config, pc, bag, result>>
         /\ host'.image = host.image /\ host'.sealed = host.sealed
         /\ ~Interrupted => host'.outputDir = host.outputDir
<1> USE DEF CleansUp, Attempt, Host
<1>1. host \in Host
  BY DEF TypeOK
<1>2. CASE CleanupCreateBuildDir
  BY <1>1, <1>2 DEF CleanupCreateBuildDir
<1>3. CASE CleanupOutputDir
  BY <1>1, <1>3 DEF CleanupOutputDir
<1>4. CASE CleanupCreateSwitch \/ CleanupVM \/ CleanupRun
  BY <1>1, <1>4 DEF CleanupCreateSwitch, CleanupVM, CleanupRun
<1>5. CASE CleanupMountDvdDrive \/ CleanupMountGuestAdditions
           \/ CleanupMountSecondaryDvdImages
  BY <1>1, <1>5 DEF CleanupMountDvdDrive, CleanupMountGuestAdditions,
                    CleanupMountSecondaryDvdImages, CleanupDrives
<1>6. CASE CleanupMountFloppydrive
  BY <1>1, <1>6 DEF CleanupMountFloppydrive
<1>7. CASE NoCleanup
  BY <1>7 DEF NoCleanup
<1> QED
  BY <1>2, <1>3, <1>4, <1>5, <1>6, <1>7 DEF CleanupStep

LEMMA CleanupStepInv ==
  ASSUME TypeOK, ArithInv, CleanupStep
  PROVE  ArithInv'
<1>1. /\ pc = "cleanup" /\ UNCHANGED <<config, pc, bag, result>>
      /\ host'.image = host.image /\ host'.sealed = host.sealed
      /\ ~Interrupted => host'.outputDir = host.outputDir
  BY CleanupEffect
<1>2. (Interrupted' <=> Interrupted) /\ (Failed' <=> Failed) /\ (ImageMade' <=> ImageMade)
  BY <1>1 DEF Interrupted, Cancelled, Failed, ImageMade
<1> QED
  BY <1>1, <1>2 DEF ArithInv, CleanupPart, InRun, Done

\* What the invariant depends on.
LEMMA Depends ==
  ASSUME UNCHANGED <<config, pos, bag, dvdProps, host, result>>
  PROVE  /\ (RunPart' <=> RunPart) /\ (ImageMade' <=> ImageMade)
         /\ (Interrupted' <=> Interrupted) /\ (Failed' <=> Failed)
<1>1. /\ (ImageMade' <=> ImageMade) /\ (Interrupted' <=> Interrupted)
      /\ (Failed' <=> Failed)
  BY DEF Failed, Interrupted, Cancelled, ImageMade
<1>2. Images(SecondaryDvds)' = Images(SecondaryDvds) /\ Shift' = Shift
  BY DEF Images, First, SecondaryDvds, Shift
<1>3. RunPart' <=> RunPart
  BY <1>1, <1>2 DEF RunPart
<1> QED
  BY <1>1, <1>3

\* The end of the list is reached with the image made, or the bag marked.
LEMMA RunnerInv ==
  ASSUME TypeOK, ArithInv, RunnerNext
  PROVE  ArithInv'
<1>1. pc = "next" /\ UNCHANGED <<config, ctxDone, dvdProps, own, host, result>> /\ RunPart
  BY DEF RunnerNext, ArithInv, InRun
<1>2. CASE pos > Len(Steps)
  <2>1. pc' = "cleanup" /\ bag' = bag
    BY <1>2 DEF RunnerNext
  <2>2. host.outputDir = "present" /\ ImageMade
    BY <1>1, <1>2, Positions DEF RunPart, TypeOK
  <2>3. host'.outputDir = "present" /\ ImageMade'
    BY <1>1, <2>1, <2>2 DEF ImageMade, Failed
  <2> QED
    BY <1>1, <2>1, <2>3 DEF ArithInv, CleanupPart, InRun, Done, RunPart
<1>3. CASE pos <= Len(Steps) /\ ctxDone
  <2>1. pc' = "cleanup" /\ Interrupted'
    BY <1>3, StepsLength DEF RunnerNext, Interrupted, Cancelled, TypeOK
  <2> QED
    BY <1>1, <2>1 DEF ArithInv, CleanupPart, InRun, Done, RunPart
<1>4. CASE pos <= Len(Steps) /\ ~ctxDone
  <2>1. pc' = "run" /\ UNCHANGED <<pos, bag>>
    BY <1>4, StepsLength DEF RunnerNext, TypeOK
  <2>2. RunPart'
    BY <1>1, <2>1, Depends
  <2> QED
    BY <1>1, <2>1, <2>2 DEF ArithInv, CleanupPart, InRun, Done
<1> QED
  BY <1>2, <1>3, <1>4, StepsLength DEF TypeOK

\* The user, the runner's goroutine and the guest.
LEMMA EnvironmentInv ==
  ASSUME TypeOK, ArithInv, Cancel \/ MarkCancelled \/ Guest
  PROVE  ArithInv'
<1> USE DEF ArithInv, CleanupPart, InRun, Done
<1>1. CASE Cancel
  BY <1>1, Depends DEF Cancel
<1>2. CASE MarkCancelled
  <2>1. UNCHANGED <<config, pc, pos, dvdProps, host, result>> /\ pc # "done"
        /\ bag' = bag \cup {"cancelled"}
    BY <1>2 DEF MarkCancelled
  <2>2. Interrupted' /\ (Failed' <=> Failed) /\ SecondaryDvds' = SecondaryDvds
    BY <2>1 DEF Interrupted, Cancelled, Failed, SecondaryDvds
  <2>3. RunPart => RunPart'
    BY <2>1, <2>2 DEF RunPart, Images, First, Shift, ImageMade
  <2> QED
    BY <2>1, <2>2, <2>3
<1>3. CASE Guest
  <2>1. UNCHANGED <<config, pc, pos, bag, dvdProps, result>> /\ host.vm = "running"
        /\ \/ host' = [host EXCEPT !.vm = "off"]
           \/ host' = [host EXCEPT !.vm = "paused"]
    BY <1>3 DEF Guest
  <2>2. /\ host'.drives = host.drives /\ host'.floppy = host.floppy
        /\ host'.outputDir = host.outputDir /\ host'.image = host.image
        /\ host'.sealed = host.sealed
    BY <2>1 DEF TypeOK, Host
  <2>3. (Failed' <=> Failed) /\ (Interrupted' <=> Interrupted) /\ (ImageMade' <=> ImageMade)
    BY <2>1, <2>2 DEF Failed, Interrupted, Cancelled, ImageMade
  <2>4. RunPart => RunPart'
    BY <2>1, <2>2, <2>3, ZenonT(60) DEF RunPart, Images, First, SecondaryDvds, Shift
  <2> QED
    BY <2>1, <2>2, <2>3, <2>4
<1> QED
  BY <1>1, <1>2, <1>3

\* A panic, and the end.
LEMMA EndInv ==
  ASSUME TypeOK, ArithInv, Panic \/ Finish \/ UNCHANGED vars
  PROVE  ArithInv'
<1> USE DEF ArithInv, CleanupPart, InRun, Done
<1>1. CASE Panic
  BY <1>1 DEF Panic
<1>2. CASE Finish
  <2>1. pc = "cleanup" /\ pc' = "done" /\ UNCHANGED <<config, bag, host>>
    BY <1>2 DEF Finish
  <2>2. result' = "artifact" => ~Interrupted /\ ~Failed
    BY <1>2 DEF Finish, Interrupted, Failed
  <2>3. result = "panic" => result' = "panic"
    BY <1>2 DEF Finish
  <2>4. (Failed' <=> Failed) /\ (Interrupted' <=> Interrupted) /\ (ImageMade' <=> ImageMade)
    BY <2>1 DEF Failed, Interrupted, Cancelled, ImageMade
  <2> QED
    BY <2>1, <2>2, <2>3, <2>4
<1>3. CASE UNCHANGED vars
  BY <1>3, Depends DEF vars
<1> QED
  BY <1>1, <1>2, <1>3

LEMMA PipelineStep == TypeOK /\ PipelineInv /\ [Next]_vars => PipelineInv'
<1> SUFFICES ASSUME TypeOK, PipelineInv, [Next]_vars PROVE PipelineInv'
  OBVIOUS
<1>1. ArithInv
  BY PipelineParts DEF ArithInv
<1>2. ArithInv'
  BY <1>1, RunStepInv, CleanupStepInv, RunnerInv, EnvironmentInv, EndInv DEF Next, Terminated
<1>3. TypeOK'
  BY TypeStep
<1> QED
  BY <1>2, <1>3, PipelinePartsNext DEF ArithInv

(***************************************************************************)
(* PipelineCorrect: at every moment of every build the drives of the VM    *)
(* are the recorded ones, and each step that was passed has left what the  *)
(* later ones rely on: the output directory, a VM that is off, drives that *)
(* are empty and then an image of it (the order of the steps in iso and    *)
(* vmcx builder.go, and how each of them reports a partial failure).       *)
(***************************************************************************)
THEOREM PipelineCorrect == Spec => []PipelineInv
<1>1. Init => PipelineInv
  BY DEF Init, PipelineInv, InRun, Past, Interrupted, Cancelled, Done
<1> QED
  BY <1>1, TypeCorrect, PipelineStep, PTL DEF Spec

(***************************************************************************)
(* ArtifactsComplete: when Builder.Run returns an artifact, the output     *)
(* directory holds an image of a VM that was off with its drives empty,    *)
(* whatever failed or was interrupted on the way.                          *)
(***************************************************************************)
THEOREM ArtifactsComplete == Spec => []ArtifactComplete
<1>1. TypeOK /\ PipelineInv => ArtifactComplete
  BY DEF PipelineInv, ArtifactComplete, InRun, Done, ImageMade, TypeOK
<1> QED
  BY <1>1, TypeCorrect, PipelineCorrect, PTL

\* Only the unmount steps take a drive away, also among the Runs that halt.
LEMMA DrivesTaken ==
  ASSUME TypeOK, RunStep, Steps[pos] \notin Unmounts
  PROVE  host.drives \subseteq host'.drives
<1> USE DEF Running, CallFails, Host
<1>1. host \in Host
  BY DEF TypeOK
<1>2. CASE PlainStep
  BY <1>2, PlainSteps DEF PlainInterruptible, Plain
<1>3. CASE StepCreateBuildDir \/ StepOutputDir \/ StepCreateSwitch
  BY <1>1, <1>3 DEF StepCreateBuildDir, StepOutputDir, StepCreateSwitch
<1>4. CASE StepCreateVM \/ StepCloneVM
  BY <1>1, <1>4 DEF StepCreateVM, StepCloneVM, MakeVM, NewVM
<1>5. CASE StepMountDvdDrive \/ StepMountGuestAdditions \/ StepMountSecondaryDvdImages
  <2>1. \E made : host' = [host EXCEPT !.drives = @ \cup made]
    BY <1>5 DEF StepMountDvdDrive, StepMountGuestAdditions,
                StepMountSecondaryDvdImages, MountDrives
  <2> QED
    BY <1>1, <2>1
<1>6. CASE StepMountFloppydrive
  BY <1>1, <1>6 DEF StepMountFloppydrive
<1>7. CASE StepRun \/ StepShutdown \/ StepWaitForPowerOff \/ StepCompactDisk
  BY <1>1, <1>7 DEF StepRun, StepShutdown, StepWaitForPowerOff, StepCompactDisk
<1>8. CASE \/ StepUnmountSecondaryDvdImages \/ StepUnmountGuestAdditions
           \/ StepUnmountDvdDrive
  BY <1>8 DEF StepUnmountSecondaryDvdImages, StepUnmountGuestAdditions,
              StepUnmountDvdDrive, UnmountDrives, Unmounts
<1>9. CASE StepUnmountFloppyDrive
  BY <1>1, <1>9 DEF StepUnmountFloppyDrive
<1>10. CASE StepExportVm \/ StepCollateArtifacts
  BY <1>1, <1>10 DEF StepExportVm, StepCollateArtifacts
<1> QED
  BY <1>2, <1>3, <1>4, <1>5, <1>6, <1>7, <1>8, <1>9, <1>10 DEF RunStep, RunOtherStep, PlainStep

(***************************************************************************)
(* EjectsOnlyWhenOff: the pipeline takes drives away from a VM that is     *)
(* off, never from one that runs or is paused: the unmount steps come      *)
(* after StepWaitForPowerOff, and nothing starts the VM again.             *)
(***************************************************************************)
THEOREM EjectsOnlyWhenOff == Spec => EjectOnlyWhenOff
<1>1. TypeOK /\ PipelineInv /\ [Next]_vars =>
        [pc = "run" /\ ~(host.drives \subseteq host'.drives) => host.vm = "off"]_vars
  <2> SUFFICES ASSUME TypeOK, PipelineInv, Next, pc = "run",
                      ~(host.drives \subseteq host'.drives)
               PROVE  host.vm = "off"
    BY DEF vars
  <2>1. RunStep
    <3>1. ~CleanupStep
      BY CleanupEffect
    <3> QED
      BY <3>1 DEF Next, RunnerNext, Panic, Cancel, MarkCancelled, Guest, Finish, Terminated,
                  vars, TypeOK, Host
  <2>2. Steps[pos] \in Unmounts /\ pos \in 1 .. Len(Steps)
    BY <2>1, DrivesTaken DEF TypeOK
  <2>3. pos > Shift + 25 /\ Shift \in {0, 2}
    BY <2>2, Positions, SMTT(60) DEF Unmounts
  <2>4. RunPart
    BY PipelineParts DEF InRun
  <2> QED
    BY <2>3, <2>4 DEF RunPart
<1> QED
  BY <1>1, TypeCorrect, PipelineCorrect, PTL DEF Spec, EjectOnlyWhenOff
=============================================================================
