---------------------------- MODULE HypervBuild ----------------------------
(***************************************************************************)
(* One run of a Hyper-V builder: Builder.Run of the hyperv-iso builder     *)
(* (builder/hyperv/iso/builder.go) or of the hyperv-vmcx builder           *)
(* (builder/hyperv/vmcx/builder.go).                                       *)
(*                                                                         *)
(* The builder hands a list of steps to the SDK's multistep runner.  The   *)
(* runner calls Run on each step in turn, stops at the first one that      *)
(* halts or at a cancelled context, and then calls Cleanup on every step   *)
(* it has run, last one first.  The steps share a state bag and drive the  *)
(* Hyper-V host through PowerShell.                                        *)
(*                                                                         *)
(* A step's Run and a step's Cleanup are one action each.  The context may *)
(* be cancelled, and the guest may stop, between and during them: pc =     *)
(* "run" is the time during which a step's Run is in progress.             *)
(***************************************************************************)
EXTENDS Integers, Sequences, FiniteSets

CONSTANTS
  Configs,            \* the builds considered, see Config
  ConfigInBag         \* whether something puts "config" in the state bag

(***************************************************************************)
(* Configurations: the settings the control flow depends on, the way they  *)
(* stand after Prepare, what the host holds before the build, and what may *)
(* go wrong on it during the build:                                        *)
(*   "fail"    a driver call made by a Run fails, with no effect;          *)
(*   "late"    ... or takes effect and is still reported as an error: any  *)
(*             output on stderr is one (powershell.go:96);                 *)
(*   "miss"    CheckVMName sees no VM because Get-VM failed otherwise;     *)
(*   "print"   New-VMSwitch prints the switch it makes, so that the output *)
(*             of the script is more than the True that is looked for;     *)
(*   "pause"   Hyper-V pauses the guest (a full disk, for one);            *)
(*   "slow"    the guest outlasts the shutdown timeout;                    *)
(*   "cleanup" a driver call made by a Cleanup fails.                      *)
(***************************************************************************)
SecondaryImage == {"sec1", "sec2", "sec3", "cd"}
Image == {"os", "guest"} \cup SecondaryImage
SecondaryDvdImages == {<<>>, <<"sec1">>, <<"sec1", "sec2">>, <<"sec1", "sec2", "sec3">>}

Config ==
  [builder : {"iso", "vmcx"}, generation : {1, 2},
   media : {"none", "iso", "vhd"},         \* what iso_url names, if anything
   floppy : BOOLEAN, guestAdditions : BOOLEAN, cd : BOOLEAN,
   secondary : SecondaryDvdImages,
   shutdown : {"command", "stop", "disabled"},
   keepRegistered : BOOLEAN, skipExport : BOOLEAN, skipCompaction : BOOLEAN,
   wsl : BOOLEAN,
   byName : BOOLEAN,                       \* a clone's source is named by its VM
                                           \* alone, clone_from_vmcx_path is empty
   nameTaken : BOOLEAN,                    \* a VM of that name is registered
   switchExists : BOOLEAN,                 \* the named switch exists
   faults : SUBSET {"fail", "late", "miss", "print", "pause", "slow", "cleanup"}]

One(b) == IF b THEN 1 ELSE 0

\* What CommonConfig.Prepare and the builders' Prepare turn down.
Prepared(c) ==
  /\ c.generation = 2 => ~c.floppy
  /\ c.generation = 1 =>
       Len(c.secondary) + One(c.guestAdditions) <= 2
  /\ c.builder = "iso" => c.media # "none"

ASSUME ConfigsAssumption == Configs \subseteq {c \in Config : Prepared(c)}
ASSUME ConfigInBagAssumption == ConfigInBag \in BOOLEAN

(***************************************************************************)
(* The steps of the two builders, in the order of their lists.             *)
(***************************************************************************)
IsoSteps ==
  <<"CreateBuildDir", "OutputDir", "ValidateHost", "Download", "CreateFloppy",
    "HTTPServer", "CreateSwitch", "CreateVM", "EnableIntegrationService",
    "MountDvdDrive", "MountFloppydrive", "MountGuestAdditions", "CreateCD",
    "MountSecondaryDvdImages", "ConfigureVlan", "SetBootOrder",
    "SetFirstBootDevice", "Run", "TypeBootCommand", "ConfigurePSRP", "Connect",
    "Provision", "CleanupTempKeys", "Shutdown", "WaitForPowerOff",
    "UnmountSecondaryDvdImages", "UnmountGuestAdditions", "UnmountDvdDrive",
    "UnmountFloppyDrive", "CompactDisk", "ExportVm", "CollateArtifacts">>

\* Slip: the disk is resized before there is a VM.
SlipVmcxSteps ==
  <<"CreateBuildDir", "OutputDir", "ValidateHost", "ValidateClone", "Download",
    "CreateFloppy", "HTTPServer", "CreateSwitch", "ResizeVhd", "CloneVM">>
  \o SubSeq(IsoSteps, 9, Len(IsoSteps))

VmcxSteps ==
  <<"CreateBuildDir", "OutputDir", "ValidateHost", "ValidateClone", "Download",
    "CreateFloppy", "HTTPServer", "CreateSwitch", "CloneVM", "ResizeVhd",
    "EnableIntegrationService", "MountDvdDrive", "MountFloppydrive",
    "MountGuestAdditions", "CreateCD", "MountSecondaryDvdImages",
    "ConfigureVlan", "SetBootOrder", "SetFirstBootDevice", "Run",
    "TypeBootCommand", "ConfigurePSRP", "Connect", "Provision",
    "CleanupTempKeys", "Shutdown", "WaitForPowerOff",
    "UnmountSecondaryDvdImages", "UnmountGuestAdditions", "UnmountDvdDrive",
    "UnmountFloppyDrive", "CompactDisk", "ExportVm", "CollateArtifacts">>

VARIABLES
  config,     \* the build's configuration, fixed by Init
  pc,         \* "next": between steps; "run": in a Run; "cleanup"; "done"
  pos,        \* the step the runner is at
  ctxDone,    \* the context given to Builder.Run is cancelled
  bag,        \* the state bag: the keys that hold a value
  dvdProps,   \* the images whose DvdControllerProperties are in the bag
  own,        \* the fields the steps keep for their Cleanup
  host,       \* what is on the Hyper-V host
  result      \* what Builder.Run returns, or "panic"

vars == <<config, pc, pos, ctxDone, bag, dvdProps, own, host, result>>

RunMayFail == "fail" \in config.faults
RunMayFailLate == "late" \in config.faults
CleanupMayFail == "cleanup" \in config.faults
NameCheckMayMiss == "miss" \in config.faults
SwitchIsPrinted == "print" \in config.faults
GuestMayBeSlow == "slow" \in config.faults

Steps == IF config.builder = "iso" THEN IsoSteps ELSE VmcxSteps

Key == {"config", "build_dir", "iso_path", "floppy_path", "http_port",
        "SwitchName", "vmName", "cd_path", "http_ip", "communicator",
        "export_path", "error", "cancelled", "halted"}

Own == [createdSwitch : BOOLEAN,    \* StepCreateSwitch
        keepVM : BOOLEAN,           \* StepCreateVM, StepCloneVM: KeepRegistered
        floppyPath : BOOLEAN,       \* StepMountFloppydrive: floppyPath # ""
        started : BOOLEAN]          \* StepRun: vmName # ""

Host == [buildDir : {"none", "present", "deleted"},
         outputDir : {"none", "present", "deleted"},
         switch : {"none", "other", "ours"},       \* "ours": this build made it
         vm : {"absent", "off", "running", "paused"},
         disks : {"none", "build", "output", "gone"},  \* where the VM's disks are
         drives : SUBSET Image,                    \* DVD drives of the VM
         floppy : BOOLEAN,                         \* a floppy is in its drive
         floppyCopy : {"none", "file", "dir"},     \* the temporary .vfd file
         otherVM : BOOLEAN,                        \* the VM that had the name before
         image : {"none", "nested", "flat", "disks"},  \* in the output directory
         sealed : BOOLEAN]        \* that image is of a VM turned off, drives empty

(***************************************************************************)
(* TypeOK: every variable holds a value of its kind, and the runner's      *)
(* position stays within the list of steps.                                *)
(***************************************************************************)
TypeOK ==
  /\ config \in Configs
  /\ pc \in {"next", "run", "cleanup", "done"}
  /\ pos \in 0 .. Len(Steps) + 1
  /\ pc = "next" => pos >= 1
  /\ pc = "run" => pos \in 1 .. Len(Steps)
  /\ pc = "cleanup" => pos <= Len(Steps)
  /\ ctxDone \in BOOLEAN
  /\ bag \subseteq Key
  /\ dvdProps \subseteq Image
  /\ own \in Own
  /\ host \in Host
  /\ result \in {"none", "artifact", "error", "cancelled", "halted", "panic"}

Init ==
  /\ config \in Configs
  /\ pc = "next" /\ pos = 1
  /\ ctxDone = FALSE
  /\ bag = IF ConfigInBag THEN {"config"} ELSE {}
  /\ dvdProps = {}
  /\ own = [createdSwitch |-> FALSE, keepVM |-> config.keepRegistered,
            floppyPath |-> FALSE, started |-> FALSE]
  /\ host = [buildDir |-> "none", outputDir |-> "none",
             switch |-> IF config.switchExists THEN "other" ELSE "none",
             vm |-> "absent", disks |-> "none", drives |-> {},
             floppy |-> FALSE, floppyCopy |-> "none",
             otherVM |-> config.nameTaken, image |-> "none", sealed |-> FALSE]
  /\ result = "none"

(***************************************************************************)
(* The multistep runner.                                                   *)
(***************************************************************************)
\* The keys a step's Run type-asserts: without one of them it panics.
Needs(s) ==
  CASE s = "ValidateClone" -> {"config"}
    [] s = "CloneVM" -> {"build_dir"}
    [] s = "ConfigureVlan" -> {"vmName", "SwitchName"}
    [] s = "TypeBootCommand" -> {"vmName", "http_port"}
    [] s = "Shutdown" -> {"vmName", "communicator"}
    [] s = "MountFloppydrive" ->
         IF config.generation = 1 /\ "floppy_path" \in bag THEN {"vmName"} ELSE {}
    [] s = "MountGuestAdditions" -> IF config.guestAdditions THEN {"vmName"} ELSE {}
    [] s = "UnmountFloppyDrive" -> IF config.generation = 1 THEN {"vmName"} ELSE {}
    [] s \in {"ResizeVhd", "EnableIntegrationService", "MountDvdDrive",
              "MountSecondaryDvdImages", "SetBootOrder", "SetFirstBootDevice",
              "Run", "ConfigurePSRP", "WaitForPowerOff",
              "UnmountSecondaryDvdImages", "UnmountGuestAdditions",
              "UnmountDvdDrive"} -> {"vmName"}
    [] OTHER -> {}

Cancelled == "cancelled" \in bag
Interrupted == Cancelled \/ "halted" \in bag

\* Slip: the end of the list is not noticed.
SlipRunnerNext ==
  /\ pc = "next"
  /\ IF ctxDone THEN pc' = "cleanup" /\ pos' = pos - 1 /\ bag' = bag \cup {"cancelled"}
                ELSE pc' = "run" /\ UNCHANGED <<pos, bag>>
  /\ UNCHANGED <<config, ctxDone, dvdProps, own, host, result>>

\* Take the next step, unless the list is over or the context is cancelled.
RunnerNext ==
  /\ pc = "next"
  /\ IF pos > Len(Steps) \/ ctxDone
     THEN /\ pc' = "cleanup" /\ pos' = pos - 1
          /\ bag' = IF pos > Len(Steps) THEN bag ELSE bag \cup {"cancelled"}
     ELSE pc' = "run" /\ UNCHANGED <<pos, bag>>
  /\ UNCHANGED <<config, ctxDone, dvdProps, own, host, result>>

\* The runner's side of a Run that returns, having put the keys `put`.
Return(put, halt) ==
  LET b == bag \cup put
      stop == halt \/ "cancelled" \in b
  IN /\ bag' = IF halt /\ "cancelled" \notin b THEN b \cup {"halted"} ELSE b
     /\ pc' = IF stop THEN "cleanup" ELSE "next"
     /\ pos' = IF stop THEN pos ELSE pos + 1
     /\ UNCHANGED <<config, ctxDone, result>>

Continue(put) == Return(put, FALSE)
HaltWithError == Return({"error"}, TRUE)
HaltOnCancel == ctxDone /\ Return({}, TRUE)

\* Step s is in its Run and finds in the bag what it asserts.
Running(s) == pc = "run" /\ Steps[pos] = s /\ Needs(s) \subseteq bag

\* Slip: the panic ends the build there and then.
SlipPanic ==
  /\ pc = "run" /\ ~(Needs(Steps[pos]) \subseteq bag)
  /\ pc' = "done" /\ result' = "panic"
  /\ UNCHANGED <<config, pos, ctxDone, bag, dvdProps, own, host>>

\* A nil type assertion: the deferred Cleanups of the earlier steps still run.
Panic ==
  /\ pc = "run" /\ ~(Needs(Steps[pos]) \subseteq bag)
  /\ pc' = "cleanup" /\ pos' = pos - 1 /\ result' = "panic"
  /\ UNCHANGED <<config, ctxDone, bag, dvdProps, own, host>>

\* The user interrupts the build.
Cancel ==
  /\ pc # "done" /\ ~ctxDone /\ ctxDone' = TRUE
  /\ UNCHANGED <<config, pc, pos, bag, dvdProps, own, host, result>>

\* The runner's goroutine marks the bag, in a step, between two or in cleanup.
MarkCancelled ==
  /\ pc # "done" /\ ctxDone /\ ~Cancelled
  /\ bag' = bag \cup {"cancelled"}
  /\ UNCHANGED <<config, pc, pos, ctxDone, dvdProps, own, host, result>>

\* The guest halts of itself, or Hyper-V pauses it.
Guest ==
  /\ pc # "done" /\ host.vm = "running"
  /\ \/ host' = [host EXCEPT !.vm = "off"]
     \/ "pause" \in config.faults /\ host' = [host EXCEPT !.vm = "paused"]
  /\ UNCHANGED <<config, pc, pos, ctxDone, bag, dvdProps, own, result>>

(***************************************************************************)
(* The steps' Run.                                                         *)
(***************************************************************************)
\* A driver call returns an error, having changed the host to `after` or not.
CallFails(after) ==
  \/ RunMayFail /\ host' = host
  \/ RunMayFailLate /\ host' = after

\* A Run that leaves the host as it was, and may fail.
Plain(s, put) ==
  /\ Running(s)
  /\ Continue(put) \/ (RunMayFail /\ HaltWithError)
  /\ UNCHANGED <<dvdProps, own, host>>

\* ... and that also gives up when the context is cancelled.
PlainInterruptible(s, put) ==
  \/ Plain(s, put)
  \/ Running(s) /\ HaltOnCancel /\ UNCHANGED <<dvdProps, own, host>>

StepCreateBuildDir ==
  /\ Running("CreateBuildDir")
  /\ \/ Continue({"build_dir"}) /\ host' = [host EXCEPT !.buildDir = "present"]
     \/ RunMayFail /\ HaltWithError /\ host' = host
  /\ UNCHANGED <<dvdProps, own>>

StepOutputDir ==
  /\ Running("OutputDir")
  /\ \/ Continue({}) /\ host' = [host EXCEPT !.outputDir = "present"]
     \/ RunMayFail /\ HaltWithError /\ host' = host
  /\ UNCHANGED <<dvdProps, own>>

StepValidateHost == Plain("ValidateHost", {})
StepValidateClone == Plain("ValidateClone", {})
StepDownload ==
  PlainInterruptible("Download", IF config.media = "none" THEN {} ELSE {"iso_path"})
StepCreateFloppy == Plain("CreateFloppy", IF config.floppy THEN {"floppy_path"} ELSE {})
StepHTTPServer == Plain("HTTPServer", {"http_port"})
StepCreateCD == Plain("CreateCD", IF config.cd THEN {"cd_path"} ELSE {})

\* Slip: the step takes every switch for its own.
SlipCreateSwitch ==
  LET made == [host EXCEPT !.switch = IF @ = "none" THEN "ours" ELSE @]
  IN /\ Running("CreateSwitch") /\ Continue({"SwitchName"}) /\ host' = made
     /\ own' = [own EXCEPT !.createdSwitch = TRUE]
     /\ UNCHANGED dvdProps

\* New-VMSwitch unless one of that name is there; the step takes it for its own
\* if the output is True and nothing else.  After an error it forgets the name,
\* whether or not the switch was made.
StepCreateSwitch ==
  LET made == [host EXCEPT !.switch = IF @ = "none" THEN "ours" ELSE @]
  IN /\ Running("CreateSwitch")
     /\ \/ /\ Continue({"SwitchName"})
           /\ host' = made
           /\ own' = [own EXCEPT !.createdSwitch = (host.switch = "none" /\ ~SwitchIsPrinted)]
        \/ /\ HaltWithError /\ own' = own
           /\ CallFails(made)
     /\ UNCHANGED dvdProps

\* The VM exists, off, its disks in the build directory, its DVD drives deleted.
NewVM == [host EXCEPT !.vm = "off", !.disks = "build"]

\* Under WSL the path of a hard disk to start from goes to Windows unconverted.
HardDiskReachable == ~(config.wsl /\ "iso_path" \in bag /\ config.media = "vhd")

\* The driver calls that make the VM and set it up, up to state.Put("vmName").
\* One that fails halts the step: the first leaves no VM, and each of the later
\* ones leaves a VM half set up, whose name is not yet in the bag.
MakeVM ==
  /\ IF HardDiskReachable
     THEN \/ Continue({"vmName"}) /\ host' = NewVM
          \/ RunMayFail /\ HaltWithError /\ host' \in {host, NewVM}
          \/ RunMayFailLate /\ HaltWithError /\ host' = NewVM
     ELSE HaltWithError /\ host' = host
  /\ own' = own

\* Slip: the VM that has the name already is not marked as one to keep.
SlipCreateVM ==
  /\ Running("CreateVM")
  /\ \/ host.otherVM /\ HaltWithError /\ UNCHANGED <<own, host>>
     \/ ~host.otherVM /\ MakeVM
  /\ UNCHANGED dvdProps

\* A path conversion that fails under WSL halts before the name is checked.
StepCreateVM ==
  /\ Running("CreateVM")
  /\ \/ config.wsl /\ RunMayFail /\ HaltWithError /\ UNCHANGED <<own, host>>
     \/ /\ host.otherVM /\ HaltWithError /\ host' = host
        /\ own' = [own EXCEPT !.keepVM = TRUE]
     \/ (host.otherVM => NameCheckMayMiss) /\ MakeVM
  /\ UNCHANGED dvdProps

\* No name check: the import is renamed whatever else has the name.  Under WSL
\* the path of the source is converted also when there is none, which may fail,
\* or give another directory to import from.
StepCloneVM ==
  /\ Running("CloneVM")
  /\ \/ /\ config.wsl /\ (RunMayFail \/ config.byName)
        /\ HaltWithError /\ UNCHANGED <<own, host>>
     \/ MakeVM
  /\ UNCHANGED dvdProps

StepResizeVhd == Plain("ResizeVhd", {})
StepEnableIntegrationService == Plain("EnableIntegrationService", {})
StepConfigureVlan == Plain("ConfigureVlan", {})
StepSetBootOrder == Plain("SetBootOrder", {})
StepSetFirstBootDevice == Plain("SetFirstBootDevice", {})
StepConfigurePSRP == Plain("ConfigurePSRP", {})

\* Slip: a location too few.
SlipDvdLocations == IF config.generation = 1 THEN 2 ELSE 63

\* Generation 1 has two IDE controllers of two locations, one of them the
\* system disk's; generation 2 has 64 locations on a SCSI controller.  (What
\* further disks of a clone's source take away is left to GuestSetup.)
DvdLocations == IF config.generation = 1 THEN 3 ELSE 63

First(paths, k) == {paths[i] : i \in 1 .. k}
Images(paths) == First(paths, Len(paths))

\* Creates a drive for each path in turn, records it in the bag and inserts the
\* image.  k drives are recorded; `stray` is one made by a call that reported an
\* error.  `reachable`: Windows can resolve the paths.
MountDrives(paths, reachable) ==
  \E k \in 0 .. Len(paths), stray \in BOOLEAN :
    LET made == First(paths, IF stray THEN k + 1 ELSE k) IN
      /\ stray => k < Len(paths) /\ RunMayFailLate
      /\ k > 0 \/ stray => reachable
      /\ Cardinality(host.drives \cup made) <= DvdLocations
      /\ host' = [host EXCEPT !.drives = @ \cup made]
      /\ dvdProps' = dvdProps \cup First(paths, k)
      /\ \/ k = Len(paths) /\ ~stray /\ Continue({})
         \/ /\ HaltWithError
            /\ \/ stray \/ RunMayFail
               \/ k < Len(paths) /\ ~(reachable /\ Cardinality(host.drives \cup made) < DvdLocations)
      /\ own' = own

\* The lists of images the three mount and the three unmount steps deal with.
OsDvd == <<"os">>
GuestDvd == <<"guest">>
SecondaryDvds == config.secondary \o (IF "cd_path" \in bag THEN <<"cd">> ELSE <<>>)

StepMountDvdDrive ==
  /\ Running("MountDvdDrive")
  /\ MountDrives(IF "iso_path" \in bag /\ config.media = "iso" THEN OsDvd ELSE <<>>, TRUE)

StepMountGuestAdditions ==
  /\ Running("MountGuestAdditions")
  /\ MountDrives(IF config.guestAdditions THEN GuestDvd ELSE <<>>, ~config.wsl)

StepMountSecondaryDvdImages ==
  Running("MountSecondaryDvdImages") /\ MountDrives(SecondaryDvds, TRUE)

\* The path of the copied floppy is kept only once the mount has succeeded, and
\* it is not converted under WSL.
StepMountFloppydrive ==
  LET copied == [host EXCEPT !.floppyCopy = "file"]
      inserted == [copied EXCEPT !.floppy = TRUE]
  IN /\ Running("MountFloppydrive")
     /\ IF config.generation = 2 \/ "floppy_path" \notin bag
        THEN Continue({}) /\ UNCHANGED <<own, host>>
        ELSE \/ ~config.wsl /\ Continue({}) /\ host' = inserted
                /\ own' = [own EXCEPT !.floppyPath = TRUE]
             \/ /\ HaltWithError /\ own' = own
                /\ \/ RunMayFail /\ host' \in {host, copied}
                   \/ RunMayFailLate /\ ~config.wsl /\ host' = inserted
                   \/ config.wsl /\ host' = copied
     /\ UNCHANGED dvdProps

StepRun ==
  LET up == [host EXCEPT !.vm = IF @ = "off" THEN "running" ELSE @]
  IN /\ Running("Run")
     /\ \/ Continue({"http_ip"}) /\ host' = up /\ own' = [own EXCEPT !.started = TRUE]
        \/ /\ HaltWithError /\ own' = own
           /\ CallFails(up)
     /\ UNCHANGED dvdProps

StepTypeBootCommand == PlainInterruptible("TypeBootCommand", {})
StepConnect == PlainInterruptible("Connect", {"communicator"})
StepProvision == PlainInterruptible("Provision", {})
StepCleanupTempKeys == Plain("CleanupTempKeys", {})

\* Two VMs of the name: the state scripts print a list, never "True".
Ambiguous == host.otherVM /\ host.vm # "absent"
IsRunning == host.vm = "running" /\ ~Ambiguous
\* Slip: anything that is not running is off.
SlipIsOff == ~IsRunning
IsOff == host.vm = "off" /\ ~Ambiguous

\* Stops the VM or asks the guest to stop, and polls until the VM is not
\* running; a poll that fails counts as "not running".  `stopped`: Stop-VM worked.
StepShutdown ==
  /\ Running("Shutdown")
  /\ \E stopped \in BOOLEAN :
       /\ stopped => config.shutdown = "stop" /\ host.vm = "running"
       /\ host' = IF stopped THEN [host EXCEPT !.vm = "off"] ELSE host
       /\ \/ /\ Continue({})
             /\ config.shutdown = "stop" => stopped \/ host.vm # "running"
             /\ RunMayFail \/ stopped \/ ~IsRunning
          \/ /\ HaltWithError               \* the call failed, or time ran out
             /\ \/ config.shutdown # "disabled" /\ (RunMayFail \/ RunMayFailLate)
                \/ config.shutdown = "command" /\ ctxDone
                \/ GuestMayBeSlow
          \/ HaltOnCancel
  /\ UNCHANGED <<dvdProps, own>>

\* Polls until the VM is off, whatever becomes of the context.
StepWaitForPowerOff ==
  /\ Running("WaitForPowerOff")
  /\ (IsOff /\ Continue({})) \/ (RunMayFail /\ HaltWithError)
  /\ UNCHANGED <<dvdProps, own, host>>

\* Slip: a drive that cannot be deleted is forgotten.
SlipUnmountDrives(s, paths) ==
  /\ Running(s)
  /\ \E k \in 0 .. Len(paths) :
       /\ k = Len(paths) \/ RunMayFail
       /\ host' = [host EXCEPT !.drives = @ \ (First(paths, k) \cap dvdProps)]
  /\ Continue({}) /\ dvdProps' = dvdProps \ Images(paths)
  /\ UNCHANGED own

\* Deletes the recorded drives in turn; the record goes only when all are gone.
UnmountDrives(s, paths) ==
  /\ Running(s)
  /\ \E k \in 0 .. Len(paths) :
       /\ host' = [host EXCEPT !.drives = @ \ (First(paths, k) \cap dvdProps)]
       /\ \/ /\ k = Len(paths) /\ Continue({})
             /\ dvdProps' = dvdProps \ First(paths, k)
          \/ /\ Images(paths) \cap dvdProps # {}
             /\ (RunMayFail /\ k < Len(paths)) \/ (RunMayFailLate /\ k > 0)
             /\ HaltWithError /\ dvdProps' = dvdProps
  /\ UNCHANGED own

StepUnmountSecondaryDvdImages == UnmountDrives("UnmountSecondaryDvdImages", SecondaryDvds)
StepUnmountGuestAdditions == UnmountDrives("UnmountGuestAdditions", GuestDvd)
StepUnmountDvdDrive == UnmountDrives("UnmountDvdDrive", OsDvd)

\* An error is put in the bag, and the build goes on.
StepUnmountFloppyDrive ==
  LET ejected == [host EXCEPT !.floppy = FALSE]
  IN /\ Running("UnmountFloppyDrive")
     /\ IF config.generation = 2 THEN Continue({}) /\ host' = host
        ELSE \/ Continue({}) /\ host' = ejected
             \/ Continue({"error"}) /\ CallFails(ejected)
     /\ UNCHANGED <<dvdProps, own>>

StepCompactDisk ==
  /\ Running("CompactDisk")
  /\ Continue({}) \/ (RunMayFail /\ ~config.skipCompaction /\ HaltWithError)
  /\ UNCHANGED <<dvdProps, own, host>>

\* What an image written now would hold: a VM turned off, its drives empty?
Sealed == host.vm = "off" /\ host.drives = {} /\ ~host.floppy

\* Export-VM writes <output>/<vm name>.
StepExportVm ==
  LET exported == [host EXCEPT !.image = "nested", !.sealed = Sealed]
  IN /\ Running("ExportVm")
     /\ IF config.skipExport THEN Continue({}) /\ host' = host
        ELSE \/ Continue({"export_path"}) /\ host' = exported
             \/ /\ HaltWithError
                /\ CallFails(exported)
     /\ UNCHANGED <<dvdProps, own>>

\* With skip_export, moves the disks out of the build directory, whose path is
\* not converted under WSL; otherwise lifts the export out of its directory,
\* where a failure is only a warning.
StepCollateArtifacts ==
  LET moved == [host EXCEPT !.image = "disks", !.sealed = Sealed, !.disks = "output"]
  IN /\ Running("CollateArtifacts")
     /\ IF config.skipExport
        THEN IF config.wsl THEN HaltWithError /\ host' = host
             ELSE \/ Continue({}) /\ host' = moved
                  \/ HaltWithError /\ CallFails(moved)
        ELSE \/ Continue({}) /\ host' = [host EXCEPT !.image = "flat"]
             \/ RunMayFail /\ Continue({}) /\ host' = host
             \/ config.wsl /\ RunMayFail /\ HaltWithError /\ host' = host
     /\ UNCHANGED <<dvdProps, own>>

RunOtherStep ==
  \/ StepCreateBuildDir \/ StepOutputDir \/ StepValidateHost \/ StepValidateClone
  \/ StepDownload \/ StepCreateFloppy \/ StepHTTPServer \/ StepCreateSwitch
  \/ StepCreateVM \/ StepCloneVM \/ StepResizeVhd \/ StepEnableIntegrationService
  \/ StepMountDvdDrive \/ StepMountFloppydrive \/ StepMountGuestAdditions
  \/ StepCreateCD \/ StepMountSecondaryDvdImages \/ StepConfigureVlan
  \/ StepSetBootOrder \/ StepSetFirstBootDevice \/ StepRun \/ StepTypeBootCommand
  \/ StepConfigurePSRP \/ StepConnect \/ StepProvision \/ StepCleanupTempKeys
  \/ StepWaitForPowerOff \/ StepUnmountSecondaryDvdImages
  \/ StepUnmountGuestAdditions \/ StepUnmountDvdDrive \/ StepUnmountFloppyDrive
  \/ StepCompactDisk \/ StepExportVm \/ StepCollateArtifacts

RunStep == StepShutdown \/ RunOtherStep

(***************************************************************************)
(* The steps' Cleanup.                                                     *)
(***************************************************************************)
CleansUp(s) ==
  /\ pc = "cleanup" /\ pos > 0 /\ Steps[pos] \in s
  /\ pos' = pos - 1
  /\ UNCHANGED <<config, pc, ctxDone, bag, dvdProps, own, result>>

\* The call works, or it fails and is only logged.
Attempt(after) == host' = after \/ (CleanupMayFail /\ host' = host)

\* Slip: the directory goes whether or not the VM is kept.
SlipCleanupCreateBuildDir ==
  /\ CleansUp({"CreateBuildDir"})
  /\ IF host.buildDir = "none" THEN host' = host
     ELSE Attempt([host EXCEPT !.buildDir = "deleted",
                               !.disks = IF @ = "build" THEN "gone" ELSE @])

\* Kept only for keep_registered, and then only if nothing went wrong.
CleanupCreateBuildDir ==
  /\ CleansUp({"CreateBuildDir"})
  /\ IF host.buildDir = "none" \/ (config.keepRegistered /\ ~Interrupted)
     THEN host' = host
     ELSE Attempt([host EXCEPT !.buildDir = "deleted",
                               !.disks = IF @ = "build" THEN "gone" ELSE @])

CleanupOutputDir ==
  /\ CleansUp({"OutputDir"})
  /\ IF host.outputDir = "present" /\ Interrupted
     THEN Attempt([host EXCEPT !.outputDir = "deleted"])
     ELSE host' = host

CleanupCreateSwitch ==
  /\ CleansUp({"CreateSwitch"})
  /\ IF own.createdSwitch THEN Attempt([host EXCEPT !.switch = "none"]) ELSE host' = host

\* Slip: the VM is taken for made only once its name is in the bag.
SlipCleanupVM ==
  /\ CleansUp({"CreateVM", "CloneVM"})
  /\ IF own.keepVM \/ "vmName" \notin bag THEN host' = host
     ELSE Attempt([host EXCEPT !.vm = "absent", !.drives = {}, !.floppy = FALSE,
                               !.otherVM = FALSE])

\* Remove-VM by name: every VM of the name goes.
CleanupVM ==
  /\ CleansUp({"CreateVM", "CloneVM"})
  /\ IF own.keepVM THEN host' = host
     ELSE Attempt([host EXCEPT !.vm = "absent", !.drives = {}, !.floppy = FALSE,
                               !.otherVM = FALSE])

\* Deletes the drives the bag still records; each deletion may fail.
CleanupDrives(s, paths) ==
  /\ CleansUp({s})
  /\ \E deleted \in SUBSET (Images(paths) \cap dvdProps) :
       /\ CleanupMayFail \/ deleted = Images(paths) \cap dvdProps
       /\ host' = [host EXCEPT !.drives = @ \ deleted]

CleanupMountDvdDrive == CleanupDrives("MountDvdDrive", OsDvd)
CleanupMountGuestAdditions == CleanupDrives("MountGuestAdditions", GuestDvd)
CleanupMountSecondaryDvdImages == CleanupDrives("MountSecondaryDvdImages", SecondaryDvds)

\* Ejects the floppy and removes the copy, but not the directory it is in.
CleanupMountFloppydrive ==
  /\ CleansUp({"MountFloppydrive"})
  /\ IF config.generation = 2 \/ ~own.floppyPath THEN host' = host
     ELSE \E ejected, removed \in BOOLEAN :
            /\ CleanupMayFail \/ (ejected /\ removed)
            /\ host' = [host EXCEPT !.floppy = IF ejected THEN FALSE ELSE @,
                                    !.floppyCopy = IF removed THEN "dir" ELSE @]

\* Slip: a VM that is kept is left running.
SlipCleanupRun ==
  /\ CleansUp({"Run"})
  /\ IF own.started /\ IsRunning /\ ~own.keepVM
     THEN Attempt([host EXCEPT !.vm = "off"]) ELSE host' = host

\* Stops a VM that is seen running.
CleanupRun ==
  /\ CleansUp({"Run"})
  /\ IF own.started /\ IsRunning THEN Attempt([host EXCEPT !.vm = "off"]) ELSE host' = host

HasCleanup == {"CreateBuildDir", "OutputDir", "CreateSwitch", "CreateVM", "CloneVM",
               "MountDvdDrive", "MountFloppydrive", "MountGuestAdditions",
               "MountSecondaryDvdImages", "Run"}

NoCleanup == CleansUp({Steps[i] : i \in 1 .. Len(Steps)} \ HasCleanup) /\ host' = host

CleanupStep ==
  \/ CleanupCreateBuildDir \/ CleanupOutputDir \/ CleanupCreateSwitch \/ CleanupVM
  \/ CleanupMountDvdDrive \/ CleanupMountFloppydrive \/ CleanupMountGuestAdditions
  \/ CleanupMountSecondaryDvdImages \/ CleanupRun \/ NoCleanup

\* Slip: the error of a step that went on is forgotten.
SlipFinish ==
  /\ pc = "cleanup" /\ pos = 0
  /\ pc' = "done"
  /\ result' = IF result = "panic" THEN "panic"
               ELSE IF Cancelled THEN "cancelled"
               ELSE IF "halted" \in bag THEN "halted"
               ELSE "artifact"
  /\ UNCHANGED <<config, pos, ctxDone, bag, dvdProps, own, host>>

\* Builder.Run reports the error, the cancellation or the halt, or the artifact.
Finish ==
  /\ pc = "cleanup" /\ pos = 0
  /\ pc' = "done"
  /\ result' = IF result = "panic" THEN "panic"
               ELSE IF "error" \in bag THEN "error"
               ELSE IF Cancelled THEN "cancelled"
               ELSE IF "halted" \in bag THEN "halted"
               ELSE "artifact"
  /\ UNCHANGED <<config, pos, ctxDone, bag, dvdProps, own, host>>

Terminated == pc = "done" /\ UNCHANGED vars

Next ==
  \/ RunnerNext \/ Panic \/ Cancel \/ MarkCancelled \/ Guest
  \/ RunStep \/ CleanupStep \/ Finish \/ Terminated

Spec == Init /\ [][Next]_vars

(***************************************************************************)
(* What a build promises.                                                  *)
(***************************************************************************)
Done == pc = "done"

(***************************************************************************)
(* ArtifactComplete: when Builder.Run returns an artifact, the output      *)
(* directory is there and holds an image, exported or moved after the VM   *)
(* was turned off and every DVD and floppy drive was emptied, whatever     *)
(* failed, was retried or was interrupted on the way.                      *)
(***************************************************************************)
ArtifactComplete ==
  Done /\ result = "artifact" =>
    /\ host.outputDir = "present"
    /\ host.image \in (IF config.skipExport THEN {"disks"} ELSE {"nested", "flat"})
    /\ host.sealed

(***************************************************************************)
(* PipelineInv: why that holds.  While the steps run, the drives of the VM *)
(* are the recorded ones, and each step that has been passed has left what *)
(* the later ones rely on; a list of steps that ran to its end leaves an   *)
(* image that nothing short of an interruption takes away.  An error that  *)
(* StepUnmountFloppyDrive put without halting excuses the floppy.          *)
(***************************************************************************)
InRun == pc \in {"next", "run"}
Past(s) == \E i \in 1 .. (pos - 1) : Steps[i] = s
Failed == "error" \in bag

ImageMade ==
  /\ host.image \in (IF config.skipExport THEN {"disks"} ELSE {"nested", "flat"})
  /\ host.sealed \/ Failed

PipelineInv ==
  /\ InRun =>
       /\ result = "none"
       /\ host.drives = dvdProps
       /\ dvdProps \subseteq {"os", "guest"} \cup Images(SecondaryDvds)
       /\ config.generation = 2 => ~host.floppy
       /\ Past("OutputDir") => host.outputDir = "present"
       /\ Past("WaitForPowerOff") => host.vm = "off"
       /\ Past("UnmountSecondaryDvdImages") => dvdProps \cap SecondaryImage = {}
       /\ Past("UnmountGuestAdditions") => "guest" \notin dvdProps
       /\ Past("UnmountDvdDrive") => "os" \notin dvdProps
       /\ Past("UnmountFloppyDrive") => ~host.floppy \/ Failed
       /\ Past(IF config.skipExport THEN "CollateArtifacts" ELSE "ExportVm") => ImageMade
  /\ ~InRun /\ ~Interrupted /\ result # "panic" =>
       host.outputDir = "present" /\ ImageMade
  /\ pc = "cleanup" => result \in {"none", "panic"}
  /\ Done /\ result = "artifact" => ~Interrupted /\ ~Failed

(***************************************************************************)
(* EjectOnlyWhenOff: the pipeline takes DVD drives away from a VM that is  *)
(* turned off, never from a running or paused one ("remove the secondary   *)
(* dvd images after we power down", iso/builder.go:323).                   *)
(***************************************************************************)
EjectOnlyWhenOff ==
  [][pc = "run" /\ ~(host.drives \subseteq host'.drives) => host.vm = "off"]_vars

(***************************************************************************)
(* CollisionHarmless: a VM that already had the name when the build began  *)
(* is still registered in the end, as long as the check of the name works: *)
(* for an iso build whose paths need no conversion (a conversion that      *)
(* fails halts StepCreateVM before the check, step_create_vm.go:57).       *)
(***************************************************************************)
CollisionHarmless ==
  config.nameTaken /\ config.builder = "iso" /\ ~config.wsl /\ ~NameCheckMayMiss
    => host.otherVM

(***************************************************************************)
(* NameCollisionPrevented: the same of every iso build.  CheckVMName is    *)
(* there "to prevent namespace collisions" (hyperv.go:386).                *)
(***************************************************************************)
NameCollisionPrevented ==
  config.nameTaken /\ config.builder = "iso" => host.otherVM

(***************************************************************************)
(* OtherSwitchKept: a switch the build found is there to the end; only one *)
(* that this build made is deleted by it.                                  *)
(***************************************************************************)
OtherSwitchKept == config.switchExists => host.switch = "other"

(***************************************************************************)
(* NoPanic: no step asserts a key of the state bag that nobody has put.    *)
(***************************************************************************)
NoPanic == result # "panic"

(***************************************************************************)
(* NothingLeft: when driver calls fail cleanly and the cleanup's calls     *)
(* work, a build leaves no VM, half set up or whole, no build directory    *)
(* and no switch of its own behind, unless it was asked to keep the VM;    *)
(* and it knows the switch for its own only if New-VMSwitch is silent.     *)
(***************************************************************************)
NothingLeft ==
  Done /\ ~RunMayFailLate /\ ~CleanupMayFail =>
    /\ ~SwitchIsPrinted => host.switch # "ours"
    /\ ~config.keepRegistered => host.vm = "absent" /\ host.buildDir # "present"

(***************************************************************************)
(* FilesOutliveVm: when the cleanup's calls work, the build directory goes *)
(* only after the VM whose files it holds, unless the VM is kept.          *)
(***************************************************************************)
FilesOutliveVm ==
  [][~CleanupMayFail /\ host.buildDir = "present" /\ host'.buildDir = "deleted"
       => host.vm = "absent" \/ own.keepVM]_vars

(***************************************************************************)
(* KeptVmComplete: after a keep_registered build that returned an exported *)
(* image the VM is still registered, turned off, without media, and its    *)
(* disks are where it expects them.                                        *)
(***************************************************************************)
KeptVmComplete ==
  Done /\ result = "artifact" /\ config.keepRegistered /\ ~config.skipExport =>
    /\ host.vm = "off" /\ host.disks = "build" /\ host.buildDir = "present"
    /\ host.drives = {} /\ ~host.floppy

(***************************************************************************)
(* KeptVmHoused: a VM that keep_registered leaves registered is "housed in *)
(* a randomly generated folder" (config.go:139): its disks were not        *)
(* deleted under it.                                                       *)
(***************************************************************************)
KeptVmHoused ==
  Done /\ config.keepRegistered /\ host.vm # "absent" => host.disks # "gone"

(***************************************************************************)
(* FaultFreeBuildSucceeds: a build in which no driver call fails, whose    *)
(* guest shuts down in time, which is not interrupted, whose name is free  *)
(* and whose DVD drives fit on the controllers ends with an artifact.      *)
(* (Prepare counts the drives of a generation 1 VM without cd_files.)      *)
(***************************************************************************)
DrivesWanted ==
  One(config.media = "iso") + One(config.guestAdditions) + Len(config.secondary)
  + One(config.cd)

FaultFreeBuildSucceeds ==
  /\ Done /\ ~ctxDone
  /\ ~RunMayFail /\ ~RunMayFailLate /\ ~GuestMayBeSlow /\ ~config.nameTaken
  /\ config.generation = 1 => DrivesWanted <= 3
  => result = "artifact"

(***************************************************************************)
(* RefinesPromise: a build keeps the promise of BuildPromise.  It stops    *)
(* making for good before it takes anything away, takes away only what it  *)
(* made, never loses a complete image that is not spoilt, and returns an   *)
(* artifact just in case nothing has gone wrong (Builder.Run, from         *)
(* iso/builder.go:356 on).                                                 *)
(***************************************************************************)
Made ==
  {r \in {"directory", "output", "vm", "switch"} :
     \/ r = "directory" /\ host.buildDir = "present"
     \/ r = "output" /\ host.outputDir = "present"
     \/ r = "vm" /\ host.vm # "absent"
     \/ r = "switch" /\ host.switch = "ours"}

Phase == IF InRun THEN "making" ELSE IF Done THEN "over" ELSE "undoing"
Doomed == Failed \/ Interrupted \/ result = "panic"
Whole ==
  /\ host.outputDir = "present" /\ host.sealed
  /\ host.image \in (IF config.skipExport THEN {"disks"} ELSE {"nested", "flat"})

Promise ==
  INSTANCE BuildPromise
  WITH Resource <- {"directory", "output", "vm", "switch"},
       phase <- Phase, made <- Made, doomed <- Doomed, image <- Whole

RefinesPromise == Promise!Spec
=============================================================================
