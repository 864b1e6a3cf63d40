# A TLA+ model of packer-plugin-hyperv

The plugin gives Packer two builders.  `hyperv-iso` makes a virtual machine from
an installation image or an existing disk, `hyperv-vmcx` makes one by cloning; both
then install, provision, shut down and export it.  The builders run on a Windows
host, or in WSL on one, and do everything through PowerShell scripts.

This directory holds a specification of that process, the configurations with which
TLC checks it, and proofs that TLAPS checks.

    tlc -config build.cfg MCHypervBuild.tla         # one build, about 40 s
    tlc -config power_down.cfg MCPowerDown.tla      # StepShutdown, about 45 s
    tlc -config shared_host.cfg MCSharedHost.tla    # two builds, about 60 s
    tlc -config guest_setup.cfg MCGuestSetup.tla    # template to VM, about 2 s
    tlc -config vm_files.cfg MCVmFiles.tla          # files, about 6 s
    tlapm HypervBuildProofs.tla                     # types
    tlapm PipelineProofs.tla                        # what an artifact holds
    tlapm PromiseProofs.tla                         # what a build promises
    tlapm LeftoverProofs.tla                        # what it needs and leaves
    tlapm PowerDownProofs.tla                       # StepShutdown's refinement
    tlapm SharedHostProofs.tla                      # any number of builds
    tlapm GuestSetupProofs.tla                      # settings of the VM
    tlapm VmFilesProofs.tla                         # files

## The system

Paths are relative to `src/builder/hyperv/`.

| Component | State it keeps | Operations |
|---|---|---|
| Builders (`iso/builder.go`, `vmcx/builder.go`) | the configuration, the state bag, the runner | `Prepare`, `Run`: a list of 32 or 34 steps |
| Step runner (`multistep.BasicRunner` of the SDK) | position in the list, the keys `cancelled` and `halted` of the bag | runs steps in order, stops at a halt or a cancelled context, cleans up in reverse order, also when a step panics |
| Directories and switch (`step_create_build_dir.go`, `step_create_switch.go`; the SDK's `StepOutputDir`) | `buildDir`, `createdSwitch` | create; delete on cleanup, under conditions |
| Checks (`step_validate_host.go`, `vmcx/step_validate_clone.go`) | none | may halt |
| Making the VM (`step_create_vm.go`, `step_clone_vm.go`, `step_resize_vhd.go`) | `KeepRegistered` | check the name, create or import, set up; delete by name on cleanup |
| Removable media (eight `step_mount_*.go` and `step_unmount_*.go`) | `DvdControllerProperties` in the bag, `floppyPath` | create drives and insert media; eject and delete, once in the pipeline and once more in the cleanup |
| Settings (`step_enable_integration_service.go`, `step_configure_vlan.go`, `step_set_boot_order.go`, `step_set_first_boot_device.go`, `step_configure_psrp.go`) | none | change the VM's settings |
| Running (`step_run.go`, `step_type_boot_command.go`) | `vmName` | start, type; stop on cleanup |
| Power down (`step_shutdown.go`, `step_wait_for_install_to_complete.go`) | a goroutine, a timer, a channel | ask to stop or stop, wait, wait until off |
| Output (`step_compact_disk.go`, `step_export_vm.go`, `step_collate_artifacts.go`) | `export_path` in the bag | compact, export, move files |
| Scripts (`powershell/hyperv/hyperv.go`) behind `driver.go`, `driver_ps_4.go` | the Hyper-V host | some sixty scripts |
| PowerShell (`powershell/powershell.go`) | a temporary script file per call | run, return stdout or an error; any output on stderr is an error |
| WSL (`wsl/wsl.go`) | none | convert a path for Windows |
| Configuration (`config.go`, `output_config.go`) | the settings | `Prepare`: defaults, checks, warnings |
| Communicators (`comm_config.go`, `ssh.go`) | the settings | `Prepare`; the guest's address or GUID |
| Artifact (`artifact.go`) | the list of files | list, delete |
| Steps that no list holds (`step_create_external_switch.go`, `step_configure_ip.go`, `step_polling_installation.go`, `step_reboot_vm.go`, `step_sleep.go`, `step_disable_vlan.go`) | | |

**How they interact.**  Steps never call each other.  They share the state bag (a
step puts `build_dir`, `vmName`, `iso_path`, ..., a later one asserts them), the
fields a step keeps between its own Run and Cleanup, and the host, on which
everything is found again by name: the VM by `vm_name`, the switch by `switch_name`.

**What is hard.**

* *Partial failure.*  Any call may fail in the middle of a step, and may have taken
  effect when it does (`powershell.go:96`).  What is cleaned up depends on what the
  step recorded before.
* *Interruption.*  A goroutine of the runner marks the bag as cancelled at any moment:
  in a step, between steps, while cleaning up.  Cleanups read that mark.
* *Concurrency.*  `StepShutdown` waits for a timer, the context and a goroutine at
  once; the goroutine outlives the step.  The guest changes the VM's state by itself.
* *Names.*  A VM or switch that had the name before, or gets it from another build, is
  taken for the build's own.
* *Waiting.*  One wait has a timeout, the next has none.

**What makes each component correct.**

* Builders and runner: an artifact is returned only for a complete image; no step
  asserts a key nobody put; the build ends; one that meets no fault succeeds.
* Directories, switch, VM: what the build made is deleted, once and in the right
  order, unless it is to be kept; what it found is left alone.
* Media: what the bag records is what the VM has; no image is exported with media in
  it; no drive is taken from a VM that is not off.
* Power down: the concurrent step does what the atomic one does; waiting is bounded.
* Output: with `skip_export` the disks, otherwise the export, are in the output directory.
* Configuration: what Prepare accepts can be built, and is what gets built.
* Several builds: none touches what is another's.

The hazards of the code, each at its line with the properties that watch it, are listed
in `PROJECT.json`.

## The modules

### `HypervBuild`: one build

The state is that of `Builder.Run`: where the runner is (`pc`, `pos`), the context
(`ctxDone`), the bag (`bag`: the keys that hold a value; `dvdProps`: the drives recorded
under `os.dvd.properties`, `guest.dvd.properties` and `secondary.dvd.properties`), the
fields the steps keep for their Cleanup (`own`), the host (`host`: the directories, the
switch, the VM with its power state, disks, drives and floppy, the VM that had the name
before, the image in the output directory) and the returned `result`.  `config` is the
configuration, chosen by `Init` and never changed: what the control flow depends on after
`Prepare`, what is on the host already, and which faults may happen.

There is one action for each step's Run (`StepCreateVM`, ...) and one for each Cleanup
that does something (`CleanupRun`, ...; StepCreateVM and StepCloneVM share one, the text
of the two is the same).  An action is a whole handler with every outcome it can have,
ending in one of three ways: `Continue(put)`, `HaltWithError` or `HaltOnCancel`, all of
them cases of `Return`, which is what the runner does with the step's answer.
`RunnerNext`, `Panic`, `NoCleanup` and `Finish` are the rest of the runner and of
`Builder.Run`.  `Cancel`, `MarkCancelled` and `Guest` are the environment and may happen
at any moment; `pc = "run"` is the time in which a Run is in progress, so that a
cancellation, or a guest that stops, also falls between the guard and the effect of a
step.

The six mount and unmount steps are two parameterised actions, `MountDrives` and
`UnmountDrives`, whose outcomes are "the first *k* of the drives, then an error", for
every *k*.

Faults, each allowed only in configurations that name it: `fail` (a call of a Run fails
without effect), `late` (or takes effect and is reported as failed), `miss` (the name
check fails and is taken for "no such VM"), `print` (`New-VMSwitch` prints the switch it
makes, which hides the True that the step looks for), `pause` (Hyper-V pauses the guest),
`slow` (the guest outlasts the shutdown timeout), `cleanup` (a call of a Cleanup fails).

`StepCreateVM` and `StepCloneVM` make about ten calls.  Under `fail` any of them may be the
one that fails: the first leaves no VM (`host' = host`), each later one a VM that is
registered and half set up, whose name is not in the bag yet (`host' = NewVM`).  Which
settings such a VM has got to, no property of this module tells apart; `GuestSetup` has the
calls one by one.  Under WSL both steps convert paths, and halt when that fails:
`StepCreateVM` before it has checked the name, `StepCloneVM` also when there is no path to
convert (`byName`).

What it leaves out:

* Settings of the VM, which `GuestSetup` has.  The steps that change them may fail, need
  their keys, and have no effect this module tells apart.
* Controller numbers and the boot drive, which `GuestSetup` has; `DvdLocations` is how
  many drives fit.  More than three secondary images are like three.
* Names and paths.  There is one VM name and one switch name (`SharedHost` has several),
  the contents of a directory are one image (`VmFiles` has the files); what a path
  conversion matters for is `config.wsl`.
* Of the VM that had the name before, everything but whether it is still registered.
* The SDK's runners for `-debug` and `-on-error=ask`.
* For a clone, `config.generation` is also the generation of the cloned VM.
* A script that stops between two of its commands with an effect that neither a clean nor a
  late failure has: `CloneVirtualMachine` imports the VM under its source's name before it
  renames it, and a VM left there under the source's name is one that no Cleanup looks for.
* An empty `clone_from_vmcx_path` that `wslpath` takes for some directory: an import from
  there goes wrong or right as that directory has it.

### `PowerDown`: `StepShutdown` as it is

Extends `HypervBuild` and replaces the action `StepShutdown` by the program: the call
(`ShutdownCall`, `ShutdownCallFails`), the goroutine (`Poll`), the timer (`Timer`) and the
select (`Select`), which takes any channel that is ready.  The goroutine runs on after the
step.  Everything else is the same, so one sees it among the later steps and the Cleanups.

`ImplementsBuild` is the abstract specification as a property: every behaviour of
`PowerDown` is one of `HypervBuild`, under the identity on the shared variables.  It
justifies that `HypervBuild` makes one action of the step.

*Fairness* (`FairSpec`): the builder's goroutine and the polling one are scheduled, the
timer expires, a cancelled context gets marked, and a guest that is not slow shuts down
once asked to.  Each is weak fairness: the Go scheduler, `time.After` and the runner's
goroutine promise no less.  No fairness is assumed of the user, of faults, or of a slow
or paused guest.

### `BuildPromise`: the abstract build

What Packer may count on, without steps or runners: a build *makes* things on the host,
then only *undoes* them, then *returns*; it returns an artifact just in case nothing doomed
it, and the image of a build that is not doomed stays.  `HypervBuild!RefinesPromise` is that
specification under a refinement mapping: `Made` is what the build itself has put on the host
(build directory, output directory, switch, VM), `Phase` is read off the runner's `pc`,
`Doomed` off the bag (an error, a cancellation, a halt, a panic), `Whole` says that the
output directory holds an image.  All that `HypervBuild` does in between is a stutter.

### `SharedHost`: several builds on one host

Each build of `Builds` is a process with a place in its step list (`pc`), the two fields that
its Cleanups read (`created` for `createdSwitch`, `keep` for `KeepRegistered`) and the guest
its communicator is connected to (`talks`).  The host has the VMs of the builds and those
that were there (`vm`), the switches found and made (`found`, `made`) and what is connected
to one (`wired`).  `setup` says who has which name.  Only the steps that meet a name are
here: `LookForSwitch` and `NewSwitch` are the two halves of the script of
`CreateVirtualSwitch`, `CheckVMName` and `CreateVM` two calls of one step, so that another
build can come between; `Start`, `Connect` (`CommHost`: name to MAC to address), `Shutdown`,
`Poll` and `WaitForPowerOff` go by name, and so do the three Cleanups.  `Halt` is a failing
call or an interruption anywhere, `TimeOut` the waits that have a limit.  A script that says
`-Name` acts on *every* VM of the name (`Turn`), and one that compares a state prints True
only if there is exactly one (`IsRunning`, `IsOff`).

`CheckVMName` is the check that is answered.  `NameUnchecked` is the one that is not: any
error of `Get-VM` counts as a free name (hyperv.go:389), and the build goes on to `CreateVM`;
and when under WSL a path cannot be converted, `StepCreateVM` halts before the check with
`KeepRegistered` unset, and its Cleanup deletes by the name (step_create_vm.go:58).  Only
failures *before* the check that make the step run its Cleanup are of that kind; a failure
anywhere else is a `Halt`.

`raced` is a history variable: the names that a build began to act on (`Claim`) while another
build acted on it, or, unchecked, while another machine had it.  The properties speak of names
that are not `Contested`: neither raced for, nor shared with a clone, for `StepCloneVM` does
not look whether its name is taken.  `NewSwitch` leaves open whether the build comes to know
that it made the switch, for that hangs on what `New-VMSwitch` prints.

Left out: everything a build does to nobody else (media, export, directories), and the VM's
paused states.

*Fairness*: `WF_vars(Proceed(b))` for each build.  A build is a goroutine in a loop, each call
to PowerShell is a process that returns, and the waits with a limit have a timer.
Nothing is assumed of guests, failures, interruptions or checks that are not answered.

### `GuestSetup`: from the template to a VM ready to start

`Prepare` fills in defaults (`Defaults`), turns the configuration down (`CommonRejects`,
`IsoRejects`) or warns (`Warnings`).  `NewDriver` then fixes the driver calls to come
(`Calls`): those of `StepCreateVM`, or of `StepCloneVM` and `StepResizeVhd`, then those of the
steps up to `StepSetFirstBootDevice`, each operator named after its step.  `Perform` makes one
call, which the host carries out (`Applied`), refuses (`HostTakes`) or fails.  Calls about
which no property could say anything (the CPU count, integration services, ejecting media) are
not in the list.

The calls are fixed before the first step because `Builder.Run` copies the configuration into
the steps when it makes the list.  `StepValidateClone` writes the generation it learns into
the configuration after that, so that scripts of one generation may run on a machine of the
other; the properties that this breaks exclude it under the name `Misstated`.

`EarlyMB` is the multiplication in `uint` before widening, of `StepCloneVM`'s memory and of
additional disks; it wraps at 2^32 bytes where a `uint` has 32 bits (`WordMB` = 4096), which
`.goreleaser.yml` builds for.  The run has 4096; the properties say of each size whether it is
exact at any width or only below it, and the proofs are about every width.

`source` is the machine that a `vmcx` build clones: its generation, its first disk, how many
more it has on the IDE and the SCSI controllers, and each setting that a template may ask for
too.  `Cloned` keeps all of it but the memory and the DVD drives, which the driver replaces and
removes; the calls of `StepCloneVM` then change what the template enables, and leave alone what
it does not.  The source's disks take locations that additional disks and DVDs are counted for.

What Hyper-V itself does is external, and taken from its cmdlets: the limits of its
controllers (one SCSI controller of 64 locations, for no step adds another), a smallest VHDX of
3 MB, no IDE device in generation 2 (which `ParseBootDeviceIdentifier` accepts as `IDE:x:y`), no `SetNetworkAdapterVlanId` without an id, no
`Set-VMFirmware` on generation 1 and no `Set-VMBios` on generation 2, no shrinking of a disk
by `StepResizeVhd`.

### `VmFiles`: from the sources to the artifact

`files` is every file: its directory, its name and what it holds.  `vm` is which of them the
VM's configuration names and which disk it writes to.  The actions are the scripts:
`CreateVirtualMachine`; `ExportAndCopy` (`ExportVmcxVirtualMachine` and
`CopyVmcxVirtualMachine`, one over the other) and `ImportVmcxVirtualMachine` for clones; the
additional disk; the guest; `CompactDisks`; `ExportVirtualMachine`; the two ways to collate,
`MoveCreatedVHDsToOutputDir` and `PreserveLegacyExportBehaviour`; the directories' cleanup and
`NewArtifact`; `Destroy`.  A script is one action with every outcome: all of its files moved,
or any part of them and an error, because PowerShell goes on after a cmdlet that fails, and an
error on stderr fails the call.  An error of `PreserveLegacyExportBehaviour` is only a warning.

The sources are a VM with or without snapshots, a directory with an exported VM (which may be
the output of an earlier build of the same name with an additional disk) and a virtual hard
disk in the download cache.  External, taken from Hyper-V: where an export puts its files,
which disks a configuration names, and that it does not export two disks of one name into one
directory.  Left out: differencing disks made by the iso builder (the disk given is then a
parent that is not written to, as a copied one is), and `copy_in_compare`, which the script
ignores (`-Copy:$false`, hyperv.go:560).  Left out, too, is that the Cleanup of `StepCloneVM`
deletes by name: with a `vm_name` equal to the source's, `Remove-VM` takes the configuration of
the source as well, and `SourcesUntouched` says nothing of such a template.

### `MCHypervBuild`, `MCPowerDown`, `MCSharedHost`, `MCGuestSetup`, `MCVmFiles`

The constants for TLC: sets of configurations, of situations, of templates.

### The proofs

| Module | Extends | About |
|---|---|---|
| `HypervBuildProofs` | `HypervBuild` | types |
| `PipelineProofs` | `HypervBuildProofs` | the list of steps and the artifact |
| `PromiseProofs` | `PipelineProofs` | the refinement of `BuildPromise`, other VMs and switches |
| `LeftoverProofs` | `PromiseProofs` | the state bag, what a build leaves behind, a build without faults |
| `PowerDownProofs` | `PowerDown` | the refinement of `HypervBuild` |
| `SharedHostProofs` | `SharedHost` | any number of builds |
| `GuestSetupProofs` | `GuestSetup` | the settings of the VM, and what Prepare accepts |
| `VmFilesProofs` | `VmFiles` | the files |

How the modules fit together: `HypervBuild` is the build with all its steps; `PowerDown`
refines one of them; `BuildPromise` is what it implements; `GuestSetup` and `VmFiles` open up
what its actions do to the VM and to its files; `SharedHost` puts several builds, reduced to
what they do by name, next to each other.

## What TLC checks

| Run | Module | Expected |
|---|---|---|
| `build` | `MCHypervBuild` | holds |
| `power_down` | `MCPowerDown` | holds |
| `clone_unwinds` | `MCHypervBuild` | holds |
| `shared_host` | `MCSharedHost` | holds |
| `guest_setup` | `MCGuestSetup` | holds |
| `vm_files` | `MCVmFiles` | holds |
| `vmcx_panics`, `kept_vm_homeless`, `name_unchecked`, `wsl_skip_export` | `MCHypervBuild` | violated |
| `timeout_ignored` | `MCPowerDown` | violated |
| `switch_vlan` | `MCGuestSetup` | violated |

**build** (about 840 000 states).  The builds are of both builders and generations, with
each kind of media, with names and switches free and taken, with and without
`keep_registered` and `skip_export`, in WSL and not; without faults, with failing calls
only, and with every fault at once.  All of them may be cancelled at any time.  Checked:

* `ArtifactComplete`: an artifact is only returned when the output directory holds an
  image of a VM that was off, with nothing in its drives.
* `PipelineInv`: the inductive reason for it, step by step.
* `EjectOnlyWhenOff`, `FilesOutliveVm`: what no step may do.
* `CollisionHarmless`, `OtherSwitchKept`: other VMs and switches survive.
* `NoPanic`: with a `config` in the state bag, no step finds a key missing.
* `NothingLeft`, `KeptVmComplete`: what a build leaves behind, whichever of the calls that
  make and set up its VM failed.
* `FaultFreeBuildSucceeds`: a build in which nothing goes wrong yields an artifact.
* `RefinesPromise`: every behaviour is one of `BuildPromise`.

**power_down** (about 170 000 states).  Each way of shutting down, kept or not, under six
sets of faults, and clones whose name is taken.  Checked: `SelectInv`, what the select
concludes is so; `ImplementsBuild`; `BuildEnds`, every build ends as long as the VM can be
seen to be off; `PollerReturns`, the goroutine left behind does.

**clone_unwinds** (about 1 200 states).  `vmcx` builds as `Builder.Run` starts them, without
`config` in the bag: they panic, and `NothingLeft` says that the deferred Cleanups still
take the build directory away.

**shared_host** (about 350 000 states).  Two builds, iso or vmcx each, and a VM that was
there, with the names shared by the builds, by one of them and the VM, or by the other two; a
switch that was there, a switch each, a VM that is kept.  Checked: `OneHolder` and
`TakesOnlyOwn`, a build acts on nobody else's VM; `ReachesOwnGuest`, it provisions its own
guest; `SwitchServes`, its switch stays while it needs it; `EndsOrWaitsForOff`, it ends, or
waits for ever for a contested machine to be off.
Each holds only up to what the code does not prevent, which the property names: a contested
name, and a switch that another build made and took away in its Cleanup (`CutOff`).

**guest_setup** (about 18 000 states).  Families of templates, each crossing the settings
that meet: sizes with their limits and with the width of a `uint`, adapter with VLANs and MAC
address, nested virtualization, boot devices, controllers filled to the limit, and clones of
machines with settings and disks of their own.  Checked:
`SizesExact`; `AsRequested`, a setting is not undone by a later call; `FirstBootDeviceWins`;
`NestedWarned` and `UnwarnedVlansAgree`, a build without a warning is as the warnings want it;
`AcceptedIsBuildable`, Hyper-V refuses nothing that Prepare accepts but for the gaps that
`Gap` lists.

**vm_files** (about 80 000 states).  Every template and kind of source that `Template`
describes.  Checked: `SourcesUntouched`; `CloneStartsAsAsked`; `ArtifactIsGuest` and
`ExportIsWhole`, the artifact is what the guest wrote, all of it, and where it should be;
`NothingStrays`.

Why the bounds are enough: in `HypervBuild` and `PowerDown` no variable counts anything.  A build is a run through a fixed
list of steps, so that the instance is not a bound on the length of a behaviour; it bounds
only the number of secondary images (up to two in the runs, three in the model, and the
steps treat them in a loop without memory) and the combinations of settings.  The theorems
are about all combinations.  In `SharedHost` each property is about a build and one other
build or VM, and the theorems are about any number of either.  In `GuestSetup` a setting meets
only the settings of its family: no guard, warning or call reads across two, but that all
hang on the builder and the generation, which every family varies.  In `VmFiles` one more
additional disk would be treated as the first one is, and the templates are all there are.

**The violations** are disagreements between the code and what it, or its documentation,
says.

* `vmcx_panics`.  `StepValidateClone` asserts `state.Get("config").(*Config)`; nothing but
  a unit test puts that key.  Every `hyperv-vmcx` build panics in its fourth step.  Except
  for this run and `clone_unwinds`, the runs of `vmcx` builds set `ConfigInBag` to study what
  the builder does beyond.  The traces of the other violations are of iso builds, or of steps
  that both builders have.
* `kept_vm_homeless`.  With `keep_registered` a build that fails or is cancelled keeps the
  VM registered and deletes the directory with its disks.
* `name_unchecked`.  An iso build deletes a VM it never made, in two ways.  Under WSL
  `StepCreateVM` converts a path before it checks the name; if that fails, its Cleanup removes
  the VM that has the name (TLC's trace, the shorter one).  And `CheckVMName` takes any error of
  `Get-VM` for a free name; the build goes on, and its cleanup removes both.  The run has
  configurations for either, and with those of one alone it is violated as well.
* `wsl_skip_export`.  `StepCollateArtifacts` does not convert the build directory's path.
* `switch_vlan`.  The switch's adapter is given `vlan_id`; `switch_vlan_id` only decides
  whether it is.
* `timeout_ignored`.  A paused VM, or a failed poll, ends the wait that has a timeout, and
  `StepWaitForPowerOff` then waits without one, and without looking at the context.

**Further disagreements**, modelled as the code has them, which the properties of the passing
runs name and exclude:

* `CreateVirtualSwitch` compares its script's whole output with True (hyperv.go:1067), and
  `New-VMSwitch` writes to it unless it is silent: a build may take the switch it made for one
  that was there, say so, and leave it (`SwitchIsPrinted` in `NothingLeft`).
* Where a `uint` has 32 bits, an additional disk of 4 GB or more, and a clone's memory of as
  much, comes out smaller than asked for (step_create_vm.go:170, step_clone_vm.go:76; the
  bounds of `WordMB` in `SizesExact`).
* Prepare accepts 64 additional disks for a generation 2 machine (config.go:214), whose first
  disk is on the same controller of 64 locations: the host refuses the last (`Gap`).
* With `skip_export` a clone that has snapshots leaves the guest's work in an `.avhdx` that is
  not moved and then deleted (hyperv.go:993; `ArtifactIsGuest`).

## What is proved

Every invariant and action property of the passing runs, and the two refinements, for every
value of the constants:

* `HypervBuild` and `PowerDown`: every set `Configs` of configurations that `Prepare` accepts
  (`ConfigsAssumption`) and every value of `ConfigInBag`, with every combination of faults;
* `SharedHost`: every set of builds, of other VMs and of names, and all situations among them
  (`SetupsAssumption`, and `OthersAssumption`: a build's VM is not one that was there);
* `GuestSetup`: every set of templates (`RequestsAssumption`), with any sizes and any number of
  additional disks, and every width of a `uint` (`WordMBAssumption`);
* `VmFiles`: every set of templates and sources (`TemplatesAssumption`).

Nothing else is assumed.  Where the code breaks a property in a known case, the theorem names
the case as a hypothesis: `ConfigNotNeeded` and `PathsReach`, both explained below.

| Theorem | Module | States |
|---|---|---|
| `TypeCorrect` | `HypervBuildProofs` | `Spec => []TypeOK` |
| `PipelineCorrect` | `PipelineProofs` | `Spec => []PipelineInv` |
| `ArtifactsComplete` | `PipelineProofs` | `Spec => []ArtifactComplete` |
| `EjectsOnlyWhenOff` | `PipelineProofs` | `Spec => EjectOnlyWhenOff` |
| `BuildsKeepPromise` | `PromiseProofs` | `Spec => RefinesPromise` |
| `FoundSwitchKept` | `PromiseProofs` | `Spec => []OtherSwitchKept` |
| `NamesakeKept` | `PromiseProofs` | `Spec => []CollisionHarmless` |
| `OnlyConfigPanics` | `LeftoverProofs` | `Spec => [](ConfigNotNeeded => NoPanic)` |
| `LeavesNothing` | `LeftoverProofs` | `Spec => []NothingLeft` |
| `FilesOutlive` | `LeftoverProofs` | `Spec => FilesOutliveVm` |
| `KeptComplete` | `LeftoverProofs` | `Spec => []KeptVmComplete` |
| `SmoothBuildSucceeds` | `LeftoverProofs` | `Spec => [](ConfigNotNeeded /\ PathsReach => FaultFreeBuildSucceeds)` |
| `PowerTypeCorrect` | `PowerDownProofs` | `PowerSpec => []PowerTypeOK` |
| `SelectCorrect` | `PowerDownProofs` | `PowerSpec => []SelectInv` |
| `PowerDownImplementsBuild` | `PowerDownProofs` | `PowerSpec => ImplementsBuild` |
| `TypeCorrect` | `SharedHostProofs` | `Spec => []TypeOK` |
| `NamesHold` | `SharedHostProofs` | `Spec => [](OneHolder /\ ReachesOwnGuest)` |
| `GuestReached` | `SharedHostProofs` | `Spec => []ReachesOwnGuest` |
| `BuildsTakeOnlyTheirOwn` | `SharedHostProofs` | `Spec => TakesOnlyOwn` |
| `SwitchesServe` | `SharedHostProofs` | `Spec => []SwitchServes` |
| `SetupCorrect` | `GuestSetupProofs` | `Spec => []SetupInv` |
| `TypeCorrect` | `GuestSetupProofs` | `Spec => []TypeOK` |
| `RequestedSettings` | `GuestSetupProofs` | `Spec => []AsRequested` |
| `BootsAsAsked` | `GuestSetupProofs` | `Spec => []FirstBootDeviceWins` |
| `NestedMachines` | `GuestSetupProofs` | `Spec => []NestedWarned` |
| `VlansAgree` | `GuestSetupProofs` | `Spec => []UnwarnedVlansAgree` |
| `SizesToTheMegabyte` | `GuestSetupProofs` | `Spec => []SizesExact` |
| `BuildableIfAccepted` | `GuestSetupProofs` | `Spec => []AcceptedIsBuildable` |
| `VmFilesCorrect` | `VmFilesProofs` | `Spec => []VmFilesInv` |
| `TypeCorrect` | `VmFilesProofs` | `Spec => []TypeOK` |
| `SourcesSafe` | `VmFilesProofs` | `Spec => []SourcesUntouched` |
| `CloneAsAsked` | `VmFilesProofs` | `Spec => []CloneStartsAsAsked` |
| `GuestHandedOver` | `VmFilesProofs` | `Spec => []ArtifactIsGuest` |
| `WholeExport` | `VmFilesProofs` | `Spec => []ExportIsWhole` |
| `StraysRemoved` | `VmFilesProofs` | `Spec => []NothingStrays` |

*Types.*  `TypeOK` is inductive as it stands.  `ReturnType` settles the runner's variables
for every way a Run returns, so that for each step only the host is left.

*Artifacts.*  `ArtifactComplete` speaks of the end of a build only.  What makes it true is
spread over the list of steps, and `PipelineInv` collects it: the output directory is made
by the second step; from `StepWaitForPowerOff` on the VM is off; each unmount step empties
its part of the drives, provided that the drives are the recorded ones; the image is written
when all that holds, and stays.  It is inductive together with `TypeOK`.  The proof fixes
the place of each step in the two lists (`Positions`), so that to have passed a step is to
be at a larger position (`PastAt`).  A Run that goes on leaves alone what is not its own
(`Frame`) and brings about what it is there for (`Effect`); one that halts or is cancelled
leaves `halted` or `cancelled` in the bag (`ReturnEffect`), which excuses everything else,
because no artifact is returned then and the output directory may be deleted.  The Cleanups
touch no image (`CleanupEffect`).  The one error that does not halt, of
`StepUnmountFloppyDrive`, is carried along as `Failed`, and keeps the artifact from being
returned.  `EjectsOnlyWhenOff` follows, since only the unmount steps take drives away
(`DrivesTaken`) and they stand behind `StepWaitForPowerOff`.

*StepShutdown.*  The goroutine and the timer change nothing that `HypervBuild` knows of, and
the call is a stutter or a guest that stops.  Only the select decides; to map it to the
atomic step one has to know that the report it takes, which may be old, is still right.
`SelectInv` says so, and is inductive with the types: while the builder waits, only the
guest, the goroutine, the timer and the user move (`BuilderWaits`), and none of them makes a
VM run (`WaitKept`).

*The promise.*  Two frames do the work: a Run adds to what the build has made and takes nothing
away (`RunMakes`), a Cleanup only takes away (`CleanupUndoes`).  With the place of each step in
the runner's loop they say which step of `BuildPromise` each action is (`RunPromise`,
`CleanupPromise`, `RunnerPromise`, `EnvironmentPromise`, `EndPromise`).  That the artifact has
its image is `ArtifactComplete`'s argument once more, which is why the proof uses `PipelineInv`.

*What was there.*  `OtherSwitchKept` becomes inductive with the reason that Cleanup has not to
delete a switch: `createdSwitch` is false as long as the switch was found (`SwitchInv`).
`CollisionHarmless` needs the way of the check: until `StepCreateVM` has looked, its position
is not passed and the Cleanup of that step is not reached; once it has found the name taken,
`KeepRegistered` is true (`CollisionInv`).  `OtherSteps` says that no other step touches any of
that.

*Several builds.*  "Nobody else has my VM's name" is not inductive, because a check and the
creation after it are two steps.  `OneHolder` is: nobody else *acts* on the name, unless two
checks overlapped, or one was not answered, and then the history variable says so; a contest
never ends
(`ContestedStays`) and is one of all namesakes (`ContestedTogether`).  From it follow the guest
a build reaches (`ReachStep`) and, step by step (`Effects`), `TakesOnlyOwn`.  For
`SwitchServes` the invariant adds that a switch that was there is never deleted
(`FoundKept`), and that only the Cleanup of another build that made the switch takes it away,
which is over then (`CutOff`).

*What a build needs.*  A step that asserts a key panics if nobody put it.  `BagInv` says which
keys are in the bag from which position on, and that they are never taken out.  Only one step
asserts a key that no step puts: `StepValidateClone`, which wants `config`.  `ConfigNotNeeded`
excludes it: an iso build has no such step, and a clone is taken to have the key.  That no
clone has it is the run `vmcx_panics`.

*What a build leaves.*  `NothingLeft` speaks of the end.  `LeftInv` says for each thing that a
step makes (the build directory, the switch, the VM) what holds *before* its step has been
reached, that the step's own fields know of it in between, and that it is gone, or to be kept,
once the Cleanup of that step is behind (`CleanedUp`).  A VM that was left half set up needs no
case of its own: its Cleanup deletes by the name the step was given, not by the one in the bag.
The step knows of its switch if no call fails late and `New-VMSwitch` is silent (`OwnKnown`).  A Run touches nothing but what its
step is there for (`RunTouches`).  `FilesOutliveVm` follows: the directory's Cleanup comes
last, and the VM's is behind then.  `KeptInv` is for a VM that is to be kept: it and its disks
are complete when the Cleanups begin (`KeptAtEnd`, from `PipelineInv`), and no Cleanup of a
build that nothing spoilt touches them (`KeptCleanup`).

*A build without faults.*  That nothing goes wrong has to be shown of each step: no key is
missing (`BagInv`), no path is out of Windows' reach, and each drive finds a place on its
controller.  For the last, `MediaInv` bounds the drives there are by those that the
configuration asks for, from step to step, and `RoomForNext` counts: what is mounted, with what
is still wanted, is not more than `DvdLocations`.  So every Run goes on (`RunGoesOn`), nothing
puts a mark in the bag (`SmoothInv`), and the build ends with an artifact.  Its hypotheses are
`ConfigNotNeeded`, and `PathsReach`, which leaves out the paths that no step converts under
WSL: a virtual hard disk as the source, the guest additions, `skip_export` (the run
`wsl_skip_export`), and a floppy of generation 1; and the empty path of a clone that is named
by its VM, which is converted although there is nothing to convert.

*Settings.*  The configuration decides which calls are made (`Wanted`), their order is fixed
(`Rank`).  What is left of the list is at any time a `Queue`: all the wanted calls from some
rank on, in order, each once but for the two that are repeated, which come as a `Block` with
one call for each disk or drive that is still to come.  `Calls` is one (`CallsQueue`), and
making the first call of one leaves one.  So a call is either pending or `Done`, and `Settings`
and `Boots` say what the VM is like from that alone: a setting is what the last call that
changes it makes it, the calls that undo one another being in the right order.  `Disks` and
`Dvds` count, on top of what a clone's source has.  Nothing is assumed of the width of a
`uint`: `SizesExact` says which sizes do not depend on it, and `Gap` speaks of the sizes as the
driver gets them.

*Files.*  `FilesInv` has what every script relies on and none checks: no two files are in one
place (`Unique`), the sources are what they were, and a directory that is about to be filled
is empty of what would be in the way.  `LaidInv` says what `ExportAndCopy` puts into the build
directory and where it comes from, `MachineInv` that the VM registered there has a file for
its configuration and for each disk it names, and that the guest wrote on the one it started
from.  `HandedInv` follows those files into the output directory, whichever way they are
collated: no two of an export have one name (`SameNames`: Hyper-V would have refused), so that
none is lost.  `CloneStartsAsAsked` is proved of the step that imports.

Only model-checked: liveness, that is `BuildEnds`, `PollerReturns` and `EndsOrWaitsForOff`,
and with it what the fairness conditions are worth.  The provers do not reason about `ENABLED`,
which weak fairness stands for.  That the violated properties are violated is shown by TLC's
traces.

## What is not modelled, and the plan

Not modelled:

* `PowerShellCmd.Output`'s temporary script file: written, run and removed in one call, and
  unique to it.  That stderr decides on failure is in every model.
* The scan codes of `TypeScanCodes`, and what typing them does to a guest.
* `PSRPHost` and the GUID it chooses, and the settings of `comm_config.go`.  The rest of
  connecting is the SDK's.
* Whether files exist at the time of `Prepare`, and the interpolation of templates.
* `driver_ps_4.go` but for its start (delegation, one line each), `driver_mock.go` (for the
  tests), the generated `*.hcl2spec.go`, `main.go` and `version/`: no behaviour of their own.
* The steps that no list holds, and the scripts that only they use.
* What is inside the SDK's own steps, which are modelled by how the builders use them.

Left of the plan: no safety property is left to prove.  What could still be modelled is the
address of a `PSRP` guest and the settings of the communicators, and the scripts' temporary
files, each of which is a component that keeps little state.  Liveness stays with TLC.
