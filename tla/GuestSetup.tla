----------------------------- MODULE GuestSetup -----------------------------
(***************************************************************************)
(* From a template to a virtual machine ready to start: Prepare, which     *)
(* fills in defaults, turns configurations down or warns about them, and   *)
(* then the driver calls with which StepCreateVM or StepCloneVM and the    *)
(* steps up to StepSetFirstBootDevice set the machine up, in their order.  *)
(*                                                                         *)
(* HypervBuild takes each of those steps for one action; here each driver  *)
(* call is one.  The host refuses a call it cannot carry out, and any call *)
(* may fail; either ends the setup.  Sizes are in MB.                      *)
(***************************************************************************)
EXTENDS Integers, Sequences

CONSTANTS
  Requests,        \* the templates considered, see Request
  WordMB           \* 2^20 times this is the range of a Go uint: 4096 on a
                   \* 32-bit system (.goreleaser.yml builds for windows/386)

Vlan == {"", "10", "20"}

(***************************************************************************)
(* What a template asks for, as it stands before Prepare (0 and "" are     *)
(* unset), and the machine a vmcx build clones: its first disk, how many   *)
(* more it has on the IDE and the SCSI controllers, and the settings that  *)
(* a template may ask for too.  Its DVD drives do not matter: the driver   *)
(* deletes them from the clone.                                            *)
(***************************************************************************)
Request ==
  [builder : {"iso", "vmcx"}, generation : Nat,
   source : [generation : {1, 2}, disk : Nat, ide : Nat, scsi : Nat,
             legacyAdapter : BOOLEAN, dynamicMemory : BOOLEAN, macSpoofing : BOOLEAN,
             tpm : BOOLEAN, virtExt : BOOLEAN, mac : BOOLEAN, vlan : Vlan],
   media : {"none", "iso", "vhd"},
   memory : Nat, diskSize : Nat, blockSize : Nat, additional : Seq(Nat),
   fixedVHD : BOOLEAN, differencing : BOOLEAN, skipCompaction : BOOLEAN,
   legacyAdapter : BOOLEAN, dynamicMemory : BOOLEAN, macSpoofing : BOOLEAN,
   secureBoot : BOOLEAN, tpm : BOOLEAN, virtExt : BOOLEAN, mac : BOOLEAN,
   vlan : Vlan, switchVlan : Vlan,
   firstBoot : {"", "IDE", "CD", "NET", "FLOPPY", "IDE:0:0", "SCSI:0:1"},
   bootOrder : BOOLEAN,                      \* if so, SCSI:0:1
   floppy : BOOLEAN, guestAdditions : BOOLEAN, secondary : Nat, cd : BOOLEAN]

ASSUME RequestsAssumption == Requests \subseteq Request
ASSUME WordMBAssumption == WordMB \in Nat \ {0}

VARIABLES
  config,      \* the configuration: the request, then as Prepare leaves it
  asked,       \* the request itself
  phase,       \* "prepare", "driver", "setup", and the ends "rejected",
               \* "refused" (by the host), "failed" and "ready"
  warnings,    \* what Prepare warned about
  todo,        \* the driver calls still to make
  guest,       \* the virtual machine
  hostVlan     \* the VLAN of the switch's network adapter on the host

vars == <<config, asked, phase, warnings, todo, guest, hostVlan>>

Guest ==
  [generation : {0, 1, 2},                   \* 0: there is none yet
   memory : Nat, disk : Nat, ide : Nat, scsi : Nat, additional : Seq(Nat),
   legacyAdapter : BOOLEAN, dynamicMemory : BOOLEAN, macSpoofing : BOOLEAN,
   secureBoot : BOOLEAN, tpm : BOOLEAN, virtExt : BOOLEAN, mac : BOOLEAN,
   vlan : Vlan,
   \* What is tried first; "default": what Hyper-V or the source chose.
   boot : {"default", "IDE", "CD", "NET", "FLOPPY", "IDE:0:0", "SCSI:0:1"},
   dvds : Nat, osDvd : BOOLEAN]

NoGuest ==
  [generation |-> 0, memory |-> 0, disk |-> 0, ide |-> 0, scsi |-> 0, additional |-> <<>>,
   legacyAdapter |-> FALSE, dynamicMemory |-> FALSE, macSpoofing |-> FALSE,
   secureBoot |-> FALSE, tpm |-> FALSE, virtExt |-> FALSE, mac |-> FALSE,
   vlan |-> "", boot |-> "default", dvds |-> 0, osDvd |-> FALSE]

TypeOK ==
  /\ config \in Request /\ asked \in Request
  /\ phase \in {"prepare", "driver", "setup", "rejected", "refused", "failed", "ready"}
  /\ warnings \subseteq {"dynamic_memory", "mac_spoofing", "memory", "vlan"}
  /\ \A i \in DOMAIN todo : todo[i].mb \in Nat
  /\ guest \in Guest
  /\ hostVlan \in Vlan

Init ==
  /\ asked \in Requests /\ config = asked
  /\ phase = "prepare" /\ warnings = {} /\ todo = <<>>
  /\ guest = NoGuest /\ hostVlan = ""

(***************************************************************************)
(* Prepare.                                                                *)
(***************************************************************************)
MaxDiskSize == 64 * 1024 * 1024
MaxVHDSize == 2040 * 1024
MaxRamSize == 1024 * 1024
MinNestedVirtualizationRamSize == 4 * 1024

One(b) == IF b THEN 1 ELSE 0
Or(n, default) == IF n = 0 THEN default ELSE n

NewDisk(c) == c.builder = "iso" /\ c.media # "vhd"     \* disk_size is for one

Defaults(c) ==
  [c EXCEPT !.generation = IF @ \in 1 .. 2 THEN @ ELSE 1,
            !.memory = Or(@, 1024), !.blockSize = Or(@, 32),
            !.diskSize = IF NewDisk(c) THEN Or(@, 40 * 1024) ELSE @]

\* Slip: one list for both generations.
SlipBootDevices(generation) == {"FLOPPY", "IDE", "NET", "CD", "SCSI:0:1"}
\* What ParseBootDeviceIdentifier accepts.
BootDevices(generation) ==
  IF generation = 1 THEN {"FLOPPY", "IDE", "NET", "CD"}
  ELSE {"CD", "NET", "IDE:0:0", "SCSI:0:1"}

MaxAdditionalDisks == 64

CommonRejects(c) ==
  \/ c.generation = 2 /\ c.floppy
  \/ Len(c.additional) > MaxAdditionalDisks
  \/ c.generation = 1 /\ c.secondary + One(c.guestAdditions) > 2
  \/ c.generation = 2 /\ c.secondary > 16
  \/ c.firstBoot # "" /\ c.firstBoot \notin BootDevices(c.generation)
  \/ c.blockSize \notin 1 .. 256
  \/ c.memory \notin 32 .. MaxRamSize

\* checkDiskSize, and the demands of a legacy adapter and of fixed disks.
IsoRejects(c) ==
  \/ c.media = "none"
  \/ NewDisk(c) /\ c.diskSize \notin 256 .. (IF c.fixedVHD THEN MaxVHDSize ELSE MaxDiskSize)
  \/ c.generation = 2 /\ c.legacyAdapter
  \/ c.fixedVHD /\ (c.generation = 2 \/ ~c.skipCompaction \/ c.differencing)

Rejects(c) == CommonRejects(c) \/ (c.builder = "iso" /\ IsoRejects(c))

\* Slip: a VLAN for the switch alone raises no doubt.
SlipWarnings(c) ==
  {w \in {"dynamic_memory", "mac_spoofing", "memory"} :
     c.virtExt /\ \/ w = "dynamic_memory" /\ c.dynamicMemory
                  \/ w = "mac_spoofing" /\ ~c.macSpoofing
                  \/ w = "memory" /\ c.memory <= 1024}

Warnings(c) ==
  {w \in {"dynamic_memory", "mac_spoofing", "memory"} :
     c.virtExt /\ \/ w = "dynamic_memory" /\ c.dynamicMemory
                  \/ w = "mac_spoofing" /\ ~c.macSpoofing
                  \/ w = "memory" /\ c.memory < MinNestedVirtualizationRamSize}
  \cup {w \in {"vlan"} : c.switchVlan # "" /\ c.switchVlan # c.vlan}

Prepare ==
  /\ phase = "prepare"
  /\ config' = Defaults(config)
  /\ warnings' = Warnings(config')
  /\ phase' = IF Rejects(config') THEN "rejected" ELSE "driver"
  /\ UNCHANGED <<asked, todo, guest, hostVlan>>

(***************************************************************************)
(* The driver calls of each step, from the configuration as it stands when *)
(* Builder.Run makes the list of steps: what StepValidateClone learns of   *)
(* the generation later comes too late for them.                           *)
(***************************************************************************)
Sized(call, mb) == [call |-> call, mb |-> mb]
Call(call) == Sized(call, 0)
When(cond, call) == IF cond THEN <<Call(call)>> ELSE <<>>
Times(n, call) == [i \in 1 .. n |-> Call(call)]

\* x * 1024 * 1024, multiplied before it is widened: the product of uints wraps.
EarlyMB(mb) == mb % WordMB

LastSettings(c) ==
  When(c.virtExt, "SetVirtualMachineVirtualizationExtensions")
  \o [i \in DOMAIN c.additional |->
        Sized("AddVirtualMachineHardDrive", EarlyMB(c.additional[i]))]
  \o When(c.mac, "SetVmNetworkAdapterMacAddress")

\* Slip: the adapter is replaced last.
SlipStepCreateVM(c) ==
  <<Sized("CreateVirtualMachine", c.memory), Call("SetVirtualMachineDynamicMemory")>>
  \o When(c.macSpoofing, "SetVirtualMachineMacSpoofing")
  \o When(c.generation = 2, "SetVirtualMachineSecureBoot")
  \o When(c.generation = 2 /\ c.tpm, "SetVirtualMachineTPM")
  \o LastSettings(c)
  \o When(c.legacyAdapter, "ReplaceVirtualMachineNetworkAdapter")

\* Slip: the memory, too, is multiplied before it is widened.
SlipEarlyStepCreateVM(c) ==
  <<Sized("CreateVirtualMachine", EarlyMB(c.memory)), Call("SetVirtualMachineDynamicMemory")>>

StepCreateVM(c) ==
  <<Sized("CreateVirtualMachine", c.memory)>>
  \o When(c.legacyAdapter, "ReplaceVirtualMachineNetworkAdapter")
  \o <<Call("SetVirtualMachineDynamicMemory")>>
  \o When(c.macSpoofing, "SetVirtualMachineMacSpoofing")
  \o When(c.generation = 2, "SetVirtualMachineSecureBoot")
  \o When(c.generation = 2 /\ c.tpm, "SetVirtualMachineTPM")
  \o LastSettings(c)

\* The clone is asked for its generation; what is not enabled is left alone.
StepCloneVM(c) ==
  <<Sized("CloneVirtualMachine", EarlyMB(c.memory))>>
  \o When(c.dynamicMemory, "SetVirtualMachineDynamicMemory")
  \o When(c.macSpoofing, "SetVirtualMachineMacSpoofing")
  \o When(c.source.generation = 2, "SetVirtualMachineSecureBoot")
  \o When(c.source.generation = 2 /\ c.tpm, "SetVirtualMachineTPM")
  \o LastSettings(c)

StepResizeVhd(c) ==
  IF c.diskSize = 0 THEN <<>> ELSE <<Sized("ResizeVirtualMachineVhd", c.diskSize)>>

StepMountDvdDrive(c) ==
  IF c.media # "iso" THEN <<>>
  ELSE <<Call("CreateOsDvdDrive")>> \o When(c.firstBoot = "", "SetBootDvdDrive")

\* A CD to boot from first is ignored unless there is an operating system's DVD.
StepSetFirstBootDevice(c) ==
  When(c.firstBoot # "" /\ (c.firstBoot = "CD" => c.media = "iso"), "SetFirstBootDevice")

\* Drives for the guest additions, the secondary images and the CD of files.
ExtraDvds(c) == One(c.guestAdditions) + c.secondary + One(c.cd)

\* Slip: the boot order is set after the first boot device.
SlipMediaAndBoot(c) ==
  StepMountDvdDrive(c)
  \o Times(ExtraDvds(c), "CreateDvdDrive")
  \o When(c.switchVlan # "", "SetNetworkAdapterVlanId")
  \o When(c.vlan # "", "SetVirtualMachineVlanId")
  \o StepSetFirstBootDevice(c) \o When(c.bootOrder, "SetBootOrder")

\* StepMountDvdDrive to StepSetFirstBootDevice.
MediaAndBoot(c) ==
  StepMountDvdDrive(c)
  \o Times(ExtraDvds(c), "CreateDvdDrive")
  \o When(c.switchVlan # "", "SetNetworkAdapterVlanId")
  \o When(c.vlan # "", "SetVirtualMachineVlanId")
  \o When(c.bootOrder, "SetBootOrder") \o StepSetFirstBootDevice(c)

Calls(c) ==
  (IF c.builder = "iso" THEN StepCreateVM(c) ELSE StepCloneVM(c) \o StepResizeVhd(c))
  \o MediaAndBoot(c)

\* NewHypervPS4Driver asks for PowerShell 4, the Hyper-V module and the rights
\* of an administrator, and StepValidateHost for virtualization extensions if
\* they are enabled, before any machine is made.
NewDriver ==
  /\ phase = "driver"
  /\ \/ phase' = "setup" /\ todo' = Calls(config)
     \/ phase' = "failed" /\ todo' = todo
  /\ UNCHANGED <<config, asked, warnings, guest, hostVlan>>

(***************************************************************************)
(* What the calls do to the machine, and which ones Hyper-V turns down.    *)
(***************************************************************************)
ScsiLocations == 64
MinVhd == 3                                   \* the smallest VHDX, in MB

\* Generation 1: four IDE locations for the disk, the source's disks there and
\* the DVDs; the additional disks go to the SCSI controller.  Generation 2: all
\* of them share the SCSI controller.
DiskFits ==
  IF guest.generation = 1 THEN guest.scsi + Len(guest.additional) < ScsiLocations
  ELSE 1 + guest.scsi + Len(guest.additional) + guest.dvds < ScsiLocations
DvdFits == IF guest.generation = 1 THEN guest.ide + guest.dvds < 3 ELSE DiskFits

\* The scripts take the template's generation for the machine's: Set-VMBios is
\* for generation 1, Set-VMFirmware, which wants the device to be there, for 2
\* (and a machine of generation 2 has no IDE controller).
SecondScsiDevice == guest.scsi + Len(guest.additional) + guest.dvds > 0
Bootable(device) ==
  \/ config.generation = 1 /\ guest.generation = 1
  \/ /\ config.generation = 2 /\ guest.generation = 2
     /\ device \in {"CD", "NET"} \/ (device = "SCSI:0:1" /\ SecondScsiDevice)

HostTakes(c) ==
  CASE c.call = "AddVirtualMachineHardDrive" ->
         DiskFits /\ c.mb \in MinVhd .. MaxDiskSize
    [] c.call \in {"CreateOsDvdDrive", "CreateDvdDrive"} -> DvdFits
    [] c.call \in {"CreateVirtualMachine", "CloneVirtualMachine"} -> c.mb >= 32
    [] c.call = "ResizeVirtualMachineVhd" -> c.mb >= guest.disk
    [] c.call = "SetBootOrder" -> guest.generation = 2 /\ SecondScsiDevice
    [] c.call = "SetFirstBootDevice" -> Bootable(config.firstBoot)
    [] c.call = "SetBootDvdDrive" ->           \* a firmware's errors are silenced
         config.generation = 2 \/ guest.generation = 1
    [] c.call = "SetNetworkAdapterVlanId" -> config.vlan # ""
    [] OTHER -> TRUE

\* Slip: the generation as it was asked for.
SlipCreated(mb) ==
  [NoGuest EXCEPT !.generation = asked.generation, !.memory = mb,
                  !.disk = IF NewDisk(config) THEN config.diskSize ELSE config.source.disk]
Created(mb) ==
  [NoGuest EXCEPT !.generation = config.generation, !.memory = mb,
                  !.disk = IF NewDisk(config) THEN config.diskSize ELSE config.source.disk]
\* The source as it is, but for the memory and the DVD drives.
Cloned(mb) ==
  LET source == config.source IN
    [NoGuest EXCEPT !.generation = source.generation, !.memory = mb, !.disk = source.disk,
                    !.ide = source.ide, !.scsi = source.scsi,
                    !.legacyAdapter = source.legacyAdapter,
                    !.dynamicMemory = source.dynamicMemory,
                    !.macSpoofing = source.macSpoofing,
                    !.tpm = source.tpm, !.virtExt = source.virtExt,
                    !.mac = source.mac, !.vlan = source.vlan]

Applied(c) ==
  CASE c.call = "CreateVirtualMachine" -> Created(c.mb)
    [] c.call = "CloneVirtualMachine" -> Cloned(c.mb)
    [] c.call = "ReplaceVirtualMachineNetworkAdapter" ->      \* and its settings
         [guest EXCEPT !.legacyAdapter = TRUE, !.macSpoofing = FALSE,
                       !.mac = FALSE, !.vlan = ""]
    [] c.call = "SetVirtualMachineDynamicMemory" ->
         [guest EXCEPT !.dynamicMemory = config.dynamicMemory]
    [] c.call = "SetVirtualMachineMacSpoofing" -> [guest EXCEPT !.macSpoofing = TRUE]
    [] c.call = "SetVirtualMachineSecureBoot" ->
         [guest EXCEPT !.secureBoot = config.secureBoot]
    [] c.call = "SetVirtualMachineTPM" -> [guest EXCEPT !.tpm = TRUE]
    [] c.call = "SetVirtualMachineVirtualizationExtensions" ->
         [guest EXCEPT !.virtExt = TRUE]
    [] c.call = "AddVirtualMachineHardDrive" ->
         [guest EXCEPT !.additional = Append(@, c.mb)]
    [] c.call = "SetVmNetworkAdapterMacAddress" -> [guest EXCEPT !.mac = TRUE]
    [] c.call = "ResizeVirtualMachineVhd" -> [guest EXCEPT !.disk = c.mb]
    [] c.call = "CreateOsDvdDrive" -> [guest EXCEPT !.dvds = @ + 1, !.osDvd = TRUE]
    [] c.call = "CreateDvdDrive" -> [guest EXCEPT !.dvds = @ + 1]
    [] c.call = "SetBootDvdDrive" ->
         CASE config.generation = 1 -> [guest EXCEPT !.boot = "IDE"]
           [] config.generation = 2 /\ guest.generation = 2 -> [guest EXCEPT !.boot = "CD"]
           [] OTHER -> guest
    [] c.call = "SetVirtualMachineVlanId" -> [guest EXCEPT !.vlan = config.vlan]
    [] c.call = "SetBootOrder" -> [guest EXCEPT !.boot = "SCSI:0:1"]
    [] c.call = "SetFirstBootDevice" -> [guest EXCEPT !.boot = config.firstBoot]
    [] OTHER -> guest

\* The next call, which may fail, and is the last one then.
Perform ==
  /\ phase = "setup" /\ todo # <<>>
  /\ \/ /\ HostTakes(Head(todo))
        /\ guest' = Applied(Head(todo)) /\ todo' = Tail(todo) /\ phase' = phase
        /\ hostVlan' = IF Head(todo).call = "SetNetworkAdapterVlanId"
                       THEN config.vlan ELSE hostVlan
     \/ /\ phase' = IF HostTakes(Head(todo)) THEN "failed" ELSE "refused"
        /\ UNCHANGED <<guest, todo, hostVlan>>
  /\ UNCHANGED <<config, asked, warnings>>

Finish ==
  /\ phase = "setup" /\ todo = <<>> /\ phase' = "ready"
  /\ UNCHANGED <<config, asked, warnings, todo, guest, hostVlan>>

Over == phase \in {"rejected", "refused", "failed", "ready"}
Terminated == Over /\ UNCHANGED vars

Next == Prepare \/ NewDriver \/ Perform \/ Finish \/ Terminated

Spec == Init /\ [][Next]_vars

(***************************************************************************)
(* What the setup promises.                                                *)
(***************************************************************************)
Ready == phase = "ready"
Misstated == config.builder = "vmcx" /\ config.generation # config.source.generation

(***************************************************************************)
(* SizesExact: memory and disks have, to the megabyte, the sizes that the  *)
(* template gives ("convert the MB to bytes", step_create_vm.go:88), from  *)
(* the call that makes each of them on: a machine's memory and first disk  *)
(* on any system, a clone's memory (step_clone_vm.go:76) and an additional *)
(* disk (step_create_vm.go:170) as long as its size in bytes fits a uint.  *)
(***************************************************************************)
SizesExact ==
  guest.generation # 0 =>
    /\ config.builder = "iso" \/ config.memory < WordMB => guest.memory = config.memory
    /\ Len(guest.additional) <= Len(config.additional)
    /\ \A i \in 1 .. Len(guest.additional) :
         config.additional[i] < WordMB => guest.additional[i] = config.additional[i]
    /\ NewDisk(config) => guest.disk = config.diskSize
    /\ Ready /\ config.builder = "vmcx" /\ config.diskSize # 0 => guest.disk = config.diskSize

(***************************************************************************)
(* AsRequested: each setting of a machine that is ready is the template's, *)
(* whatever call came after the one that made it; a clone keeps what its   *)
(* source has enabled and the template has not, and its source's VLAN and  *)
(* disks.                                                                  *)
(***************************************************************************)
AsRequested ==
  Ready =>
    LET clone == config.builder = "vmcx"
        source(b) == clone /\ b
    IN
      /\ guest.dynamicMemory = (config.dynamicMemory \/ source(config.source.dynamicMemory))
      /\ guest.macSpoofing = (config.macSpoofing \/ source(config.source.macSpoofing))
      /\ guest.mac = (config.mac \/ source(config.source.mac))
      /\ guest.virtExt = (config.virtExt \/ source(config.source.virtExt))
      /\ guest.vlan = IF clone /\ config.vlan = "" THEN config.source.vlan ELSE config.vlan
      /\ guest.legacyAdapter = IF clone THEN config.source.legacyAdapter ELSE config.legacyAdapter
      /\ guest.generation = 2 =>
           /\ guest.secureBoot = config.secureBoot
           /\ guest.tpm = (config.tpm \/ source(config.source.tpm))

(***************************************************************************)
(* FirstBootDeviceWins: "the first_boot_device setting has precedence over *)
(* the legacy boot order configuration" (step_mount_dvddrive.go:78), and   *)
(* boot_order over the DVD of the operating system, which a generation 2   *)
(* machine boots otherwise; a DVD that is not mounted is passed over.      *)
(***************************************************************************)
FirstBootDeviceWins ==
  Ready =>
    guest.boot =
      IF config.firstBoot # "" /\ (config.firstBoot = "CD" => guest.osDvd) THEN config.firstBoot
      ELSE IF config.bootOrder THEN "SCSI:0:1"
      ELSE IF guest.osDvd /\ config.firstBoot = "" /\ ~Misstated
           THEN (IF guest.generation = 2 THEN "CD" ELSE "IDE")
      ELSE "default"

(***************************************************************************)
(* NestedWarned: an iso machine that comes out with virtualization         *)
(* extensions and no warning from Prepare is fit for them: fixed memory of *)
(* 4 GB or more, and MAC spoofing.                                         *)
(***************************************************************************)
NestedWarned ==
  Ready /\ config.builder = "iso" /\ guest.virtExt /\ warnings \subseteq {"vlan"} =>
    ~guest.dynamicMemory /\ guest.macSpoofing /\ guest.memory >= MinNestedVirtualizationRamSize

(***************************************************************************)
(* UnwarnedVlansAgree: if Prepare has not warned that "the switch will not *)
(* be able to see traffic from the VM" (config.go:325), the switch's       *)
(* adapter and the machine's are on one VLAN, the one asked for.           *)
(***************************************************************************)
UnwarnedVlansAgree ==
  Ready /\ "vlan" \notin warnings /\ asked.switchVlan # "" =>
    hostVlan = asked.switchVlan /\ guest.vlan = asked.switchVlan

(***************************************************************************)
(* SwitchVlanSet: switch_vlan_id "is the VLAN of the virtual switch's      *)
(* network card" (config.go:80), whether or not it is the machine's.       *)
(***************************************************************************)
SwitchVlanSet == Ready /\ asked.switchVlan # "" => hostVlan = asked.switchVlan

(***************************************************************************)
(* AcceptedIsBuildable: what Prepare accepts the host can set up, call by  *)
(* call, but for the gaps it is known to leave: sizes of additional disks  *)
(* and of a clone's disk and memory are not checked as the driver gets     *)
(* them, nor whether the disks and DVDs fit on the controllers together    *)
(* and beside what a clone has there, whether the boot devices are there,  *)
(* or whether a clone is of the template's generation; and a VLAN for the  *)
(* switch alone is only warned about.                                      *)
(***************************************************************************)
MachineGeneration(c) == IF c.builder = "iso" THEN c.generation ELSE c.source.generation
SourceIde(c) == IF c.builder = "iso" THEN 0 ELSE c.source.ide
SourceScsi(c) == IF c.builder = "iso" THEN 0 ELSE c.source.scsi
AllDvds(c) == One(c.media = "iso") + ExtraDvds(c)

Gap(c) ==
  LET disks == SourceScsi(c) + Len(c.additional)
      device == c.generation = 2 /\ disks + AllDvds(c) > 0
  IN \/ Misstated
     \/ \E i \in DOMAIN c.additional : EarlyMB(c.additional[i]) \notin MinVhd .. MaxDiskSize
     \/ c.builder = "vmcx" /\ (c.diskSize \in 1 .. (c.source.disk - 1) \/ EarlyMB(c.memory) < 32)
     \/ IF MachineGeneration(c) = 1 THEN SourceIde(c) + AllDvds(c) > 3 \/ disks > ScsiLocations
        ELSE 1 + disks + AllDvds(c) > ScsiLocations
     \/ (c.bootOrder \/ c.firstBoot = "SCSI:0:1") /\ ~device
     \/ c.firstBoot = "IDE:0:0"
     \/ c.switchVlan # "" /\ c.vlan = ""

AcceptedIsBuildable == phase = "refused" => Gap(config)
=============================================================================
