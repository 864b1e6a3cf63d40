------------------------------ MODULE VmFiles ------------------------------
(***************************************************************************)
(* The files of a build, from the sources it makes its machine of to the   *)
(* artifact: StepCreateVM or StepCloneVM put them in the build directory,  *)
(* the guest writes to them, StepCompactDisk rewrites them, StepExportVm   *)
(* copies them out, StepCollateArtifacts moves them, and the cleanups of   *)
(* StepCreateBuildDir and StepOutputDir remove the directories.            *)
(*                                                                         *)
(* A script may fail with part of its work done: a cmdlet that fails does  *)
(* not stop the ones after it, it only makes the driver call an error.     *)
(***************************************************************************)
EXTENDS FiniteSets

CONSTANT Templates       \* the templates considered, see Template

(***************************************************************************)
(* What the template and the sources say.  A source may have snapshots: a  *)
(* differencing disk on top of its disk then.  The machine at the path may *)
(* be the output of a build with the same vm_name and an additional disk.  *)
(***************************************************************************)
Template ==
  [byName : BOOLEAN, byPath : BOOLEAN,      \* neither: the iso builder
   image : BOOLEAN,                         \* iso_url is a virtual hard disk
   snapshot : BOOLEAN, all : BOOLEAN,       \* clone_from_snapshot_name, clone_all_snapshots
   extra : BOOLEAN,                         \* disk_additional_size
   skipExport : BOOLEAN, kept : BOOLEAN,    \* keep_registered
   snapshots : BOOLEAN, rebuilt : BOOLEAN]  \* the sources, as said above

ASSUME TemplatesAssumption == Templates \subseteq Template

VARIABLES
  asked,      \* the template
  files,      \* every file: where it is, its name, and what it holds
  vm,         \* the machine's configuration, its disks and the one it writes to
  pc,         \* the step that is next
  result,     \* "", "halted", "artifact", "destroyed"
  warned,     \* StepCollateArtifacts has warned of the layout
  stuck       \* a directory could not be removed

vars == <<asked, files, vm, pc, result, warned, stuck>>

Sources == {"named", "path", "cache"}
\* The build directory, "Virtual Hard Disks" and the exported copy in it.
BuildDir == {"root", "hds", "working"}
\* The output directory and <output>/<vm name>.
OutputDir == {"out", "export"}

Configs == {"named.vmcx", "path.vmcx", "vm.vmcx"}
Chains == {"named.avhdx", "path.avhdx"}
Disks == {"vm", "vm-0", "source", "image"}            \* .vhd or .vhdx
Names == Configs \cup Chains \cup Disks \cup {"box.xml"}
Holds == {"settings", "blank", "image", "first", "last", "now", "guest", "data", "more"}

File(at, name, holds) == [at |-> at, name |-> name, holds |-> holds]
At(places) == {f \in files : f.at \in places}
MovedTo(place, fs) == {[f EXCEPT !.at = place] : f \in fs}
SamePlace(f, g) == f.at = g.at /\ f.name = g.name
\* Slip: a copy goes beside the file of its name.
SlipPut(old, new) == old \cup new
\* A file written over the one of its name.
Put(old, new) == {f \in old : \A g \in new : ~SamePlace(f, g)} \cup new

SourceFiles(t) ==
  (IF t.byName THEN {File("named", "named.vmcx", "settings")}
     \cup (IF t.snapshots THEN {File("named", "source", "first"), File("named", "named.avhdx", "now")}
           ELSE {File("named", "source", "now")})
   ELSE {})
  \cup
  (IF t.byPath THEN {File("path", "path.vmcx", "settings")}
     \cup (IF t.snapshots THEN {File("path", "source", "first"), File("path", "path.avhdx", "now")}
           ELSE IF t.rebuilt THEN {File("path", "vm", "now"), File("path", "vm-0", "data")}
           ELSE {File("path", "source", "now")})
   ELSE {})
  \cup (IF t.image THEN {File("cache", "image", "image")} ELSE {})

NoVm == [config |-> "", disks |-> {}, leaf |-> <<>>]

TypeOK ==
  /\ asked \in Template
  /\ \A f \in files : f.at \in Sources \cup BuildDir \cup OutputDir
                      /\ f.name \in Names /\ f.holds \in Holds
  /\ \A f, g \in files : SamePlace(f, g) => f = g
  /\ vm = NoVm \/ (vm.config \in Configs /\ vm.leaf \in vm.disks)
  /\ pc \in {"make", "import", "attach", "run", "compact", "export", "collate", "cleanup", "end"}
  /\ result \in {"", "halted", "artifact", "destroyed"}
  /\ warned \in BOOLEAN /\ stuck \in BOOLEAN

Init ==
  /\ asked \in Templates /\ files = SourceFiles(asked)
  /\ vm = NoVm /\ pc = "make" /\ result = "" /\ warned = FALSE /\ stuck = FALSE

Goes(step) == pc' = step /\ result' = result
Halts == pc' = "cleanup" /\ result' = "halted"

(***************************************************************************)
(* New-VM on a new disk, or on a copy of (or on top of) the one given.     *)
(***************************************************************************)
CreateVirtualMachine ==
  /\ pc = "make" /\ ~asked.byName /\ ~asked.byPath
  /\ \/ /\ files' = files \cup {File("root", "vm", IF asked.image THEN "image" ELSE "blank"),
                                File("root", "vm.vmcx", "settings")}
        /\ vm' = [config |-> "vm.vmcx", disks |-> {<<"root", "vm">>}, leaf |-> <<"root", "vm">>]
        /\ Goes("attach")
     \/ /\ Halts
        /\ files' \in {files, files \cup {File("root", "vm", "blank")}}
        /\ vm' = vm
  /\ UNCHANGED <<asked, warned, stuck>>

(***************************************************************************)
(* ExportVmcxVirtualMachine: the machine with its snapshots, or one of     *)
(* them as a machine, exported to a working directory and moved up.        *)
(***************************************************************************)
\* Slip: all snapshots are asked for before a snapshot by its name.
SlipExported ==
  LET from(state) == {File("working", "named.vmcx", "settings"), File("working", "source", state)}
  IN CASE asked.all -> MovedTo("working", At({"named"}))
       [] asked.snapshot /\ ~asked.all -> from("first")
       [] ~asked.snapshot /\ ~asked.all /\ asked.snapshots -> from("last")
       [] OTHER -> MovedTo("working", At({"named"}))
Exported ==
  LET from(state) == {File("working", "named.vmcx", "settings"), File("working", "source", state)}
  IN CASE asked.snapshot -> from("first")
       [] ~asked.snapshot /\ ~asked.all /\ asked.snapshots -> from("last")
       [] OTHER -> MovedTo("working", At({"named"}))

\* A machine's disks are in Virtual Hard Disks.
Laid(fs) == {[f EXCEPT !.at = IF f.name \in Configs THEN "root" ELSE "hds"] : f \in fs}

\* CopyVmcxVirtualMachine copies the path's files over them.
Copied == Laid(At({"path"}))

ExportAndCopy ==
  /\ pc = "make"
  /\ asked.byName \/ asked.byPath
  /\ LET first == IF asked.byName THEN Exported ELSE {}
         second == IF asked.byPath THEN Copied ELSE {}
     IN \/ files' = Put(files \cup Laid(first), second) /\ Goes("import")
        \/ /\ Halts
           /\ \E some \in SUBSET first, moved \in SUBSET first :
                files' = files \cup (some \ moved) \cup Laid(moved)
        \/ /\ Halts
           /\ \E some \in SUBSET second : files' = Put(files \cup Laid(first), some)
  /\ UNCHANGED <<asked, vm, warned, stuck>>

(***************************************************************************)
(* ImportVmcxVirtualMachine: the first configuration found is registered   *)
(* where it is, with the disks that it names; a disk given takes the place *)
(* of its first one.                                                       *)
(***************************************************************************)
DisksOf(config) ==
  LET own == CASE config = "named.vmcx" -> {f.name : f \in At({"named"})}
               [] config = "path.vmcx" -> {f.name : f \in At({"path"})}
      here == {f.name : f \in At({"hds"})}
  IN (own \ Configs) \cap here
LeafOf(names) ==
  IF names \cap Chains # {} THEN CHOOSE n \in names : n \in Chains
  ELSE IF "vm" \in names THEN "vm" ELSE "source"

\* Slip: the disk given is attached where it is.
SlipGiven == <<"cache", "image">>
Given == <<"hds", "vm">>

Imported(config) ==
  LET names == DisksOf(config)
      first == IF names \cap Chains # {} THEN names \cap {"source", LeafOf(names)}
               ELSE {LeafOf(names)}
      rest == IF asked.image THEN names \ first ELSE names
      leaf == IF asked.image THEN Given ELSE <<"hds", LeafOf(names)>>
  IN [config |-> config, disks |-> {<<"hds", n>> : n \in rest} \cup {leaf}, leaf |-> leaf]

ImportVmcxVirtualMachine ==
  /\ pc = "import"
  /\ \E f \in At({"root"}) :
       /\ f.name \in Configs
       /\ LET image == IF asked.image THEN {File("hds", "vm", "image")} ELSE {}
          IN \/ /\ vm' = Imported(f.name) /\ files' = Put(files, image)
                /\ Goes("attach")
             \/ Halts /\ vm' = vm /\ files' \in {files, Put(files, image)}
  /\ UNCHANGED <<asked, warned, stuck>>

\* New-VHD in the build directory itself, and Add-VMHardDiskDrive.
AddVirtualMachineHardDiskDrive ==
  /\ pc = "attach"
  /\ LET vhd == IF asked.extra THEN {File("root", "vm-0", "blank")} ELSE {}
     IN \/ /\ Goes("run") /\ files' = files \cup vhd
           /\ vm' = [vm EXCEPT !.disks = @ \cup {<<f.at, f.name>> : f \in vhd}]
        \/ Halts /\ vm' = vm /\ files' \in {files, files \cup vhd}
  /\ UNCHANGED <<asked, warned, stuck>>

\* The guest is installed and provisioned; any of it may end the build.
GuestRuns ==
  /\ pc = "run" /\ (Goes("compact") \/ Halts)
  /\ files' = {CASE <<f.at, f.name>> = vm.leaf -> [f EXCEPT !.holds = "guest"]
                 [] f.at = "root" /\ f.name = "vm-0" -> [f EXCEPT !.holds = "more"]
                 [] OTHER -> f : f \in files}
  /\ UNCHANGED <<asked, vm, warned, stuck>>

\* Optimize-VHD leaves what disks hold alone; finding none is no error.
CompactDisks ==
  /\ pc = "compact"
  /\ Goes(IF asked.skipExport THEN "collate" ELSE "export") \/ Halts
  /\ UNCHANGED <<asked, files, vm, warned, stuck>>

(***************************************************************************)
(* Export-VM copies the machine's files, and nothing else of the build     *)
(* directory, to <output>/<vm name>; box.xml describes it.  Two disks of   *)
(* one name do not go into one directory.                                  *)
(***************************************************************************)
OfVm == {f \in files : <<f.at, f.name>> \in vm.disks \/ (f.at = "root" /\ f.name = vm.config)}

ExportVirtualMachine ==
  /\ pc = "export"
  /\ \/ /\ Cardinality({f.name : f \in OfVm}) = Cardinality(OfVm)
        /\ files' = files \cup MovedTo("export", OfVm) \cup {File("export", "box.xml", "settings")}
        /\ Goes("collate")
     \/ Halts /\ \E some \in SUBSET {f \in OfVm : f.at = "root"} :
                   files' = files \cup MovedTo("export", some)
  /\ UNCHANGED <<asked, vm, warned, stuck>>

(***************************************************************************)
(* MoveCreatedVHDsToOutputDir: the disks anywhere in the build directory,  *)
(* "*.vhd*", into one directory.  Move-Item replaces no file.              *)
(***************************************************************************)
\* Slip: with -Force the last one of a name is left.
SlipLanded(fs) ==
  {landed \in SUBSET MovedTo("out", fs) :
     \A f \in fs : Cardinality({g \in landed : g.name = f.name}) = 1}
\* What lies in the destination when all of fs have gone there: nothing can
\* if two have one name.
Landed(fs) ==
  {landed \in {MovedTo("out", fs)} : \A f, g \in fs : f.name = g.name => f = g}

MoveCreatedVHDsToOutputDir ==
  /\ pc = "collate" /\ asked.skipExport
  /\ LET disks == {f \in At({"root", "hds"}) : f.name \in Disks}
     IN \E moved \in SUBSET disks :
          /\ \E landed \in Landed(moved) : files' = (files \ moved) \cup landed
          /\ Halts \/ (moved = disks /\ disks # {} /\ pc' = "cleanup" /\ result' = result)
  /\ UNCHANGED <<asked, vm, warned, stuck>>

(***************************************************************************)
(* PreserveLegacyExportBehaviour moves the exported directories up, and    *)
(* removes the export's if nothing is left in it; an error is a warning.   *)
(***************************************************************************)
Directories == {Disks \cup Chains, Configs \cup {"box.xml"}}

\* Slip: what is left in the export's directory goes with it.
SlipLeft(fs) == {}
Left(fs) == fs

PreserveLegacyExportBehaviour ==
  /\ pc = "collate" /\ ~asked.skipExport
  /\ \E moved \in SUBSET Directories :
       LET goes == {f \in At({"export"}) : f.name \in UNION moved}
           left == Left(At({"export"}) \ goes)
       IN /\ files' = (files \ At({"export"})) \cup MovedTo("out", goes) \cup left
          /\ warned' = (left # {})
  /\ pc' = "cleanup" /\ result' = result
  /\ UNCHANGED <<asked, vm, stuck>>

(***************************************************************************)
(* The cleanups of StepCreateBuildDir and StepOutputDir, which only report *)
(* a directory they cannot remove; and then NewArtifact, which lists what  *)
(* the output directory holds, or fails.                                   *)
(***************************************************************************)
\* Slip: a registered machine keeps its directory however the build ends.
SlipDoomed == (IF asked.kept THEN {} ELSE BuildDir)
              \cup (IF result = "halted" THEN OutputDir ELSE {})
Doomed == (IF asked.kept /\ result # "halted" THEN {} ELSE BuildDir)
          \cup (IF result = "halted" THEN OutputDir ELSE {})

Cleanup ==
  /\ pc = "cleanup" /\ pc' = "end"
  /\ \E removed \in SUBSET At(Doomed) :
       files' = files \ removed /\ stuck' = (removed # At(Doomed))
  /\ result' = IF result = "" THEN "artifact" ELSE result
  /\ UNCHANGED <<asked, vm, warned>>

\* Artifact.Destroy, os.RemoveAll of the output directory.
Destroy ==
  /\ pc = "end" /\ result = "artifact" /\ result' = "destroyed"
  /\ files' = files \ At(OutputDir)
  /\ UNCHANGED <<asked, vm, pc, warned, stuck>>

Terminated == pc = "end" /\ UNCHANGED vars

Next ==
  \/ CreateVirtualMachine \/ ExportAndCopy \/ ImportVmcxVirtualMachine
  \/ AddVirtualMachineHardDiskDrive \/ GuestRuns \/ CompactDisks
  \/ ExportVirtualMachine \/ MoveCreatedVHDsToOutputDir \/ PreserveLegacyExportBehaviour
  \/ Cleanup \/ Destroy \/ Terminated

Spec == Init /\ [][Next]_vars

(***************************************************************************)
(* What the files promise.                                                 *)
(***************************************************************************)
Artifact == At(OutputDir)               \* what NewArtifact lists
Built == pc = "end" /\ result = "artifact"

(***************************************************************************)
(* SourcesUntouched: the machine cloned, the directory copied and the disk *)
(* attached are what they were, whatever fails, until the build ends and   *)
(* after its artifact is destroyed.                                        *)
(***************************************************************************)
SourcesUntouched == At(Sources) = SourceFiles(asked)

(***************************************************************************)
(* CloneStartsAsAsked: a clone of one source starts from the snapshot with *)
(* the name given, from the last one if "the value given is an empty       *)
(* string" (vmcx/builder.go:62), or from the machine as it is with all of  *)
(* its snapshots; a disk that is given replaces its first.                 *)
(***************************************************************************)
CloneStartsAsAsked ==
  pc = "attach" /\ asked.byName # asked.byPath =>
    \E f \in files :
      /\ <<f.at, f.name>> = vm.leaf
      /\ f.holds = CASE asked.image -> "image"
                    [] asked.byName /\ asked.snapshot /\ ~asked.image -> "first"
                    [] asked.byName /\ asked.snapshots /\ ~asked.snapshot
                         /\ ~asked.all /\ ~asked.image -> "last"
                    [] OTHER -> "now"

(***************************************************************************)
(* ArtifactIsGuest: a build that succeeds hands over what the guest wrote, *)
(* on each of its disks, but for the snapshots of a clone whose export is  *)
(* skipped: "*.vhd*" (hyperv.go:993) does not find the disk it wrote to.   *)
(***************************************************************************)
ArtifactIsGuest ==
  Built =>
    /\ \/ \E f \in Artifact : f.holds = "guest"
       \/ asked.skipExport /\ vm.leaf[2] \in Chains
    /\ asked.extra => \E f \in Artifact : f.name = "vm-0" /\ f.holds = "more"
    /\ <<"hds", "vm-0">> \in vm.disks => \E f \in Artifact : f.holds = "data"

(***************************************************************************)
(* ExportIsWhole: an exported machine has its configuration, box.xml and   *)
(* every disk, with none that the machine does not use, and all of them    *)
(* "directly under <output directory>" (step_collate_artifacts.go:77)      *)
(* unless the build has warned of it.                                      *)
(***************************************************************************)
ExportIsWhole ==
  Built /\ ~asked.skipExport =>
    /\ {f.name : f \in Artifact} = {vm.config, "box.xml"} \cup {d[2] : d \in vm.disks}
    /\ warned \/ At({"export"}) = {}

(***************************************************************************)
(* NothingStrays: when a build has ended and every directory it wanted     *)
(* removed is gone, its files are the artifact and, if the machine is to   *)
(* be kept, the build directory of a build that succeeded.                 *)
(***************************************************************************)
NothingStrays ==
  pc = "end" /\ ~stuck =>
    \A f \in files :
      \/ f.at \in Sources
      \/ f.at \in OutputDir /\ result = "artifact"
      \/ f.at \in BuildDir /\ asked.kept /\ result \in {"artifact", "destroyed"}
=============================================================================
