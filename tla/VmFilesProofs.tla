--------------------------- MODULE VmFilesProofs ---------------------------
(***************************************************************************)
(* Where the files of a build are and what they hold, for every set of     *)
(* templates.                                                              *)
(*                                                                         *)
(* The argument: no two files are in one place and nothing is written to   *)
(* the sources (FilesInv); what ExportAndCopy lays in the build directory  *)
(* comes from the sources, disk by disk (LaidInv), so the machine that is  *)
(* registered there has a file for each disk, and the guest's writes are   *)
(* on the one it started from (MachineInv); those files and no others are  *)
(* what the artifact is made of (HandedInv).                               *)
(***************************************************************************)
EXTENDS VmFiles, FiniteSetTheorems, TLAPS

Places == Sources \cup BuildDir \cup OutputDir
AFile == [at : Places, name : Names, holds : Holds]
ADisk == {"root", "hds"} \X (Disks \cup Chains)
AMachine == [config : Configs, disks : SUBSET ADisk, leaf : ADisk]

\* No two files of fs are in one place; no two have one name.
Unique(fs) == \A f, g \in fs : SamePlace(f, g) => f = g
Named(fs) == \A f, g \in fs : f.name = g.name => f = g

\* The machine is registered, and its files are still in the build directory.
HasMachine ==
  pc \in {"attach", "run", "compact", "export"} \/ (pc = "collate" /\ asked.skipExport)
\* The artifact is in the output directory.
HandedOver ==
  (pc = "collate" /\ ~asked.skipExport) \/ (pc \in {"cleanup", "end"} /\ result \in {"", "artifact"})

ControlInv ==
  /\ asked \in Template
  /\ pc \in {"make", "import", "attach", "run", "compact", "export", "collate", "cleanup", "end"}
  /\ pc \in {"make", "import", "attach", "run", "compact", "export", "collate"} => result = ""
  /\ pc = "cleanup" => result \in {"", "halted"}
  /\ pc = "end" => result \in {"halted", "artifact", "destroyed"}
  /\ pc = "export" => ~asked.skipExport
  /\ warned \in BOOLEAN /\ stuck \in BOOLEAN

FilesInv ==
  /\ files \subseteq AFile /\ Unique(files)
  /\ At(Sources) = SourceFiles(asked)
  /\ pc = "make" => At(BuildDir) = {}
  /\ pc \in {"make", "import", "attach"} => \A f \in At({"root"}) : f.name # "vm-0"
  /\ pc \in {"make", "import", "attach", "run", "compact", "export"} => At(OutputDir) = {}
  /\ pc = "collate" => At(IF asked.skipExport THEN OutputDir ELSE {"out"}) = {}

\* The disks a clone of the machine alone starts from.
FromNamed(f) ==
  \/ /\ f.name = "source"
     /\ \/ f.holds = "first" /\ (asked.snapshot \/ (asked.snapshots /\ asked.all))
        \/ f.holds = "last" /\ ~asked.snapshot /\ asked.snapshots /\ ~asked.all
        \/ f.holds = "now" /\ ~asked.snapshot /\ ~asked.snapshots
  \/ /\ f.name = "named.avhdx" /\ f.holds = "now"
     /\ asked.snapshots /\ asked.all /\ ~asked.snapshot

LaidInv ==
  pc = "import" =>
    /\ \A f \in At({"root"}) : \/ f.name = "named.vmcx" /\ asked.byName
                               \/ f.name = "path.vmcx" /\ asked.byPath
    /\ asked.byName => \E f \in At({"hds"}) : f.name = "source"
    /\ \A f \in At({"path"}) : f.name \notin Configs => \E g \in At({"hds"}) : g.name = f.name
    /\ \A f \in At({"hds"}) : /\ f.name \in {"source", "vm", "vm-0"} \cup Chains
                              /\ f.name = "vm-0" => f.holds = "data"
    /\ ~asked.byPath => \A f \in At({"hds"}) : FromNamed(f)
    /\ asked.snapshots /\ asked.all /\ ~asked.snapshot /\ asked.byName =>
         \E f \in At({"hds"}) : f.name = "named.avhdx"
    /\ ~asked.byName => \A f \in At({"hds"}) : File("path", f.name, f.holds) \in files

MachineInv ==
  /\ vm = NoVm \/ (vm \in AMachine /\ vm.leaf \in vm.disks)
  /\ pc \in {"make", "import"} => vm = NoVm
  /\ HasMachine =>
       /\ vm # NoVm
       /\ \E f \in files : f.at = "root" /\ f.name = vm.config
       /\ \A d \in vm.disks : \E f \in files : <<f.at, f.name>> = d
       /\ vm.leaf[2] # "vm-0"
       /\ <<"hds", "vm-0">> \in vm.disks => File("hds", "vm-0", "data") \in files
       /\ asked.extra /\ pc # "attach" => <<"root", "vm-0">> \in vm.disks
       /\ pc \in {"compact", "export", "collate"} =>
            /\ File(vm.leaf[1], vm.leaf[2], "guest") \in files
            /\ asked.extra => File("root", "vm-0", "more") \in files

HandedInv ==
  HandedOver =>
    /\ \/ \E f \in Artifact : f.holds = "guest"
       \/ asked.skipExport /\ vm.leaf[2] \in Chains
    /\ asked.extra => \E f \in Artifact : f.name = "vm-0" /\ f.holds = "more"
    /\ <<"hds", "vm-0">> \in vm.disks => \E f \in Artifact : f.holds = "data"
    /\ ~asked.skipExport =>
         {f.name : f \in Artifact} = {vm.config, "box.xml"} \cup {d[2] : d \in vm.disks}
    /\ ~asked.skipExport /\ pc # "collate" => warned \/ At({"export"}) = {}

-----------------------------------------------------------------------------
(***************************************************************************)
(* What the operators on files do.                                         *)
(***************************************************************************)
LEMMA FilesFinite == IsFiniteSet(AFile)
<1> DEFINE triples == (Places \X Names) \X Holds
           make == [x \in triples |-> [at |-> x[1][1], name |-> x[1][2], holds |-> x[2]]]
<1>1. ASSUME NEW a, NEW b, NEW c PROVE IsFiniteSet({a, b, c})
  <2>1. IsFiniteSet({a}) /\ IsFiniteSet({b}) /\ IsFiniteSet({c})
    BY FS_Singleton
  <2>2. IsFiniteSet({a} \cup {b})
    BY <2>1, FS_Union
  <2>3. IsFiniteSet(({a} \cup {b}) \cup {c})
    BY <2>1, <2>2, FS_Union
  <2>4. {a, b, c} = ({a} \cup {b}) \cup {c}
    OBVIOUS
  <2> QED
    BY <2>3, <2>4
<1>2. IsFiniteSet(Places) /\ IsFiniteSet(Names) /\ IsFiniteSet(Holds)
  <2>1. Places = {"named", "path", "cache"} \cup {"root", "hds", "working"} \cup {"out", "export", "out"}
    BY DEF Places, Sources, BuildDir, OutputDir
  <2>2. Names = {"named.vmcx", "path.vmcx", "vm.vmcx"} \cup {"named.avhdx", "path.avhdx", "box.xml"}
                  \cup ({"vm", "vm-0", "source"} \cup {"image", "image", "image"})
    BY DEF Names, Configs, Chains, Disks
  <2>3. Holds = {"settings", "blank", "image"} \cup {"first", "last", "now"} \cup {"guest", "data", "more"}
    BY DEF Holds
  <2> QED
    BY <1>1, <2>1, <2>2, <2>3, FS_Union
<1>3. IsFiniteSet(Places \X Names) /\ IsFiniteSet(triples)
  BY <1>2, FS_Product
<1>4. make \in Surjection(triples, AFile)
  <2>1. make \in [triples -> AFile]
    BY DEF AFile
  <2>2. ASSUME NEW f \in AFile PROVE \E x \in triples : make[x] = f
    <3>1. <<<<f.at, f.name>>, f.holds>> \in triples
      BY DEF AFile
    <3>2. make[<<<<f.at, f.name>>, f.holds>>] = f
      BY <3>1 DEF AFile
    <3> QED
      BY <3>1, <3>2
  <2> QED
    BY <2>1, <2>2 DEF Surjection
<1> QED
  BY <1>3, <1>4, FS_Surjection

\* As many names as files: no two of them have one name.
LEMMA SameNames ==
  ASSUME NEW fs, fs \subseteq AFile, Cardinality({f.name : f \in fs}) = Cardinality(fs)
  PROVE  Named(fs)
<1> DEFINE names == {f.name : f \in fs}
           name == [f \in fs |-> f.name]
<1>1. name \in Surjection(fs, names)
  BY DEF Surjection
<1>2. IsFiniteSet(fs)
  BY FilesFinite, FS_Subset
<1>3. name \in Injection(fs, names)
  <2> HIDE DEF name
  <2> QED
    BY <1>1, <1>2, FS_Surjection
<1> QED
  BY <1>3 DEF Injection, IsInjective, Named

LEMMA UniquePart ==
  ASSUME NEW fs, NEW part \in SUBSET fs, Unique(fs)
  PROVE  Unique(part)
BY DEF Unique

LEMMA UniqueUnion ==
  ASSUME NEW fs, NEW gs, Unique(fs), Unique(gs), \A f \in fs, g \in gs : ~SamePlace(f, g)
  PROVE  Unique(fs \cup gs)
BY DEF Unique, SamePlace

\* Files that are put replace those in their places.
LEMMA UniquePut ==
  ASSUME NEW old, NEW new, old \subseteq AFile, new \subseteq AFile, Unique(old), Unique(new)
  PROVE  /\ Unique(Put(old, new)) /\ Put(old, new) \subseteq AFile
         /\ new \subseteq Put(old, new) /\ Put(old, new) \subseteq old \cup new
         /\ \A f \in old : \E g \in Put(old, new) : SamePlace(f, g)
         /\ \A f \in old : (\A g \in new : ~SamePlace(f, g)) => f \in Put(old, new)
BY DEF Unique, SamePlace, Put

\* Files of one place keep their names, and files with distinct names any place.
LEMMA UniqueMoved ==
  ASSUME NEW place \in Places, NEW fs, fs \subseteq AFile
  PROVE  /\ MovedTo(place, fs) \subseteq AFile
         /\ \A g \in MovedTo(place, fs) : g.at = place
         /\ Named(fs) => Unique(MovedTo(place, fs))
         /\ \A f \in fs : File(place, f.name, f.holds) \in MovedTo(place, fs)
         /\ \A g \in MovedTo(place, fs) : \E f \in fs : g = File(place, f.name, f.holds)
BY DEF MovedTo, AFile, Unique, SamePlace, Named, File

LEMMA UniqueLaid ==
  ASSUME NEW fs, fs \subseteq AFile
  PROVE  /\ Laid(fs) \subseteq AFile
         /\ Named(fs) => Unique(Laid(fs))
         /\ \A f \in fs : File(IF f.name \in Configs THEN "root" ELSE "hds", f.name, f.holds) \in Laid(fs)
         /\ \A g \in Laid(fs) : \E f \in fs :
              g = File(IF f.name \in Configs THEN "root" ELSE "hds", f.name, f.holds)
BY DEF Laid, AFile, Unique, SamePlace, Named, File, Places, BuildDir

\* What the sources hold: files with a name of their own in each place.
LEMMA Originals ==
  ASSUME NEW t \in Template
  PROVE  /\ SourceFiles(t) \subseteq AFile /\ Unique(SourceFiles(t))
         /\ \A f \in SourceFiles(t) : f.at \in Sources
BY DEF SourceFiles, File, AFile, Unique, SamePlace, Template, Places, Sources, Names, Configs,
       Chains, Disks, Holds

-----------------------------------------------------------------------------
(***************************************************************************)
(* The order of the steps, and what each result means.                     *)
(***************************************************************************)
LEMMA ControlStep == ControlInv /\ [Next]_vars => ControlInv'
BY DEF ControlInv, Next, vars, CreateVirtualMachine, ExportAndCopy, ImportVmcxVirtualMachine,
       AddVirtualMachineHardDiskDrive, GuestRuns, CompactDisks, ExportVirtualMachine,
       MoveCreatedVHDsToOutputDir, PreserveLegacyExportBehaviour, Cleanup, Destroy,
       Terminated, Goes, Halts

(***************************************************************************)
(* Where files may appear and where they stay.                             *)
(***************************************************************************)
\* A source is what it was when its files stay and none joins them.
LEMMA SourcesStay ==
  ASSUME FilesInv, asked' = asked,
         \A f \in files : f.at \in Sources => f \in files',
         \A f \in files' : f.at \in Sources => f \in files
  PROVE  At(Sources)' = SourceFiles(asked)'
BY DEF FilesInv, At, SourceFiles

LEMMA ExportedFiles ==
  ASSUME FilesInv
  PROVE  /\ Exported \subseteq AFile /\ Named(Exported)
         /\ \A f \in Exported : f.at = "working"
<1> DEFINE from(state) == {File("working", "named.vmcx", "settings"), File("working", "source", state)}
<1>1. \A state \in Holds : /\ from(state) \subseteq AFile /\ Named(from(state))
                           /\ \A f \in from(state) : f.at = "working"
  BY DEF File, AFile, Places, BuildDir, Names, Configs, Disks, Holds, Named
<1>2. At({"named"}) \subseteq AFile /\ Named(At({"named"}))
  BY DEF FilesInv, At, Unique, SamePlace, Named
<1>3. /\ MovedTo("working", At({"named"})) \subseteq AFile
      /\ Named(MovedTo("working", At({"named"})))
      /\ \A f \in MovedTo("working", At({"named"})) : f.at = "working"
  <2>1. "working" \in Places
    BY DEF Places, BuildDir
  <2>2. /\ MovedTo("working", At({"named"})) \subseteq AFile
        /\ \A f \in MovedTo("working", At({"named"})) : f.at = "working"
        /\ Unique(MovedTo("working", At({"named"})))
    BY <1>2, <2>1, UniqueMoved
  <2> QED
    BY <2>2 DEF Unique, SamePlace, Named
<1>4. \/ \E state \in {"first", "last"} : Exported = from(state)
      \/ Exported = MovedTo("working", At({"named"}))
  BY DEF Exported
<1> QED
  BY <1>1, <1>3, <1>4 DEF Holds

LEMMA CopiedFiles ==
  ASSUME FilesInv
  PROVE  /\ Copied \subseteq AFile /\ Unique(Copied)
         /\ \A f \in Copied : f.at \in {"root", "hds"} /\ (f.at = "root" => f.name \in Configs)
<1>1. At({"path"}) \subseteq AFile /\ Named(At({"path"}))
  BY DEF FilesInv, At, Unique, SamePlace, Named
<1> QED
  BY <1>1, UniqueLaid DEF Copied, File

LEMMA FilesStep ==
  ASSUME ControlInv, FilesInv, MachineInv, [Next]_vars
  PROVE  FilesInv'
<1> USE DEF Goes, Halts, File
<1>0. files \subseteq AFile /\ Unique(files)
  BY DEF FilesInv
<1>1. CASE CreateVirtualMachine
  <2> DEFINE new == files' \ files
  <2>1. files' = files \cup new /\ Unique(new)
        /\ \A f \in new : \/ f = File("root", "vm.vmcx", "settings")
                          \/ f = File("root", "vm", "image") \/ f = File("root", "vm", "blank")
    <3>1. \/ files' = files
          \/ \E h \in {"image", "blank"} :
               files' = files \cup {File("root", "vm", h), File("root", "vm.vmcx", "settings")}
          \/ files' = files \cup {File("root", "vm", "blank")}
      BY <1>1 DEF CreateVirtualMachine
    <3> QED
      BY <3>1 DEF Unique, SamePlace
  <2>2. pc = "make" /\ asked' = asked /\ pc' \in {"attach", "cleanup"}
    BY <1>1 DEF CreateVirtualMachine
  <2>3. new \subseteq AFile /\ \A f \in new : f.at = "root" /\ f.name # "vm-0"
    BY <2>1 DEF AFile, Places, BuildDir, Names, Configs, Disks, Holds
  <2>4. \A f \in files : f.at \in Sources
    BY <2>2 DEF FilesInv, At, AFile, Places
  <2>5. Unique(files')
    BY <1>0, <2>1, <2>3, <2>4, UniqueUnion DEF SamePlace, Sources
  <2>6. At(Sources)' = SourceFiles(asked)'
    BY <2>1, <2>2, <2>3, SourcesStay DEF Sources
  <2> QED
    BY <1>0, <2>1, <2>2, <2>3, <2>4, <2>5, <2>6
       DEF FilesInv, At, Sources, OutputDir, BuildDir
<1>2. CASE ExportAndCopy
  <2> DEFINE first == IF asked.byName THEN Exported ELSE {}
             second == IF asked.byPath THEN Copied ELSE {}
  <2>1. /\ pc = "make" /\ asked' = asked /\ pc' \in {"import", "cleanup"}
        /\ \/ files' = Put(files \cup Laid(first), second)
           \/ \E some \in SUBSET first, moved \in SUBSET first :
                pc' = "cleanup" /\ files' = files \cup (some \ moved) \cup Laid(moved)
           \/ \E some \in SUBSET second : files' = Put(files \cup Laid(first), some)
    BY <1>2 DEF ExportAndCopy
  <2>2. first \subseteq AFile /\ Named(first) /\ \A f \in first : f.at = "working"
    BY ExportedFiles DEF Named
  <2>3. second \subseteq AFile /\ Unique(second)
        /\ \A f \in second : f.at \in {"root", "hds"} /\ (f.at = "root" => f.name \in Configs)
    BY CopiedFiles DEF Unique
  <2>4. \A f \in files : f.at \in Sources
    BY <2>1 DEF FilesInv, At, AFile, Places
  <2>5. ASSUME NEW moved \in SUBSET first
        PROVE  /\ files \cup Laid(moved) \subseteq AFile /\ Unique(files \cup Laid(moved))
               /\ \A f \in Laid(moved) : f.at \in {"root", "hds"} /\ (f.at = "root" => f.name \in Configs)
    <3>1. Named(moved) /\ moved \subseteq AFile
      BY <2>2 DEF Named
    <3>2. /\ Laid(moved) \subseteq AFile /\ Unique(Laid(moved))
          /\ \A f \in Laid(moved) : f.at \in {"root", "hds"} /\ (f.at = "root" => f.name \in Configs)
      BY <3>1, UniqueLaid
    <3> QED
      BY <1>0, <2>4, <3>2, UniqueUnion DEF SamePlace, Sources
  <2> DEFINE InBuild(fs) == \A f \in fs : \/ f \in files
                                          \/ f.at \in {"root", "hds"} /\ (f.at = "root" => f.name \in Configs)
                                          \/ f.at = "working"
  <2>6. ASSUME \E some \in SUBSET second : files' = Put(files \cup Laid(first), some)
        PROVE  Unique(files') /\ files' \subseteq AFile /\ InBuild(files') /\ files \subseteq files'
    <3>1. PICK some \in SUBSET second : files' = Put(files \cup Laid(first), some)
      BY <2>6
    <3>2. some \subseteq AFile /\ Unique(some)
      BY <2>3 DEF Unique
    <3>3. files \cup Laid(first) \subseteq AFile /\ Unique(files \cup Laid(first))
      BY <2>5
    <3>4. /\ Unique(files') /\ files' \subseteq AFile
          /\ files' \subseteq (files \cup Laid(first)) \cup some
          /\ \A f \in files : (\A g \in some : ~SamePlace(f, g)) => f \in files'
      BY <3>1, <3>2, <3>3, UniquePut, ZenonT(60)
    <3>5. \A f \in files : f \in files'
      BY <2>3, <2>4, <3>4 DEF SamePlace, Sources
    <3> QED
      BY <2>3, <2>5, <3>4, <3>5
  <2>7. ASSUME \E some \in SUBSET first, moved \in SUBSET first :
                 pc' = "cleanup" /\ files' = files \cup (some \ moved) \cup Laid(moved)
        PROVE  Unique(files') /\ files' \subseteq AFile /\ InBuild(files') /\ files \subseteq files'
    <3>1. PICK some \in SUBSET first, moved \in SUBSET first :
                pc' = "cleanup" /\ files' = files \cup (some \ moved) \cup Laid(moved)
      BY <2>7
    <3>2. Unique(some \ moved) /\ some \ moved \subseteq AFile
      BY <2>2 DEF Unique, Named, SamePlace
    <3>3. files' = (files \cup Laid(moved)) \cup (some \ moved)
      BY <3>1
    <3>4. \A f \in files \cup Laid(moved), g \in some \ moved : ~SamePlace(f, g)
      BY <2>2, <2>4, <2>5 DEF SamePlace, Sources
    <3>5. Unique(files') /\ files' \subseteq AFile
      BY <2>5, <3>2, <3>3, <3>4, UniqueUnion
    <3> QED
      BY <2>2, <2>5, <3>3, <3>5
  <2>8. Unique(files') /\ files' \subseteq AFile /\ InBuild(files') /\ files \subseteq files'
    <3>1. CASE files' = Put(files \cup Laid(first), second)
      BY <2>6, <3>1
    <3> QED
      BY <2>1, <2>6, <2>7, <3>1
  <2>9. At(Sources)' = SourceFiles(asked)'
    BY <2>1, <2>8, SourcesStay DEF Sources
  <2> HIDE DEF first, second
  <2> QED
    BY <2>1, <2>4, <2>8, <2>9 DEF FilesInv, At, Sources, OutputDir, Configs
<1>3. CASE ImportVmcxVirtualMachine
  <2> DEFINE image == {File("hds", "vm", "image")}
  <2>1. /\ pc = "import" /\ asked' = asked /\ pc' \in {"attach", "cleanup"}
        /\ files' = files \/ files' = Put(files, image) \/ files' = Put(files, {})
    BY <1>3 DEF ImportVmcxVirtualMachine
  <2>2. CASE files' = files
    BY <1>0, <2>1, <2>2 DEF FilesInv, At, SourceFiles
  <2>3. ASSUME NEW new \in {image, {}}, files' = Put(files, new) PROVE FilesInv'
    <3>1. new \subseteq AFile /\ Unique(new) /\ \A f \in new : f.at = "hds"
      BY DEF AFile, Places, BuildDir, Names, Disks, Holds, Unique
    <3>2. /\ Unique(files') /\ files' \subseteq AFile
          /\ files' \subseteq files \cup new
          /\ \A f \in files : (\A g \in new : ~SamePlace(f, g)) => f \in files'
      BY <1>0, <2>3, <3>1, UniquePut
    <3>3. At(Sources)' = SourceFiles(asked)'
      BY <2>1, <3>1, <3>2, SourcesStay DEF Sources, SamePlace
    <3> QED
      BY <2>1, <3>1, <3>2, <3>3 DEF FilesInv, At, OutputDir
  <2> QED
    BY <2>1, <2>2, <2>3
<1>4. CASE AddVirtualMachineHardDiskDrive
  <2>1. /\ pc = "attach" /\ asked' = asked /\ pc' \in {"run", "cleanup"}
        /\ files' = files \/ files' = files \cup {File("root", "vm-0", "blank")}
    BY <1>4 DEF AddVirtualMachineHardDiskDrive
  <2>2. CASE files' = files
    BY <1>0, <2>1, <2>2 DEF FilesInv, At, SourceFiles
  <2>3. CASE files' = files \cup {File("root", "vm-0", "blank")}
    <3>1. {File("root", "vm-0", "blank")} \subseteq AFile /\ Unique({File("root", "vm-0", "blank")})
      BY DEF AFile, Places, BuildDir, Names, Disks, Holds, Unique
    <3>2. \A f \in files, g \in {File("root", "vm-0", "blank")} : ~SamePlace(f, g)
      BY <2>1 DEF FilesInv, At, SamePlace
    <3>3. Unique(files') /\ files' \subseteq AFile
      BY <1>0, <2>3, <3>1, <3>2, UniqueUnion
    <3>4. At(Sources)' = SourceFiles(asked)'
      BY <2>1, <2>3, SourcesStay DEF Sources
    <3> QED
      BY <2>1, <2>3, <3>3, <3>4 DEF FilesInv, At, OutputDir
  <2> QED
    BY <2>1, <2>2, <2>3
<1>5. CASE GuestRuns
  <2> DEFINE after(f) == CASE <<f.at, f.name>> = vm.leaf -> [f EXCEPT !.holds = "guest"]
                           [] f.at = "root" /\ f.name = "vm-0" -> [f EXCEPT !.holds = "more"]
                           [] OTHER -> f
  <2>1. /\ pc = "run" /\ asked' = asked /\ pc' \in {"compact", "cleanup"}
        /\ files' = {after(f) : f \in files}
    BY <1>5 DEF GuestRuns
  <2>2. \A f \in files : SamePlace(after(f), f) /\ after(f) \in AFile
    BY <1>0 DEF AFile, SamePlace, Holds
  <2>3. vm.leaf \in {"root", "hds"} \X (Disks \cup Chains)
    BY <2>1 DEF MachineInv, HasMachine, AMachine, ADisk
  <2>4. \A f \in files : f.at \in Sources => after(f) = f
    BY <1>0, <2>3 DEF AFile, Sources
  <2> HIDE DEF after
  <2>5. Unique(files') /\ files' \subseteq AFile
    BY <1>0, <2>1, <2>2 DEF Unique, SamePlace
  <2>6. At(Sources)' = SourceFiles(asked)'
    BY <2>1, <2>2, <2>4, SourcesStay DEF SamePlace
  <2> QED
    BY <2>1, <2>2, <2>5, <2>6 DEF FilesInv, At, SamePlace
<1>6. CASE CompactDisks
  BY <1>6 DEF CompactDisks, FilesInv, At, SourceFiles, OutputDir
<1>7. CASE ExportVirtualMachine
  <2>1. pc = "export" /\ asked' = asked /\ ~asked.skipExport
    BY <1>7 DEF ExportVirtualMachine, ControlInv
  <2>2. \A f \in files : f.at \notin OutputDir
    BY <2>1 DEF FilesInv, At
  <2>3. "export" \in Places /\ OfVm \subseteq files /\ OfVm \subseteq AFile
    BY <1>0 DEF Places, OutputDir, OfVm
  <2>4. ASSUME NEW fs \in SUBSET AFile, Named(fs), NEW box \in SUBSET {File("export", "box.xml", "settings")},
               \A f \in fs : f.name # "box.xml", files' = files \cup MovedTo("export", fs) \cup box
        PROVE  /\ Unique(files') /\ files' \subseteq AFile /\ At(Sources)' = SourceFiles(asked)'
               /\ \A f \in files' : f \in files \/ f.at = "export"
    <3>1. /\ MovedTo("export", fs) \subseteq AFile /\ Unique(MovedTo("export", fs))
          /\ \A g \in MovedTo("export", fs) : g.at = "export" /\ g.name # "box.xml"
      BY <2>3, <2>4, UniqueMoved
    <3>2. box \subseteq AFile /\ Unique(box) /\ \A f \in box : f.at = "export" /\ f.name = "box.xml"
      BY DEF AFile, Places, OutputDir, Names, Holds, Unique
    <3>3. Unique(MovedTo("export", fs) \cup box) /\ MovedTo("export", fs) \cup box \subseteq AFile
      BY <3>1, <3>2, UniqueUnion DEF SamePlace
    <3>4. \A f \in files, g \in MovedTo("export", fs) \cup box : ~SamePlace(f, g)
      BY <2>2, <3>1, <3>2 DEF SamePlace, OutputDir
    <3>5. files' = files \cup (MovedTo("export", fs) \cup box)
      BY <2>4
    <3>6. Unique(files') /\ files' \subseteq AFile
      BY <1>0, <3>3, <3>4, <3>5, UniqueUnion
    <3>7. At(Sources)' = SourceFiles(asked)'
      BY <2>1, <3>1, <3>2, <3>5, SourcesStay DEF Sources
    <3> QED
      BY <3>1, <3>2, <3>5, <3>6, <3>7
  <2>5. \A f \in OfVm : f.name # "box.xml"
    <3>1. vm \in AMachine
      BY <2>1 DEF MachineInv, HasMachine
    <3> QED
      BY <3>1 DEF OfVm, AMachine, ADisk, Disks, Chains, Configs
  <2>6. CASE pc' = "collate"
    <3>1. /\ Cardinality({f.name : f \in OfVm}) = Cardinality(OfVm)
          /\ files' = files \cup MovedTo("export", OfVm) \cup {File("export", "box.xml", "settings")}
      BY <1>7, <2>6 DEF ExportVirtualMachine
    <3>2. Named(OfVm)
      BY <2>3, <3>1, SameNames
    <3>3. /\ Unique(files') /\ files' \subseteq AFile /\ At(Sources)' = SourceFiles(asked)'
          /\ \A f \in files' : f \in files \/ f.at = "export"
      BY <2>3, <2>4, <2>5, <3>1, <3>2
    <3> QED
      BY <2>1, <2>2, <2>6, <3>3 DEF FilesInv, At, OutputDir
  <2>7. CASE pc' = "cleanup"
    <3>1. PICK some \in SUBSET {f \in OfVm : f.at = "root"} :
            files' = files \cup MovedTo("export", some)
      BY <1>7, <2>7 DEF ExportVirtualMachine
    <3>2. Named(some) /\ some \in SUBSET AFile /\ \A f \in some : f.name # "box.xml"
      BY <1>0, <2>3, <2>5 DEF Named, Unique, SamePlace
    <3>3. files' = files \cup MovedTo("export", some) \cup {}
      BY <3>1
    <3>4. /\ Unique(files') /\ files' \subseteq AFile /\ At(Sources)' = SourceFiles(asked)'
      BY <2>4, <3>2, <3>3
    <3> QED
      BY <2>7, <3>4 DEF FilesInv
  <2> QED
    BY <1>7, <2>6, <2>7 DEF ExportVirtualMachine
<1>8. CASE MoveCreatedVHDsToOutputDir
  <2>1. pc = "collate" /\ asked' = asked /\ pc' = "cleanup" /\ asked.skipExport
    BY <1>8 DEF MoveCreatedVHDsToOutputDir
  <2>2. PICK moved \in SUBSET {f \in At({"root", "hds"}) : f.name \in Disks} :
          \E landed \in Landed(moved) : files' = (files \ moved) \cup landed
    BY <1>8 DEF MoveCreatedVHDsToOutputDir
  <2>3. files' = (files \ moved) \cup MovedTo("out", moved) /\ Named(moved)
    BY <2>2 DEF Landed, Named
  <2>4. moved \subseteq AFile /\ "out" \in Places /\ \A f \in moved : f.at \in {"root", "hds"}
    BY <1>0, <2>2 DEF At, Places, OutputDir
  <2>5. /\ MovedTo("out", moved) \subseteq AFile /\ Unique(MovedTo("out", moved))
        /\ \A g \in MovedTo("out", moved) : g.at = "out"
    BY <2>3, <2>4, UniqueMoved
  <2>6. \A f \in files : f.at # "out"
    BY <2>1 DEF FilesInv, At, OutputDir
  <2>7. Unique(files \ moved) /\ files \ moved \subseteq AFile
        /\ \A f \in files \ moved, g \in MovedTo("out", moved) : ~SamePlace(f, g)
    BY <1>0, <2>5, <2>6 DEF Unique, SamePlace
  <2>8. Unique(files') /\ files' \subseteq AFile
    BY <2>3, <2>5, <2>7, UniqueUnion
  <2>9. At(Sources)' = SourceFiles(asked)'
    BY <2>1, <2>3, <2>4, <2>5, SourcesStay DEF Sources
  <2> QED
    BY <2>1, <2>8, <2>9 DEF FilesInv
<1>9. CASE PreserveLegacyExportBehaviour
  <2>1. pc = "collate" /\ asked' = asked /\ pc' = "cleanup" /\ ~asked.skipExport
    BY <1>9 DEF PreserveLegacyExportBehaviour
  <2>2. PICK goes \in SUBSET At({"export"}) :
          files' = (files \ At({"export"})) \cup MovedTo("out", goes) \cup (At({"export"}) \ goes)
    BY <1>9 DEF PreserveLegacyExportBehaviour, Left
  <2>3. files' = (files \ goes) \cup MovedTo("out", goes)
    BY <2>2 DEF At
  <2>4. /\ goes \subseteq AFile /\ "out" \in Places /\ Named(goes)
        /\ \A f \in goes : f.at = "export"
    BY <1>0, <2>2 DEF At, Places, OutputDir, Named, Unique, SamePlace
  <2>5. /\ MovedTo("out", goes) \subseteq AFile /\ Unique(MovedTo("out", goes))
        /\ \A g \in MovedTo("out", goes) : g.at = "out"
    BY <2>4, UniqueMoved
  <2>6. \A f \in files : f.at # "out"
    BY <2>1 DEF FilesInv, At
  <2>7. Unique(files \ goes) /\ files \ goes \subseteq AFile
        /\ \A f \in files \ goes, g \in MovedTo("out", goes) : ~SamePlace(f, g)
    BY <1>0, <2>5, <2>6 DEF Unique, SamePlace
  <2>8. Unique(files') /\ files' \subseteq AFile
    BY <2>3, <2>5, <2>7, UniqueUnion
  <2>9. At(Sources)' = SourceFiles(asked)'
    BY <2>1, <2>3, <2>4, <2>5, SourcesStay DEF Sources
  <2> QED
    BY <2>1, <2>8, <2>9 DEF FilesInv
<1>10. CASE Cleanup \/ Destroy
  <2>1. /\ files' \subseteq files /\ asked' = asked /\ pc' = "end"
        /\ \A f \in files : f.at \in Sources => f \in files'
    BY <1>10 DEF Cleanup, Destroy, At, Doomed, Sources, BuildDir, OutputDir
  <2>2. Unique(files') /\ files' \subseteq AFile /\ At(Sources)' = SourceFiles(asked)'
    BY <1>0, <2>1, UniquePart, SourcesStay
  <2> QED
    BY <2>1, <2>2 DEF FilesInv
<1>11. CASE UNCHANGED vars
  BY <1>11 DEF vars, FilesInv, At, SourceFiles
<1> QED
  BY <1>1, <1>2, <1>3, <1>4, <1>5, <1>6, <1>7, <1>8, <1>9, <1>10, <1>11 DEF Next, Terminated

-----------------------------------------------------------------------------
(***************************************************************************)
(* What is laid in the build directory for a machine to be imported.       *)
(***************************************************************************)
LEMMA NamedFiles ==
  ASSUME FilesInv, asked.byName
  PROVE  At({"named"}) =
           {File("named", "named.vmcx", "settings")}
           \cup (IF asked.snapshots
                 THEN {File("named", "source", "first"), File("named", "named.avhdx", "now")}
                 ELSE {File("named", "source", "now")})
<1>1. At({"named"}) = {f \in SourceFiles(asked) : f.at = "named"}
  BY DEF FilesInv, At, Sources
<1> QED
  BY <1>1 DEF SourceFiles, File

LEMMA PathFiles ==
  ASSUME FilesInv
  PROVE  /\ ~asked.byPath => At({"path"}) = {}
         /\ asked.byPath => At({"path"}) =
              {File("path", "path.vmcx", "settings")}
              \cup (IF asked.snapshots
                    THEN {File("path", "source", "first"), File("path", "path.avhdx", "now")}
                    ELSE IF asked.rebuilt
                    THEN {File("path", "vm", "now"), File("path", "vm-0", "data")}
                    ELSE {File("path", "source", "now")})
<1>1. At({"path"}) = {f \in SourceFiles(asked) : f.at = "path"}
  BY DEF FilesInv, At, Sources
<1> QED
  BY <1>1 DEF SourceFiles, File

LEMMA ExportedHolds ==
  ASSUME FilesInv, asked.byName
  PROVE  /\ \A f \in Exported : f.name = "named.vmcx" \/ FromNamed(f)
         /\ \E f \in Exported : f.name = "source"
         /\ asked.snapshots /\ asked.all /\ ~asked.snapshot =>
              \E f \in Exported : f.name = "named.avhdx"
<1> DEFINE from(state) == {File("working", "named.vmcx", "settings"), File("working", "source", state)}
<1>1. CASE asked.snapshot
  <2>1. Exported = from("first")
    BY <1>1 DEF Exported
  <2> QED
    BY <1>1, <2>1 DEF File, FromNamed
<1>2. CASE ~asked.snapshot /\ asked.snapshots /\ ~asked.all
  <2>1. Exported = from("last")
    BY <1>2 DEF Exported
  <2> QED
    BY <1>2, <2>1 DEF File, FromNamed
<1>3. CASE ~asked.snapshot /\ (~asked.snapshots \/ asked.all)
  <2>1. Exported = MovedTo("working", At({"named"}))
    BY <1>3 DEF Exported
  <2>2. /\ \A f \in At({"named"}) : f.name = "named.vmcx" \/ FromNamed(f)
        /\ \E f \in At({"named"}) : f.name = "source"
        /\ asked.snapshots => \E f \in At({"named"}) : f.name = "named.avhdx"
    <3>1. CASE asked.snapshots
      <4>1. At({"named"}) = {File("named", "named.vmcx", "settings"), File("named", "source", "first"),
                             File("named", "named.avhdx", "now")}
        BY <3>1, NamedFiles
      <4>2. /\ File("named", "source", "first").name = "source"
            /\ File("named", "named.avhdx", "now").name = "named.avhdx"
        BY DEF File
      <4>3. \A f \in At({"named"}) : f.name = "named.vmcx" \/ FromNamed(f)
        BY <1>3, <3>1, <4>1 DEF File, FromNamed
      <4> QED
        BY <4>1, <4>2, <4>3
    <3>2. CASE ~asked.snapshots
      <4>1. At({"named"}) = {File("named", "named.vmcx", "settings"), File("named", "source", "now")}
        BY <3>2, NamedFiles
      <4>2. File("named", "source", "now").name = "source"
        BY DEF File
      <4>3. \A f \in At({"named"}) : f.name = "named.vmcx" \/ FromNamed(f)
        BY <1>3, <3>2, <4>1 DEF File, FromNamed
      <4> QED
        BY <3>2, <4>1, <4>2, <4>3
    <3> QED
      BY <3>1, <3>2
  <2>3. "working" \in Places /\ At({"named"}) \subseteq AFile
    BY DEF Places, BuildDir, At, FilesInv
  <2>4. /\ \A f \in At({"named"}) : File("working", f.name, f.holds) \in Exported
        /\ \A g \in Exported : \E f \in At({"named"}) : g = File("working", f.name, f.holds)
    BY <2>1, <2>3, UniqueMoved
  <2>5. \A f, g : g = File("working", f.name, f.holds) => g.name = f.name /\ (FromNamed(f) => FromNamed(g))
    BY DEF File, FromNamed
  <2> QED
    BY <1>3, <2>2, <2>4, <2>5
<1> QED
  BY <1>1, <1>2, <1>3

LEMMA LaidStep ==
  ASSUME ControlInv, FilesInv, LaidInv, [Next]_vars, FilesInv'
  PROVE  LaidInv'
<1> SUFFICES ASSUME pc' = "import" PROVE LaidInv'
  BY DEF LaidInv
<1>1. CASE UNCHANGED vars
  BY <1>1 DEF vars, LaidInv, At, FromNamed
<1>2. CASE ExportAndCopy
  <2> DEFINE first == IF asked.byName THEN Exported ELSE {}
             second == IF asked.byPath THEN Copied ELSE {}
  <2>1. /\ pc = "make" /\ asked' = asked /\ files' = Put(files \cup Laid(first), second)
    BY <1>2 DEF ExportAndCopy, Goes, Halts
  <2>2. \A f \in files : f.at \in Sources
    BY <2>1 DEF FilesInv, At, AFile, Places
  <2>3. /\ first \subseteq AFile /\ Named(first) /\ \A f \in first : f.at = "working"
        /\ Laid(first) \subseteq AFile /\ Unique(Laid(first))
        /\ \A f \in first : File(IF f.name \in Configs THEN "root" ELSE "hds", f.name, f.holds) \in Laid(first)
        /\ \A g \in Laid(first) : \E f \in first :
             g = File(IF f.name \in Configs THEN "root" ELSE "hds", f.name, f.holds)
    <3>1. first \subseteq AFile /\ Named(first) /\ \A f \in first : f.at = "working"
      BY ExportedFiles DEF Named
    <3> HIDE DEF first
    <3> QED
      BY <3>1, UniqueLaid
  <2>4. /\ second \subseteq AFile /\ Unique(second)
        /\ \A f \in second : f.at \in {"root", "hds"}
    BY CopiedFiles DEF Unique
  <2>5. /\ At({"path"}) \subseteq AFile
        /\ \A f \in At({"path"}) : asked.byPath /\
             File(IF f.name \in Configs THEN "root" ELSE "hds", f.name, f.holds) \in second
        /\ \A g \in second : asked.byPath /\ \E f \in At({"path"}) :
             g = File(IF f.name \in Configs THEN "root" ELSE "hds", f.name, f.holds)
    BY UniqueLaid, PathFiles DEF Copied, FilesInv, At
  <2>6. /\ files' \subseteq (files \cup Laid(first)) \cup second /\ second \subseteq files'
        /\ \A f \in Laid(first) : \E g \in files' : SamePlace(f, g)
        /\ files \subseteq files'
    <3>1. Unique(files \cup Laid(first)) /\ files \cup Laid(first) \subseteq AFile
      BY <2>2, <2>3, UniqueUnion DEF FilesInv, File, SamePlace, Sources
    <3> HIDE DEF first, second
    <3>2. /\ files' \subseteq (files \cup Laid(first)) \cup second /\ second \subseteq files'
          /\ \A f \in files \cup Laid(first) : \E g \in files' : SamePlace(f, g)
          /\ \A f \in files \cup Laid(first) : (\A g \in second : ~SamePlace(f, g)) => f \in files'
      BY <2>1, <2>4, <3>1, UniquePut, ZenonT(60)
    <3>3. \A f \in files, g \in second : ~SamePlace(f, g)
      BY <2>2, <2>4 DEF SamePlace, Sources
    <3> QED
      BY <3>2, <3>3
  <2>7. \A f \in first : asked.byName /\ (f.name = "named.vmcx" \/ FromNamed(f))
    BY ExportedHolds
  <2>8. /\ asked.byName => \E f \in first : f.name = "source"
        /\ asked.snapshots /\ asked.all /\ ~asked.snapshot /\ asked.byName =>
             \E f \in first : f.name = "named.avhdx"
    BY ExportedHolds
  <2>9. At({"path"})' = At({"path"})
    BY <2>1, ZenonT(60) DEF FilesInv, At, Sources, SourceFiles
  <2> HIDE DEF first, second
  <2>10. \A f \in files' : f.at \in {"root", "hds"} => f \in Laid(first) \/ f \in second
    BY <2>2, <2>6 DEF Sources
  <2>11. \A f \in At({"path"}) :
           \/ f.name = "path.vmcx"
           \/ f.name \in {"source", "path.avhdx", "vm", "vm-0"} /\ (f.name = "vm-0" => f.holds = "data")
    BY PathFiles DEF File
  <2>12. \A f \in At({"root"})' : \/ f.name = "named.vmcx" /\ asked.byName
                                  \/ f.name = "path.vmcx" /\ asked.byPath
    BY <2>3, <2>5, <2>7, <2>10, <2>11 DEF At, File, FromNamed, Configs
  <2>13. \A f \in first : f.name \notin Configs => \E g \in At({"hds"})' : g.name = f.name
    <3> SUFFICES ASSUME NEW f \in first, f.name \notin Configs
                 PROVE  \E g \in At({"hds"})' : g.name = f.name
      OBVIOUS
    <3>1. File("hds", f.name, f.holds) \in Laid(first)
      BY <2>3
    <3>2. PICK g \in files' : SamePlace(File("hds", f.name, f.holds), g)
      BY <2>6, <3>1
    <3> QED
      BY <3>2 DEF At, File, SamePlace
  <2>14. \A f \in At({"path"}) : f.name \notin Configs => \E g \in At({"hds"})' : g.name = f.name
    BY <2>5, <2>6 DEF At, File
  <2>15. \A f \in At({"hds"})' : /\ f.name \in {"source", "vm", "vm-0"} \cup Chains
                                 /\ f.name = "vm-0" => f.holds = "data"
    BY <2>3, <2>5, <2>7, <2>10, <2>11 DEF At, File, FromNamed, Configs, Chains
  <2>16. ~asked.byPath => \A f \in At({"hds"})' : FromNamed(f)'
    <3> SUFFICES ASSUME ~asked.byPath, NEW f \in At({"hds"})' PROVE FromNamed(f)'
      OBVIOUS
    <3>1. f \in Laid(first) /\ f.at = "hds"
      BY <2>5, <2>10 DEF At
    <3>2. PICK g \in first : f = File(IF g.name \in Configs THEN "root" ELSE "hds", g.name, g.holds)
      BY <2>3, <3>1
    <3>3. FromNamed(g) /\ f.name = g.name /\ f.holds = g.holds
      BY <2>7, <3>1, <3>2 DEF File, Configs
    <3> QED
      BY <2>1, <3>3 DEF FromNamed
  <2>17. /\ asked.byName => \E g \in At({"hds"})' : g.name = "source"
         /\ asked.snapshots /\ asked.all /\ ~asked.snapshot /\ asked.byName =>
              \E g \in At({"hds"})' : g.name = "named.avhdx"
    BY <2>8, <2>13 DEF Configs
  <2>18. ~asked.byName => \A f \in At({"hds"})' : File("path", f.name, f.holds) \in files'
    BY <2>3, <2>5, <2>6, <2>7, <2>10 DEF At, File, AFile
  <2> QED
    BY <2>1, <2>9, <2>12, <2>14, <2>15, <2>16, <2>17, <2>18, ZenonT(60) DEF LaidInv
<1> QED
  BY <1>1, <1>2 DEF Next, CreateVirtualMachine, ImportVmcxVirtualMachine,
       AddVirtualMachineHardDiskDrive, GuestRuns, CompactDisks, ExportVirtualMachine,
       MoveCreatedVHDsToOutputDir, PreserveLegacyExportBehaviour, Cleanup, Destroy,
       Terminated, Goes, Halts, ControlInv

-----------------------------------------------------------------------------
(***************************************************************************)
(* The machine and its disks.                                              *)
(***************************************************************************)
\* The disks found on import have files; one of them is what the guest writes to.
LEMMA DisksFound ==
  ASSUME FilesInv, LaidInv, pc = "import", NEW f \in At({"root"})
  PROVE  LET names == DisksOf(f.name)
         IN /\ f.name \in Configs
            /\ names \subseteq Disks \cup Chains
            /\ \A n \in names : \E g \in At({"hds"}) : g.name = n
            /\ LeafOf(names) \in names /\ LeafOf(names) # "vm-0"
<1> DEFINE here == {g.name : g \in At({"hds"})}
           names == DisksOf(f.name)
<1>1. CASE f.name = "named.vmcx" /\ asked.byName
  <2>1. names = ({g.name : g \in At({"named"})} \ Configs) \cap here
    BY <1>1 DEF DisksOf
  <2>2. "source" \in {g.name : g \in At({"named"})} /\ "source" \in here
    <3>1. File("named", "source", "first") \in At({"named"}) \/ File("named", "source", "now") \in At({"named"})
      BY <1>1, NamedFiles
    <3> QED
      BY <1>1, <3>1 DEF LaidInv, File
  <2>3. {g.name : g \in At({"named"})} \subseteq {"named.vmcx", "source", "named.avhdx"}
    BY <1>1, NamedFiles DEF File
  <2>4. "source" \in names /\ names \subseteq {"source", "named.avhdx"} \cap here
    BY <2>1, <2>2, <2>3 DEF Configs
  <2> HIDE DEF names
  <2>5. LeafOf(names) \in names /\ LeafOf(names) # "vm-0"
    BY <2>4 DEF LeafOf, Chains
  <2> QED
    BY <1>1, <2>4, <2>5 DEF Configs, Disks, Chains, names
<1>2. CASE f.name = "path.vmcx" /\ asked.byPath
  <2> DEFINE own == {g.name : g \in At({"path"})}
  <2>1. names = (own \ Configs) \cap here
    BY <1>2 DEF DisksOf
  <2>2. \A n \in own \ Configs : n \in here
    BY <1>2 DEF LaidInv
  <2>3. \/ "source" \in own /\ own \subseteq {"path.vmcx", "source", "path.avhdx"}
        \/ "vm" \in own /\ own \subseteq {"path.vmcx", "vm", "vm-0"}
    <3>1. CASE asked.snapshots
      <4>1. At({"path"}) = {File("path", "path.vmcx", "settings"), File("path", "source", "first"),
                            File("path", "path.avhdx", "now")}
        BY <1>2, <3>1, PathFiles
      <4>2. File("path", "source", "first").name = "source"
        BY DEF File
      <4>3. own \subseteq {"path.vmcx", "source", "path.avhdx"}
        BY <4>1 DEF File
      <4> QED
        BY <4>1, <4>2, <4>3
    <3>2. CASE ~asked.snapshots /\ asked.rebuilt
      <4>1. At({"path"}) = {File("path", "path.vmcx", "settings"), File("path", "vm", "now"),
                            File("path", "vm-0", "data")}
        BY <1>2, <3>2, PathFiles
      <4>2. File("path", "vm", "now").name = "vm"
        BY DEF File
      <4>3. own \subseteq {"path.vmcx", "vm", "vm-0"}
        BY <4>1 DEF File
      <4> QED
        BY <4>1, <4>2, <4>3
    <3>3. CASE ~asked.snapshots /\ ~asked.rebuilt
      <4>1. At({"path"}) = {File("path", "path.vmcx", "settings"), File("path", "source", "now")}
        BY <1>2, <3>3, PathFiles
      <4>2. File("path", "source", "now").name = "source"
        BY DEF File
      <4>3. own \subseteq {"path.vmcx", "source", "path.avhdx"}
        BY <4>1 DEF File
      <4> QED
        BY <4>1, <4>2, <4>3
    <3> QED
      BY <3>1, <3>2, <3>3
  <2> HIDE DEF own
  <2>4. /\ names \subseteq here
        /\ \/ "source" \in names /\ names \subseteq {"source", "path.avhdx"}
           \/ "vm" \in names /\ names \subseteq {"vm", "vm-0"}
    BY <2>1, <2>2, <2>3 DEF Configs
  <2> HIDE DEF names
  <2>5. LeafOf(names) \in names /\ LeafOf(names) # "vm-0"
    BY <2>4 DEF LeafOf, Chains
  <2> QED
    BY <1>2, <2>4, <2>5 DEF Configs, Disks, Chains, names
<1> QED
  BY <1>1, <1>2 DEF LaidInv

\* A machine with a configuration of its own is a machine.
LEMMA MachineMade ==
  ASSUME NEW m, NEW config \in Configs, NEW disks \in SUBSET ADisk, NEW leaf \in disks,
         m = [config |-> config, disks |-> disks, leaf |-> leaf]
  PROVE  /\ m \in AMachine /\ m # NoVm
         /\ m.config = config /\ m.disks = disks /\ m.leaf = leaf
<1>1. m.config = config /\ NoVm.config = "" /\ "" \notin Configs
  BY DEF NoVm, Configs
<1>2. m \in AMachine /\ m.disks = disks /\ m.leaf = leaf
  BY DEF AMachine
<1> QED
  BY <1>1, <1>2

LEMMA MachineStep ==
  ASSUME ControlInv, FilesInv, LaidInv, MachineInv, [Next]_vars
  PROVE  MachineInv'
<1> USE DEF Goes, Halts
<1>0. files \subseteq AFile
  BY DEF FilesInv
<1>1. CASE pc' = "cleanup" /\ vm' = vm
  BY <1>1 DEF MachineInv, HasMachine
<1>2. CASE CreateVirtualMachine /\ pc' = "attach"
  <2> DEFINE disk == File("root", "vm", IF asked.image THEN "image" ELSE "blank")
             config == File("root", "vm.vmcx", "settings")
  <2>1. /\ asked' = asked /\ files' = files \cup {disk, config}
        /\ vm' = [config |-> "vm.vmcx", disks |-> {<<"root", "vm">>}, leaf |-> <<"root", "vm">>]
    BY <1>2 DEF CreateVirtualMachine
  <2>2. /\ vm' \in AMachine /\ vm' # NoVm /\ vm'.config = "vm.vmcx"
        /\ vm'.disks = {<<"root", "vm">>} /\ vm'.leaf = <<"root", "vm">>
    <3>1. "vm.vmcx" \in Configs /\ {<<"root", "vm">>} \in SUBSET ADisk
      BY DEF Configs, ADisk, Disks
    <3> QED
      BY <2>1, <3>1, MachineMade
  <2>3. config \in files' /\ config.at = "root" /\ config.name = vm'.config
    BY <2>1, <2>2 DEF File
  <2>4. disk \in files' /\ \A d \in vm'.disks : <<disk.at, disk.name>> = d
    BY <2>1, <2>2 DEF File
  <2>5. <<"hds", "vm-0">> \notin vm'.disks
    BY <2>2
  <2> HIDE DEF disk, config
  <2> QED
    BY <1>2, <2>2, <2>3, <2>4, <2>5 DEF MachineInv, HasMachine
<1>3. CASE ExportAndCopy
  BY <1>3 DEF ExportAndCopy, MachineInv, HasMachine
<1>4. CASE ImportVmcxVirtualMachine /\ pc' = "attach"
  <2> DEFINE new == IF asked.image THEN {File("hds", "vm", "image")} ELSE {}
  <2>1. PICK f \in At({"root"}) : vm' = Imported(f.name)
    BY <1>4 DEF ImportVmcxVirtualMachine
  <2>2. pc = "import" /\ asked' = asked /\ files' = Put(files, new)
    BY <1>4 DEF ImportVmcxVirtualMachine
  <2> DEFINE names == DisksOf(f.name)
             first == IF names \cap Chains # {} THEN names \cap {"source", LeafOf(names)}
                      ELSE {LeafOf(names)}
             rest == IF asked.image THEN names \ first ELSE names
             leaf == IF asked.image THEN <<"hds", "vm">> ELSE <<"hds", LeafOf(names)>>
  <2>3. vm' = [config |-> f.name, disks |-> {<<"hds", n>> : n \in rest} \cup {leaf}, leaf |-> leaf]
    BY <2>1 DEF Imported, Given
  <2>4. /\ f.name \in Configs /\ names \subseteq Disks \cup Chains
        /\ \A n \in names : \E g \in At({"hds"}) : g.name = n
        /\ LeafOf(names) \in names /\ LeafOf(names) # "vm-0"
    BY <2>2, DisksFound
  <2>5. rest \subseteq names
    OBVIOUS
  <2>6. /\ \A g \in files : \E h \in files' : SamePlace(g, h)
        /\ \A g \in files : g.at # "hds" \/ g.name # "vm" => g \in files'
        /\ asked.image => File("hds", "vm", "image") \in files'
    <3>1. new \subseteq AFile /\ Unique(new) /\ \A g \in new : g.at = "hds" /\ g.name = "vm"
      BY DEF File, AFile, Places, BuildDir, Names, Disks, Holds, Unique
    <3>2. asked.image => File("hds", "vm", "image") \in new
      OBVIOUS
    <3> HIDE DEF new
    <3> QED
      BY <2>2, <3>1, <3>2, UniquePut DEF FilesInv, SamePlace
  <2> HIDE DEF new, names, rest, first
  <2>7. \A n \in names : \E g \in files' : g.at = "hds" /\ g.name = n
    BY <2>4, <2>6 DEF At, SamePlace
  <2>8. /\ vm' \in AMachine /\ vm' # NoVm /\ vm'.config = f.name
        /\ vm'.disks = {<<"hds", n>> : n \in rest} \cup {leaf} /\ vm'.leaf = leaf
    <3>1. \A n \in names : <<"hds", n>> \in ADisk
      BY <2>4 DEF ADisk
    <3>2. <<"hds", "vm">> \in ADisk
      BY DEF ADisk, Disks
    <3>3. leaf \in ADisk /\ {<<"hds", n>> : n \in rest} \cup {leaf} \in SUBSET ADisk
      BY <2>4, <2>5, <3>1, <3>2
    <3> HIDE DEF leaf
    <3> QED
      BY <2>3, <2>4, <3>3, MachineMade
  <2>9. \E g \in files' : g.at = "root" /\ g.name = vm'.config
    BY <2>6, <2>8 DEF At
  <2>10. \A d \in vm'.disks : \E g \in files' : <<g.at, g.name>> = d
    <3>1. \A n \in rest : \E g \in files' : <<g.at, g.name>> = <<"hds", n>>
      BY <2>5, <2>7
    <3>2. \E g \in files' : <<g.at, g.name>> = leaf
      <4>1. CASE asked.image
        BY <2>6, <4>1 DEF File
      <4>2. CASE ~asked.image
        BY <2>4, <2>7, <4>2
      <4> QED
        BY <4>1, <4>2
    <3> QED
      BY <2>8, <3>1, <3>2
  <2>11. <<"hds", "vm-0">> \in vm'.disks => File("hds", "vm-0", "data") \in files'
    <3> SUFFICES ASSUME <<"hds", "vm-0">> \in vm'.disks PROVE File("hds", "vm-0", "data") \in files'
      OBVIOUS
    <3>1. "vm-0" \in names
      BY <2>4, <2>5, <2>8
    <3>2. PICK g \in At({"hds"}) : g.name = "vm-0"
      BY <2>4, <3>1
    <3>3. g \in files /\ g = File("hds", "vm-0", "data")
      BY <1>0, <2>2, <3>2 DEF LaidInv, At, AFile, File
    <3> QED
      BY <2>6, <3>2, <3>3
  <2>12. vm'.leaf[2] # "vm-0"
    BY <2>4, <2>8
  <2> QED
    BY <1>4, <2>8, <2>12, <2>9, <2>10, <2>11 DEF MachineInv, HasMachine
<1>5. CASE AddVirtualMachineHardDiskDrive /\ pc' = "run"
  <2> DEFINE vhd == IF asked.extra THEN {File("root", "vm-0", "blank")} ELSE {}
             more == {<<f.at, f.name>> : f \in vhd}
  <2>1. /\ pc = "attach" /\ asked' = asked /\ files' = files \cup vhd
        /\ vm' = [vm EXCEPT !.disks = @ \cup more]
    BY <1>5 DEF AddVirtualMachineHardDiskDrive
  <2>2. vm \in AMachine /\ vm.leaf \in vm.disks
    BY <2>1 DEF MachineInv, HasMachine
  <2>3. more = IF asked.extra THEN {<<"root", "vm-0">>} ELSE {}
    <3>1. CASE asked.extra
      BY <3>1 DEF File
    <3>2. CASE ~asked.extra
      BY <3>2
    <3> QED
      BY <3>1, <3>2
  <2>4. /\ vm' \in AMachine /\ vm'.config = vm.config /\ vm'.leaf = vm.leaf
        /\ vm'.disks = vm.disks \cup more
        /\ vm' # NoVm
    <3>1. more \subseteq ADisk
      BY <2>3 DEF ADisk, Disks
    <3> HIDE DEF more
    <3>2. vm' = [config |-> vm.config, disks |-> vm.disks \cup more, leaf |-> vm.leaf]
      BY <2>1, <2>2 DEF AMachine
    <3>3. vm.config \in Configs /\ vm.disks \cup more \in SUBSET ADisk /\ vm.leaf \in vm.disks \cup more
      BY <2>2, <3>1 DEF AMachine
    <3> QED
      BY <3>2, <3>3, MachineMade
  <2>6. \A d \in more : \E f \in files' : <<f.at, f.name>> = d
    BY <2>1
  <2> HIDE DEF vhd, more
  <2> QED
    BY <1>5, <2>1, <2>2, <2>3, <2>4, <2>6 DEF MachineInv, HasMachine
<1>6. CASE GuestRuns /\ pc' = "compact"
  <2> DEFINE after(f) == CASE <<f.at, f.name>> = vm.leaf -> [f EXCEPT !.holds = "guest"]
                           [] f.at = "root" /\ f.name = "vm-0" -> [f EXCEPT !.holds = "more"]
                           [] OTHER -> f
  <2>1. /\ pc = "run" /\ asked' = asked /\ vm' = vm
        /\ files' = {after(f) : f \in files}
    BY <1>6 DEF GuestRuns
  <2>2. vm \in AMachine /\ vm.leaf \in vm.disks /\ vm.leaf[2] # "vm-0" /\ vm # NoVm
    BY <2>1 DEF MachineInv, HasMachine
  <2>3. \A f \in files :
          /\ <<f.at, f.name>> = vm.leaf => after(f) = File(f.at, f.name, "guest")
          /\ <<f.at, f.name>> # vm.leaf /\ f.at = "root" /\ f.name = "vm-0" =>
               after(f) = File(f.at, f.name, "more")
          /\ <<f.at, f.name>> # vm.leaf /\ ~(f.at = "root" /\ f.name = "vm-0") => after(f) = f
    <3> SUFFICES ASSUME NEW f \in files
                 PROVE  /\ <<f.at, f.name>> = vm.leaf => after(f) = File(f.at, f.name, "guest")
                        /\ <<f.at, f.name>> # vm.leaf /\ f.at = "root" /\ f.name = "vm-0" =>
                             after(f) = File(f.at, f.name, "more")
                        /\ <<f.at, f.name>> # vm.leaf /\ ~(f.at = "root" /\ f.name = "vm-0") =>
                             after(f) = f
      OBVIOUS
    <3>1. /\ [f EXCEPT !.holds = "guest"] = File(f.at, f.name, "guest")
          /\ [f EXCEPT !.holds = "more"] = File(f.at, f.name, "more")
      BY <1>0 DEF AFile, File
    <3>2. <<f.at, f.name>> = vm.leaf => after(f) = [f EXCEPT !.holds = "guest"]
      BY <2>2
    <3>3. <<f.at, f.name>> # vm.leaf /\ f.at = "root" /\ f.name = "vm-0" =>
            after(f) = [f EXCEPT !.holds = "more"]
      OBVIOUS
    <3>4. <<f.at, f.name>> # vm.leaf /\ ~(f.at = "root" /\ f.name = "vm-0") => after(f) = f
      OBVIOUS
    <3> HIDE DEF after
    <3> QED
      BY <3>1, <3>2, <3>3, <3>4
  <2> HIDE DEF after
  <2>4. \A f \in files : SamePlace(after(f), f) /\ after(f) \in files'
    BY <2>1, <2>3 DEF SamePlace, File
  <2>5. File(vm.leaf[1], vm.leaf[2], "guest") \in files'
    <3>1. PICK f \in files : <<f.at, f.name>> = vm.leaf
      BY <2>1, <2>2 DEF MachineInv, HasMachine
    <3>2. vm.leaf[1] = f.at /\ vm.leaf[2] = f.name
      BY <3>1
    <3> QED
      BY <2>3, <2>4, <3>1, <3>2
  <2>6. asked.extra => File("root", "vm-0", "more") \in files'
    <3> SUFFICES ASSUME asked.extra PROVE File("root", "vm-0", "more") \in files'
      OBVIOUS
    <3>1. PICK f \in files : <<f.at, f.name>> = <<"root", "vm-0">>
      BY <2>1 DEF MachineInv, HasMachine
    <3>2. <<f.at, f.name>> # vm.leaf
      BY <2>2, <3>1
    <3>3. after(f) = File("root", "vm-0", "more")
      BY <2>3, <3>1, <3>2
    <3> QED
      BY <2>4, <3>3
  <2>7. <<"hds", "vm-0">> \in vm'.disks => File("hds", "vm-0", "data") \in files'
    <3> SUFFICES ASSUME <<"hds", "vm-0">> \in vm'.disks PROVE File("hds", "vm-0", "data") \in files'
      OBVIOUS
    <3>1. File("hds", "vm-0", "data") \in files
      BY <2>1 DEF MachineInv, HasMachine
    <3>2. <<"hds", "vm-0">> # vm.leaf
      BY <2>2
    <3>3. after(File("hds", "vm-0", "data")) = File("hds", "vm-0", "data")
      BY <2>3, <3>1, <3>2 DEF File
    <3> QED
      BY <2>4, <3>1, <3>3
  <2>8. /\ \E f \in files' : f.at = "root" /\ f.name = vm'.config
        /\ \A d \in vm'.disks : \E f \in files' : <<f.at, f.name>> = d
    <3>1. /\ \E f \in files : f.at = "root" /\ f.name = vm.config
          /\ \A d \in vm.disks : \E f \in files : <<f.at, f.name>> = d
      BY <2>1 DEF MachineInv, HasMachine
    <3> QED
      BY <2>1, <2>4, <3>1 DEF SamePlace
  <2> QED
    BY <1>6, <2>1, <2>2, <2>5, <2>6, <2>7, <2>8 DEF MachineInv, HasMachine
<1>7. CASE CompactDisks
  BY <1>7 DEF CompactDisks, MachineInv, HasMachine
<1>8. CASE ExportVirtualMachine \/ PreserveLegacyExportBehaviour \/ Cleanup \/ Destroy
  BY <1>8 DEF ExportVirtualMachine, PreserveLegacyExportBehaviour, Cleanup, Destroy,
              MachineInv, HasMachine, ControlInv
<1>9. CASE UNCHANGED vars
  BY <1>9 DEF vars, MachineInv, HasMachine
<1> QED
  BY <1>1, <1>2, <1>3, <1>4, <1>5, <1>6, <1>7, <1>8, <1>9 DEF Next, Terminated,
     CreateVirtualMachine, ImportVmcxVirtualMachine, AddVirtualMachineHardDiskDrive, GuestRuns,
     MoveCreatedVHDsToOutputDir

-----------------------------------------------------------------------------
(***************************************************************************)
(* What is handed over.                                                    *)
(***************************************************************************)
\* Files that keep their names and contents hand over the same machine.
LEMMA HandedKept ==
  ASSUME HandedInv, HandedOver, asked' = asked, vm' = vm,
         \A f \in Artifact : \E g \in Artifact' : g.name = f.name /\ g.holds = f.holds,
         \A g \in Artifact' : \E f \in Artifact : g.name = f.name,
         ~asked.skipExport /\ pc' # "collate" => warned' \/ At({"export"})' = {}
  PROVE  HandedInv'
<1>1. {g.name : g \in Artifact'} = {f.name : f \in Artifact}
  OBVIOUS
<1>2. /\ (\E f \in Artifact : f.holds = "guest") => \E g \in Artifact' : g.holds = "guest"
      /\ (\E f \in Artifact : f.name = "vm-0" /\ f.holds = "more") =>
           \E g \in Artifact' : g.name = "vm-0" /\ g.holds = "more"
      /\ (\E f \in Artifact : f.holds = "data") => \E g \in Artifact' : g.holds = "data"
  OBVIOUS
<1> HIDE DEF Artifact
<1> QED
  BY <1>1, <1>2 DEF HandedInv

LEMMA HandedStep ==
  ASSUME ControlInv, FilesInv, MachineInv, HandedInv, [Next]_vars
  PROVE  HandedInv'
<1> USE DEF Goes, Halts
<1> SUFFICES ASSUME HandedOver' PROVE HandedInv'
  BY DEF HandedInv
<1>0. files \subseteq AFile
  BY DEF FilesInv
<1>1. CASE ExportVirtualMachine
  <2>1. /\ pc = "export" /\ asked' = asked /\ vm' = vm /\ ~asked.skipExport /\ pc' = "collate"
        /\ files' = files \cup MovedTo("export", OfVm) \cup {File("export", "box.xml", "settings")}
    BY <1>1 DEF ExportVirtualMachine, HandedOver, ControlInv
  <2>2. /\ \A f \in OfVm : File("export", f.name, f.holds) \in MovedTo("export", OfVm)
        /\ \A g \in MovedTo("export", OfVm) : g.at = "export" /\ \E f \in OfVm : g = File("export", f.name, f.holds)
    <3>1. "export" \in Places /\ OfVm \subseteq AFile
      BY <1>0 DEF Places, OutputDir, OfVm
    <3> QED
      BY <3>1, UniqueMoved
  <2>3. Artifact' = MovedTo("export", OfVm) \cup {File("export", "box.xml", "settings")}
    <3>1. File("export", "box.xml", "settings").at = "export"
      BY DEF File
    <3>2. \A f \in files : f.at \notin OutputDir
      BY <2>1 DEF FilesInv, At
    <3> QED
      BY <2>1, <2>2, <3>1, <3>2 DEF Artifact, At, OutputDir
  <2>4. /\ vm \in AMachine /\ vm.leaf \in vm.disks
        /\ \E f \in files : f.at = "root" /\ f.name = vm.config
        /\ \A d \in vm.disks : \E f \in files : <<f.at, f.name>> = d
        /\ <<"hds", "vm-0">> \in vm.disks => File("hds", "vm-0", "data") \in files
        /\ asked.extra => <<"root", "vm-0">> \in vm.disks /\ File("root", "vm-0", "more") \in files
        /\ File(vm.leaf[1], vm.leaf[2], "guest") \in files
    BY <2>1 DEF MachineInv, HasMachine
  <2>5. \A at, name, holds : File(at, name, holds) \in files /\ <<at, name>> \in vm.disks =>
          \E g \in Artifact' : g.name = name /\ g.holds = holds
    <3> SUFFICES ASSUME NEW at, NEW name, NEW holds, File(at, name, holds) \in files,
                        <<at, name>> \in vm.disks
                 PROVE  \E g \in Artifact' : g.name = name /\ g.holds = holds
      OBVIOUS
    <3>1. File(at, name, holds) \in OfVm
      BY DEF OfVm, File
    <3>2. File("export", name, holds) \in Artifact'
      BY <2>2, <2>3, <3>1 DEF File
    <3> QED
      BY <3>2 DEF File
  <2>6. \E g \in Artifact' : g.holds = "guest"
    <3>1. <<vm.leaf[1], vm.leaf[2]>> = vm.leaf
      BY <2>4 DEF AMachine, ADisk
    <3> QED
      BY <2>4, <2>5, <3>1
  <2>7. /\ asked.extra => \E g \in Artifact' : g.name = "vm-0" /\ g.holds = "more"
        /\ <<"hds", "vm-0">> \in vm.disks => \E g \in Artifact' : g.holds = "data"
    BY <2>4, <2>5
  <2>8. {f.name : f \in Artifact'} = {vm.config, "box.xml"} \cup {d[2] : d \in vm.disks}
    <3>1. \A n : (\E f \in OfVm : f.name = n) <=> n = vm.config \/ n \in {d[2] : d \in vm.disks}
      <4>1. ASSUME NEW f \in OfVm PROVE f.name = vm.config \/ f.name \in {d[2] : d \in vm.disks}
        BY DEF OfVm
      <4>2. \E f \in OfVm : f.name = vm.config
        BY <2>4 DEF OfVm
      <4>3. ASSUME NEW d \in vm.disks PROVE \E f \in OfVm : f.name = d[2]
        <5>1. PICK f \in files : <<f.at, f.name>> = d
          BY <2>4
        <5> QED
          BY <5>1 DEF OfVm
      <4>4. ASSUME NEW n, n \in {d[2] : d \in vm.disks} PROVE \E f \in OfVm : f.name = n
        BY <4>3, <4>4
      <4> HIDE DEF OfVm
      <4> QED
        BY <4>1, <4>2, <4>4
    <3>2. \A n : (\E g \in MovedTo("export", OfVm) : g.name = n) <=> (\E f \in OfVm : f.name = n)
      <4>1. ASSUME NEW g \in MovedTo("export", OfVm) PROVE \E f \in OfVm : f.name = g.name
        BY <2>2 DEF File
      <4>2. ASSUME NEW f \in OfVm PROVE \E g \in MovedTo("export", OfVm) : g.name = f.name
        <5>1. File("export", f.name, f.holds).name = f.name
          BY DEF File
        <5> QED
          BY <2>2, <5>1
      <4> QED
        BY <4>1, <4>2
    <3>3. File("export", "box.xml", "settings").name = "box.xml"
      BY DEF File
    <3> QED
      BY <2>3, <3>1, <3>2, <3>3
  <2> QED
    BY <2>1, <2>6, <2>7, <2>8 DEF HandedInv
<1>2. CASE MoveCreatedVHDsToOutputDir
  <2> DEFINE disks == {f \in At({"root", "hds"}) : f.name \in Disks}
  <2>1. pc = "collate" /\ asked' = asked /\ vm' = vm /\ asked.skipExport /\ result = ""
    BY <1>2 DEF MoveCreatedVHDsToOutputDir, ControlInv
  <2>2. result' = ""
    BY <1>2, <2>1 DEF MoveCreatedVHDsToOutputDir, HandedOver
  <2>3. MovedTo("out", disks) \subseteq files'
    BY <1>2, <2>2 DEF MoveCreatedVHDsToOutputDir, Landed
  <2>4. \A at, name, holds :
          File(at, name, holds) \in files /\ at \in {"root", "hds"} /\ name \in Disks =>
            \E g \in Artifact' : g.name = name /\ g.holds = holds
    <3> SUFFICES ASSUME NEW at, NEW name, NEW holds, File(at, name, holds) \in files,
                        at \in {"root", "hds"}, name \in Disks
                 PROVE  \E g \in Artifact' : g.name = name /\ g.holds = holds
      OBVIOUS
    <3>1. File(at, name, holds) \in disks /\ disks \subseteq AFile /\ "out" \in Places
      BY <1>0 DEF At, File, Places, OutputDir
    <3> HIDE DEF disks
    <3>2. File("out", name, holds) \in files'
      BY <2>3, <3>1, UniqueMoved DEF File
    <3> QED
      BY <3>2 DEF Artifact, At, OutputDir, File
  <2>5. /\ vm \in AMachine
        /\ <<"hds", "vm-0">> \in vm.disks => File("hds", "vm-0", "data") \in files
        /\ asked.extra => File("root", "vm-0", "more") \in files
        /\ File(vm.leaf[1], vm.leaf[2], "guest") \in files
    BY <2>1 DEF MachineInv, HasMachine
  <2>6. vm.leaf[2] \in Chains \/ \E g \in Artifact' : g.holds = "guest"
    <3>1. vm.leaf[1] \in {"root", "hds"} /\ vm.leaf[2] \in Disks \cup Chains
      BY <2>5 DEF AMachine, ADisk
    <3> QED
      BY <2>4, <2>5, <3>1
  <2>7. /\ asked.extra => \E g \in Artifact' : g.name = "vm-0" /\ g.holds = "more"
        /\ <<"hds", "vm-0">> \in vm.disks => \E g \in Artifact' : g.holds = "data"
    <3>1. "vm-0" \in Disks
      BY DEF Disks
    <3> QED
      BY <2>4, <2>5, <3>1
  <2> QED
    BY <2>1, <2>6, <2>7 DEF HandedInv
<1>3. CASE PreserveLegacyExportBehaviour
  <2>1. /\ pc = "collate" /\ asked' = asked /\ vm' = vm /\ ~asked.skipExport /\ HandedOver
    BY <1>3 DEF PreserveLegacyExportBehaviour, HandedOver
  <2>2. PICK goes \in SUBSET At({"export"}) :
          /\ files' = (files \ At({"export"})) \cup MovedTo("out", goes) \cup (At({"export"}) \ goes)
          /\ warned' = (At({"export"}) \ goes # {})
    BY <1>3 DEF PreserveLegacyExportBehaviour, Left
  <2>3. /\ \A f \in goes : File("out", f.name, f.holds) \in MovedTo("out", goes)
        /\ \A g \in MovedTo("out", goes) : g.at = "out" /\ \E f \in goes : g = File("out", f.name, f.holds)
    <3>1. "out" \in Places /\ goes \subseteq AFile
      BY <1>0, <2>2 DEF Places, OutputDir, At
    <3> QED
      BY <3>1, UniqueMoved
  <2>4. At({"export"})' = At({"export"}) \ goes
    BY <2>2, <2>3 DEF At
  <2>5. \A f \in Artifact : \E g \in Artifact' : g.name = f.name /\ g.holds = f.holds
    <3> SUFFICES ASSUME NEW f \in Artifact
                 PROVE  \E g \in Artifact' : g.name = f.name /\ g.holds = f.holds
      OBVIOUS
    <3>1. CASE f \in goes
      <4>1. File("out", f.name, f.holds) \in files'
        BY <2>2, <2>3, <3>1
      <4> QED
        BY <4>1 DEF Artifact, At, OutputDir, File
    <3>2. CASE f \notin goes
      BY <2>2, <3>2 DEF Artifact, At
    <3> QED
      BY <3>1, <3>2
  <2>6. \A g \in Artifact' : \E f \in Artifact : g.name = f.name
    <3> SUFFICES ASSUME NEW g \in Artifact' PROVE \E f \in Artifact : g.name = f.name
      OBVIOUS
    <3>1. CASE g \in MovedTo("out", goes)
      BY <2>2, <2>3, <3>1 DEF Artifact, At, OutputDir, File
    <3>2. CASE g \notin MovedTo("out", goes)
      BY <2>2, <3>2 DEF Artifact, At
    <3> QED
      BY <3>1, <3>2
  <2> QED
    BY <2>1, <2>2, <2>4, <2>5, <2>6, HandedKept
<1>4. CASE Cleanup
  <2>1. pc = "cleanup" /\ result = "" /\ asked' = asked /\ vm' = vm /\ warned' = warned /\ HandedOver
    BY <1>4 DEF Cleanup, HandedOver, ControlInv
  <2>2. \A f \in files : f.at \in OutputDir => f \in files'
    BY <1>4, <2>1 DEF Cleanup, Doomed, At, BuildDir, OutputDir
  <2>3. files' \subseteq files
    BY <1>4 DEF Cleanup
  <2>4. Artifact' = Artifact /\ At({"export"})' = At({"export"})
    BY <2>2, <2>3 DEF Artifact, At, OutputDir
  <2>5. ~asked.skipExport => warned \/ At({"export"}) = {}
    BY <2>1 DEF HandedInv
  <2> QED
    BY <2>1, <2>4, <2>5, HandedKept
<1>5. CASE UNCHANGED vars
  BY <1>5 DEF vars, HandedInv, HandedOver, Artifact, At
<1> QED
  BY <1>1, <1>2, <1>3, <1>4, <1>5 DEF Next, Terminated, CreateVirtualMachine, ExportAndCopy,
     ImportVmcxVirtualMachine, AddVirtualMachineHardDiskDrive, GuestRuns, CompactDisks, Destroy,
     HandedOver, ControlInv

\* The disk a clone is left with on import holds what was asked for.
LEMMA CloneStep ==
  ASSUME ControlInv, FilesInv, LaidInv, CloneStartsAsAsked, [Next]_vars
  PROVE  CloneStartsAsAsked'
<1> SUFFICES ASSUME pc' = "attach", asked'.byName # asked'.byPath
             PROVE  CloneStartsAsAsked'
  BY DEF CloneStartsAsAsked
<1>1. CASE UNCHANGED vars
  BY <1>1 DEF vars, CloneStartsAsAsked
<1>2. CASE ImportVmcxVirtualMachine
  <2> DEFINE new == IF asked.image THEN {File("hds", "vm", "image")} ELSE {}
  <2>1. PICK f \in At({"root"}) : vm' = Imported(f.name)
    BY <1>2 DEF ImportVmcxVirtualMachine, Goes, Halts
  <2>2. pc = "import" /\ asked' = asked /\ files' = Put(files, new)
    BY <1>2 DEF ImportVmcxVirtualMachine, Goes, Halts
  <2>3. CASE asked.image
    <3>1. File("hds", "vm", "image") \in files'
      BY <2>2, <2>3 DEF Put
    <3>2. vm'.leaf = <<"hds", "vm">>
      BY <2>1, <2>3 DEF Imported, Given
    <3> QED
      BY <2>2, <2>3, <3>1, <3>2 DEF CloneStartsAsAsked, File
  <2>4. CASE ~asked.image
    <3> DEFINE names == DisksOf(f.name)
    <3>1. files' = files
      BY <2>2, <2>4 DEF Put
    <3>2. vm'.leaf = <<"hds", LeafOf(names)>>
      BY <2>1, <2>4 DEF Imported
    <3>3. LeafOf(names) \in names /\ \A n \in names : \E g \in At({"hds"}) : g.name = n
      BY <2>2, DisksFound
    <3>4. PICK g \in At({"hds"}) : g.name = LeafOf(names)
      BY <3>3
    <3>5. g \in files' /\ <<g.at, g.name>> = vm'.leaf
      BY <3>1, <3>2, <3>4 DEF At
    <3>6. g.holds = CASE asked.image -> "image"
                      [] asked.byName /\ asked.snapshot /\ ~asked.image -> "first"
                      [] asked.byName /\ asked.snapshots /\ ~asked.snapshot
                           /\ ~asked.all /\ ~asked.image -> "last"
                      [] OTHER -> "now"
      <4>1. LeafOf(names) # "vm-0" /\ (names \cap Chains # {} => LeafOf(names) \in Chains)
        BY <2>2, DisksFound DEF LeafOf
      <4>2. CASE asked.byName /\ ~asked.byPath
        <5>1. f.name = "named.vmcx" /\ FromNamed(g)
          BY <2>2, <3>4, <4>2 DEF LaidInv
        <5>2. ASSUME asked.snapshots, asked.all, ~asked.snapshot
              PROVE  g.name # "source"
          <6>1. \E h \in At({"hds"}) : h.name = "named.avhdx"
            BY <2>2, <4>2, <5>2 DEF LaidInv
          <6>2. File("named", "named.avhdx", "now") \in At({"named"})
            BY <4>2, <5>2, NamedFiles
          <6>3. "named.avhdx" \in {h.name : h \in At({"named"})}
            BY <6>2 DEF File
          <6>4. "named.avhdx" \in names
            BY <5>1, <6>1, <6>3 DEF DisksOf, Configs
          <6> HIDE DEF names
          <6> QED
            BY <3>4, <4>1, <6>4 DEF Chains
        <5>3. \/ g.holds = "first" /\ asked.snapshot
              \/ g.holds = "last" /\ ~asked.snapshot /\ asked.snapshots /\ ~asked.all
              \/ g.holds = "now" /\ ~asked.snapshot /\ (~asked.snapshots \/ asked.all)
          BY <5>1, <5>2 DEF FromNamed
        <5> QED
          BY <2>4, <4>2, <5>3
      <4>3. CASE asked.byPath /\ ~asked.byName
        <5>1. f.name = "path.vmcx" /\ File("path", g.name, g.holds) \in At({"path"})
          BY <2>2, <3>4, <4>3 DEF LaidInv, At, File
        <5>2. ASSUME asked.snapshots PROVE g.name \in Chains
          <6>1. File("path", "path.avhdx", "now") \in At({"path"})
            BY <4>3, <5>2, PathFiles
          <6>2. "path.avhdx" \in {h.name : h \in At({"path"})}
            BY <6>1 DEF File
          <6>3. \E h \in At({"hds"}) : h.name = "path.avhdx"
            BY <2>2, <6>1 DEF LaidInv, File, Configs
          <6>4. "path.avhdx" \in names
            BY <5>1, <6>2, <6>3 DEF DisksOf, Configs
          <6> HIDE DEF names
          <6> QED
            BY <3>4, <4>1, <6>4 DEF Chains
        <5>3. g.name # "vm-0" /\ g.name \notin Configs
          BY <2>2, <3>4, <4>1 DEF LaidInv, Configs, Chains
        <5>4. g.holds = "now"
          BY <4>3, <5>1, <5>2, <5>3, PathFiles DEF File, Chains, Configs
        <5> QED
          BY <2>4, <4>3, <5>4
      <4> QED
        BY <2>2, <4>2, <4>3 DEF ControlInv, Template
    <3> QED
      BY <2>2, <3>5, <3>6 DEF CloneStartsAsAsked
  <2> QED
    BY <2>3, <2>4
<1>3. CASE CreateVirtualMachine
  BY <1>3 DEF CreateVirtualMachine, ControlInv, Template
<1> QED
  BY <1>1, <1>2, <1>3 DEF Next, ExportAndCopy,
       AddVirtualMachineHardDiskDrive, GuestRuns, CompactDisks, ExportVirtualMachine,
       MoveCreatedVHDsToOutputDir, PreserveLegacyExportBehaviour, Cleanup, Destroy,
       Terminated, Goes, Halts, ControlInv

-----------------------------------------------------------------------------
(***************************************************************************)
(* VmFilesCorrect: the inductive invariant.  Each part needs the ones      *)
(* before it: the machine's files are where they were laid, and the        *)
(* artifact is made of the machine's files.                                *)
(***************************************************************************)
VmFilesInv ==
  ControlInv /\ FilesInv /\ LaidInv /\ MachineInv /\ HandedInv /\ CloneStartsAsAsked

THEOREM VmFilesCorrect == Spec => []VmFilesInv
<1>1. Init => VmFilesInv
  <2> SUFFICES ASSUME Init PROVE VmFilesInv
    OBVIOUS
  <2>1. asked \in Template /\ files = SourceFiles(asked) /\ vm = NoVm /\ pc = "make" /\ result = ""
        /\ warned = FALSE /\ stuck = FALSE
    BY TemplatesAssumption DEF Init
  <2>2. files \subseteq AFile /\ Unique(files) /\ \A f \in files : f.at \in Sources
    BY <2>1, Originals
  <2>3. FilesInv
    BY <2>1, <2>2 DEF FilesInv, At, Sources, BuildDir, OutputDir
  <2> QED
    BY <2>1, <2>3 DEF VmFilesInv, ControlInv, LaidInv, MachineInv, HasMachine, HandedInv,
                      HandedOver, CloneStartsAsAsked
<1>2. VmFilesInv /\ [Next]_vars => VmFilesInv'
  BY ControlStep, FilesStep, LaidStep, MachineStep, HandedStep, CloneStep DEF VmFilesInv
<1> QED
  BY <1>1, <1>2, PTL DEF Spec

(***************************************************************************)
(* TypeCorrect: every file is of a kind the build knows, no two are in one *)
(* place, and the machine has a configuration and the disk it writes to:   *)
(* neither a copy, nor a move, nor a new disk lands on a file of its name. *)
(***************************************************************************)
THEOREM TypeCorrect == Spec => []TypeOK
<1>1. VmFilesInv => TypeOK
  <2> SUFFICES ASSUME VmFilesInv PROVE TypeOK
    OBVIOUS
  <2>1. \A f \in files : f.at \in Sources \cup BuildDir \cup OutputDir
                         /\ f.name \in Names /\ f.holds \in Holds
    BY DEF VmFilesInv, FilesInv, AFile, Places
  <2>2. vm = NoVm \/ (vm.config \in Configs /\ vm.leaf \in vm.disks)
    BY DEF VmFilesInv, MachineInv, AMachine
  <2> QED
    BY <2>1, <2>2 DEF VmFilesInv, ControlInv, FilesInv, Unique, TypeOK
<1> QED
  BY <1>1, VmFilesCorrect, PTL

(***************************************************************************)
(* SourcesSafe: the machine cloned, the directory copied and the disk      *)
(* attached are what they were, whatever fails, and with every mix of the  *)
(* settings: the disk the guest writes to is one in the build directory.   *)
(***************************************************************************)
THEOREM SourcesSafe == Spec => []SourcesUntouched
<1>1. VmFilesInv => SourcesUntouched
  BY DEF VmFilesInv, FilesInv, SourcesUntouched
<1> QED
  BY <1>1, VmFilesCorrect, PTL

(***************************************************************************)
(* CloneAsAsked: a clone of one source starts from the state of it that    *)
(* the template names, or from the disk that is given.                     *)
(***************************************************************************)
THEOREM CloneAsAsked == Spec => []CloneStartsAsAsked
<1>1. VmFilesInv => CloneStartsAsAsked
  BY DEF VmFilesInv
<1> QED
  BY <1>1, VmFilesCorrect, PTL

(***************************************************************************)
(* GuestHandedOver: a build that succeeds hands over what the guest wrote  *)
(* on each of its disks, but for the snapshots of a clone whose export is  *)
(* skipped.                                                                *)
(***************************************************************************)
THEOREM GuestHandedOver == Spec => []ArtifactIsGuest
<1>1. VmFilesInv => ArtifactIsGuest
  BY DEF VmFilesInv, HandedInv, HandedOver, ArtifactIsGuest, Built
<1> QED
  BY <1>1, VmFilesCorrect, PTL

(***************************************************************************)
(* WholeExport: an exported machine has its configuration, box.xml and     *)
(* every disk it uses, and no other file; all are directly in the output   *)
(* directory unless the build has warned.                                  *)
(***************************************************************************)
THEOREM WholeExport == Spec => []ExportIsWhole
<1>1. VmFilesInv => ExportIsWhole
  BY DEF VmFilesInv, HandedInv, HandedOver, ExportIsWhole, Built
<1> QED
  BY <1>1, VmFilesCorrect, PTL

(***************************************************************************)
(* StraysRemoved: when a build has ended and every directory it wanted     *)
(* removed is gone, its files are the artifact and, for a machine to be    *)
(* kept, its build directory.                                              *)
(***************************************************************************)
THEOREM StraysRemoved == Spec => []NothingStrays
<1>1. Init => NothingStrays
  BY DEF Init, NothingStrays
<1>2. VmFilesInv /\ NothingStrays /\ [Next]_vars => NothingStrays'
  <2> SUFFICES ASSUME VmFilesInv, NothingStrays, [Next]_vars, pc' = "end", ~stuck',
                      NEW f \in files', f.at \notin Sources
               PROVE  \/ f.at \in OutputDir /\ result' = "artifact"
                      \/ f.at \in BuildDir /\ asked'.kept /\ result' \in {"artifact", "destroyed"}
    BY DEF NothingStrays, Sources
  <2>1. CASE Cleanup
    <3>1. f \in files /\ f \notin At(Doomed)
      BY <2>1 DEF Cleanup
    <3>2. f.at \in BuildDir \cup OutputDir
      BY <3>1 DEF VmFilesInv, FilesInv, AFile, Places
    <3>3. f.at \notin Doomed /\ asked' = asked /\ result \in {"", "halted"}
          /\ result' = IF result = "" THEN "artifact" ELSE result
      BY <2>1, <3>1 DEF At, Cleanup, VmFilesInv, ControlInv
    <3> QED
      BY <3>2, <3>3 DEF Doomed
  <2>2. CASE Destroy
    <3>1. f \in files /\ f.at \notin OutputDir /\ pc = "end" /\ ~stuck /\ asked' = asked
          /\ result = "artifact" /\ result' = "destroyed"
      BY <2>2 DEF Destroy, At
    <3> QED
      BY <3>1 DEF NothingStrays
  <2>3. CASE UNCHANGED vars
    BY <2>3 DEF vars, NothingStrays
  <2> QED
    BY <2>1, <2>2, <2>3 DEF Next, Terminated, CreateVirtualMachine, ExportAndCopy,
       ImportVmcxVirtualMachine, AddVirtualMachineHardDiskDrive, GuestRuns, CompactDisks,
       ExportVirtualMachine, MoveCreatedVHDsToOutputDir, PreserveLegacyExportBehaviour,
       Goes, Halts, VmFilesInv, ControlInv
<1> QED
  BY <1>1, <1>2, VmFilesCorrect, PTL DEF Spec
=============================================================================
