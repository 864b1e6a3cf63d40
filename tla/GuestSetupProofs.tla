--------------------------- MODULE GuestSetupProofs ---------------------------
(***************************************************************************)
(* Theorems about GuestSetup, for every set of templates and every width   *)
(* of an unsigned integer.                                                 *)
(*                                                                         *)
(* The argument: the driver calls have a fixed order (Rank), and each of   *)
(* them is in the list just in case the configuration wants it (Wanted).   *)
(* What is left of the list is, at any time, all the wanted calls from     *)
(* some rank on (Queue).  The machine is then known setting by setting     *)
(* from the calls that are not pending any more (Settings, Boots), its     *)
(* disks and drives from how many calls of the two kinds that are repeated *)
(* are left (Disks, Dvds).                                                 *)
(***************************************************************************)
EXTENDS GuestSetup, SequenceTheorems, TLAPS

(***************************************************************************)
(* The calls in their order, what each is wanted for, and its size.        *)
(***************************************************************************)
Names ==
  {"CreateVirtualMachine", "CloneVirtualMachine", "ReplaceVirtualMachineNetworkAdapter",
   "SetVirtualMachineDynamicMemory", "SetVirtualMachineMacSpoofing",
   "SetVirtualMachineSecureBoot", "SetVirtualMachineTPM",
   "SetVirtualMachineVirtualizationExtensions", "AddVirtualMachineHardDrive",
   "SetVmNetworkAdapterMacAddress", "ResizeVirtualMachineVhd", "CreateOsDvdDrive",
   "SetBootDvdDrive", "CreateDvdDrive", "SetNetworkAdapterVlanId",
   "SetVirtualMachineVlanId", "SetBootOrder", "SetFirstBootDevice"}

Rank ==
  [X \in Names |->
   CASE X = "CreateVirtualMachine" -> 1
    [] X = "CloneVirtualMachine" -> 2
    [] X = "ReplaceVirtualMachineNetworkAdapter" -> 3
    [] X = "SetVirtualMachineDynamicMemory" -> 4
    [] X = "SetVirtualMachineMacSpoofing" -> 5
    [] X = "SetVirtualMachineSecureBoot" -> 6
    [] X = "SetVirtualMachineTPM" -> 7
    [] X = "SetVirtualMachineVirtualizationExtensions" -> 8
    [] X = "AddVirtualMachineHardDrive" -> 9
    [] X = "SetVmNetworkAdapterMacAddress" -> 10
    [] X = "ResizeVirtualMachineVhd" -> 11
    [] X = "CreateOsDvdDrive" -> 12
    [] X = "SetBootDvdDrive" -> 13
    [] X = "CreateDvdDrive" -> 14
    [] X = "SetNetworkAdapterVlanId" -> 15
    [] X = "SetVirtualMachineVlanId" -> 16
    [] X = "SetBootOrder" -> 17
    [] X = "SetFirstBootDevice" -> 18]

Wanted(c, X) ==
  \/ X = "CreateVirtualMachine" /\ c.builder = "iso"
  \/ X = "CloneVirtualMachine" /\ c.builder # "iso"
  \/ X = "ReplaceVirtualMachineNetworkAdapter" /\ c.builder = "iso" /\ c.legacyAdapter
  \/ X = "SetVirtualMachineDynamicMemory" /\ (c.builder = "iso" \/ c.dynamicMemory)
  \/ X = "SetVirtualMachineMacSpoofing" /\ c.macSpoofing
  \/ X = "SetVirtualMachineSecureBoot" /\ MachineGeneration(c) = 2
  \/ X = "SetVirtualMachineTPM" /\ MachineGeneration(c) = 2 /\ c.tpm
  \/ X = "SetVirtualMachineVirtualizationExtensions" /\ c.virtExt
  \/ X = "AddVirtualMachineHardDrive" /\ Len(c.additional) > 0
  \/ X = "SetVmNetworkAdapterMacAddress" /\ c.mac
  \/ X = "ResizeVirtualMachineVhd" /\ c.builder # "iso" /\ c.diskSize # 0
  \/ X = "CreateOsDvdDrive" /\ c.media = "iso"
  \/ X = "SetBootDvdDrive" /\ c.media = "iso" /\ c.firstBoot = ""
  \/ X = "CreateDvdDrive" /\ ExtraDvds(c) > 0
  \/ X = "SetNetworkAdapterVlanId" /\ c.switchVlan # ""
  \/ X = "SetVirtualMachineVlanId" /\ c.vlan # ""
  \/ X = "SetBootOrder" /\ c.bootOrder
  \/ X = "SetFirstBootDevice" /\ c.firstBoot # "" /\ (c.firstBoot = "CD" => c.media = "iso")

Repeated == {"AddVirtualMachineHardDrive", "CreateDvdDrive"}

\* The size that a call which is not repeated carries.
SizeOf(c, X) ==
  CASE X = "CreateVirtualMachine" -> c.memory
    [] X = "CloneVirtualMachine" -> EarlyMB(c.memory)
    [] X = "ResizeVirtualMachineVhd" -> c.diskSize
    [] OTHER -> 0

(***************************************************************************)
(* Queue: the calls s are the wanted ones with the ranks lo to hi.         *)
(***************************************************************************)
CallRecord == [call : Names, mb : Nat]

HasCall(s, X) == \E i \in 1 .. Len(s) : s[i].call = X

Queue(c, s, lo, hi) ==
  /\ s \in Seq(CallRecord)
  /\ \A i \in 1 .. Len(s) :
       /\ Wanted(c, s[i].call)
       /\ lo <= Rank[s[i].call] /\ Rank[s[i].call] <= hi
       /\ s[i].call \notin Repeated => s[i].mb = SizeOf(c, s[i].call)
  /\ \A X \in Names : Wanted(c, X) /\ lo <= Rank[X] /\ Rank[X] <= hi => HasCall(s, X)
  /\ \A i, j \in 1 .. Len(s) :
       i < j => \/ Rank[s[i].call] < Rank[s[j].call]
                \/ s[i].call = s[j].call /\ s[i].call \in Repeated

(***************************************************************************)
(* Block: of the calls X, one for each size, the first n are gone and the  *)
(* others stand together in s, each with its size.                         *)
(***************************************************************************)
Block(s, X, n, sizes) ==
  /\ n \in 0 .. Len(sizes)
  /\ \E k \in 0 .. Len(s) :
       /\ k + Len(sizes) - n <= Len(s)
       /\ \A i \in 1 .. Len(s) : s[i].call = X <=> k < i /\ i <= k + Len(sizes) - n
       /\ \A i \in 1 .. Len(s) : s[i].call = X => s[i].mb = sizes[n + i - k]

DiskSizes(c) == [i \in 1 .. Len(c.additional) |-> EarlyMB(c.additional[i])]
DvdSizes(c) == [i \in 1 .. ExtraDvds(c) |-> 0]

(***************************************************************************)
(* The invariant.                                                          *)
(***************************************************************************)
ConfigInv ==
  /\ config \in Request /\ asked \in Request
  /\ phase = "prepare" => config = asked /\ warnings = {}
  /\ phase # "prepare" => config = Defaults(asked) /\ warnings = Warnings(config)
  /\ phase \notin {"prepare", "rejected"} => ~Rejects(config)

\* The machine is being set up, or has been.
SetUp == phase \in {"setup", "refused", "ready"} \/ guest.generation # 0

QueueInv ==
  /\ todo \in Seq(CallRecord)
  /\ phase \in {"prepare", "driver", "rejected"} => guest.generation = 0
  /\ phase = "ready" => todo = <<>>
  /\ guest.generation = 0 => guest = NoGuest /\ hostVlan = ""
  /\ SetUp => \E lo \in Nat : Queue(config, todo, lo, 18)

Done(X) == Wanted(config, X) /\ ~HasCall(todo, X)

Kept(b) == guest.generation # 0 /\ config.builder # "iso" /\ b

Machine ==
  /\ guest.generation # 0 <=> Done("CreateVirtualMachine") \/ Done("CloneVirtualMachine")
  /\ guest.generation # 0 =>
       /\ guest.generation = MachineGeneration(config)
       /\ guest.memory = IF config.builder = "iso" THEN config.memory ELSE EarlyMB(config.memory)
       /\ guest.disk = IF NewDisk(config) \/ Done("ResizeVirtualMachineVhd") THEN config.diskSize
                       ELSE config.source.disk
       /\ guest.ide = SourceIde(config) /\ guest.scsi = SourceScsi(config)

Inherited ==
  /\ guest.dynamicMemory <=> IF Done("SetVirtualMachineDynamicMemory") THEN config.dynamicMemory
                             ELSE Kept(config.source.dynamicMemory)
  /\ guest.macSpoofing <=> \/ Done("SetVirtualMachineMacSpoofing")
                           \/ Kept(config.source.macSpoofing)
  /\ guest.legacyAdapter <=> \/ Done("ReplaceVirtualMachineNetworkAdapter")
                             \/ Kept(config.source.legacyAdapter)
  /\ guest.tpm <=> Done("SetVirtualMachineTPM") \/ Kept(config.source.tpm)
  /\ guest.virtExt <=> \/ Done("SetVirtualMachineVirtualizationExtensions")
                       \/ Kept(config.source.virtExt)
  /\ guest.mac <=> Done("SetVmNetworkAdapterMacAddress") \/ Kept(config.source.mac)

Options ==
  /\ guest.secureBoot <=> Done("SetVirtualMachineSecureBoot") /\ config.secureBoot
  /\ guest.osDvd <=> Done("CreateOsDvdDrive")

Vlans ==
  /\ guest.vlan = IF Done("SetVirtualMachineVlanId") THEN config.vlan
                  ELSE IF Kept(TRUE) THEN config.source.vlan ELSE ""
  /\ hostVlan = IF Done("SetNetworkAdapterVlanId") THEN config.vlan ELSE ""

Settings == Machine /\ Inherited /\ Options /\ Vlans

OsDvdBoots == config.generation = 1 \/ guest.generation = 2

Boots ==
  /\ Done("SetBootDvdDrive") => config.generation = 2 \/ guest.generation = 1
  /\ Done("SetFirstBootDevice") => guest.boot = config.firstBoot
  /\ ~Done("SetFirstBootDevice") /\ Done("SetBootOrder") => guest.boot = "SCSI:0:1"
  /\ ~Done("SetFirstBootDevice") /\ ~Done("SetBootOrder") =>
       guest.boot = IF ~(Done("SetBootDvdDrive") /\ OsDvdBoots) THEN "default"
                    ELSE IF config.generation = 1 THEN "IDE" ELSE "CD"

Disks ==
  /\ Block(todo, "AddVirtualMachineHardDrive", Len(guest.additional), DiskSizes(config))
  /\ \A i \in 1 .. Len(guest.additional) : guest.additional[i] = DiskSizes(config)[i]

Dvds ==
  Block(todo, "CreateDvdDrive", guest.dvds - One(guest.osDvd), DvdSizes(config))

GuestInv == SetUp => Settings /\ Boots /\ Disks /\ Dvds

\* The call that the host has refused is the first one left.
RefusedInv == phase = "refused" => todo # <<>> /\ ~HostTakes(Head(todo))

SetupInv == TypeOK /\ ConfigInv /\ QueueInv /\ GuestInv /\ RefusedInv

(***************************************************************************)
(* Queues.                                                                 *)
(***************************************************************************)
LEMMA EarlyMBType ==
  ASSUME NEW mb \in Nat
  PROVE  EarlyMB(mb) \in Nat /\ (mb < WordMB => EarlyMB(mb) = mb)
  BY WordMBAssumption DEF EarlyMB

LEMMA RankType == \A X \in Names : Rank[X] \in Nat /\ 1 <= Rank[X] /\ Rank[X] <= 18
<1> SUFFICES ASSUME NEW X \in Names
             PROVE  Rank[X] \in Nat /\ 1 <= Rank[X] /\ Rank[X] <= 18
  OBVIOUS
<1>1. Rank[X] \in 1 .. 18
  BY SMTT(60) DEF Names, Rank
<1> QED BY <1>1

LEMMA RankInjective == \A X, Y \in Names : Rank[X] = Rank[Y] => X = Y
<1> SUFFICES ASSUME NEW X \in Names, NEW Y \in Names, Rank[X] = Rank[Y] PROVE X = Y
  OBVIOUS
<1> QED BY SMTT(120) DEF Names, Rank

LEMMA QueueType ==
  ASSUME NEW c, NEW s, NEW lo, NEW hi, Queue(c, s, lo, hi)
  PROVE  /\ s \in Seq(CallRecord) /\ Len(s) \in Nat /\ s \in [1 .. Len(s) -> CallRecord]
         /\ \A i \in 1 .. Len(s) :
              /\ s[i].call \in Names /\ s[i].mb \in Nat
              /\ Rank[s[i].call] \in Nat
              /\ lo <= Rank[s[i].call] /\ Rank[s[i].call] <= hi
<1>1. s \in Seq(CallRecord)
  BY DEF Queue
<1>2. Len(s) \in Nat /\ s \in [1 .. Len(s) -> CallRecord]
  BY <1>1
<1>3. ASSUME NEW i \in 1 .. Len(s)
      PROVE  /\ s[i].call \in Names /\ s[i].mb \in Nat
             /\ Rank[s[i].call] \in Nat
             /\ lo <= Rank[s[i].call] /\ Rank[s[i].call] <= hi
  <2>1. s[i] \in CallRecord
    BY <1>2
  <2>2. s[i].call \in Names /\ s[i].mb \in Nat
    BY <2>1 DEF CallRecord
  <2>3. Rank[s[i].call] \in Nat
    BY <2>2, RankType
  <2> QED BY <2>2, <2>3 DEF Queue
<1> QED BY <1>1, <1>2, <1>3

\* Two queues, one after the other.
LEMMA Join ==
  ASSUME NEW c, NEW s, NEW t, NEW lo \in Nat, NEW mid \in Nat, NEW hi \in Nat,
         lo <= mid + 1, mid <= hi,
         Queue(c, s, lo, mid), Queue(c, t, mid + 1, hi)
  PROVE  Queue(c, s \o t, lo, hi)
<1> DEFINE st == s \o t
<1>1. /\ st \in Seq(CallRecord) /\ Len(st) = Len(s) + Len(t)
      /\ Len(s) \in Nat /\ Len(t) \in Nat
      /\ \A i \in 1 .. Len(st) : st[i] = IF i <= Len(s) THEN s[i] ELSE t[i - Len(s)]
  BY ConcatProperties, LenProperties DEF Queue
<1>2. \A i \in 1 .. Len(s) : st[i] = s[i]
  BY <1>1
<1>3. \A i \in 1 .. Len(t) : st[Len(s) + i] = t[i]
  BY <1>1
<1>4. /\ \A i \in 1 .. Len(s) : Rank[s[i].call] \in Nat /\ Rank[s[i].call] <= mid
      /\ \A i \in 1 .. Len(t) : Rank[t[i].call] \in Nat /\ mid < Rank[t[i].call]
  BY QueueType, SMTT(60)
<1>5. ASSUME NEW i \in 1 .. Len(st)
      PROVE  /\ Wanted(c, st[i].call)
             /\ lo <= Rank[st[i].call] /\ Rank[st[i].call] <= hi
             /\ st[i].call \notin Repeated => st[i].mb = SizeOf(c, st[i].call)
  <2>1. CASE i <= Len(s)
    BY <2>1, <1>1, <1>4 DEF Queue
  <2>2. CASE ~(i <= Len(s))
    <3>1. i - Len(s) \in 1 .. Len(t) /\ st[i] = t[i - Len(s)]
      BY <2>2, <1>1
    <3> QED BY <3>1, <1>4 DEF Queue
  <2> QED BY <2>1, <2>2
<1>6. ASSUME NEW X \in Names, Wanted(c, X), lo <= Rank[X], Rank[X] <= hi
      PROVE  HasCall(st, X)
  <2>1. CASE Rank[X] <= mid
    <3>1. PICK i \in 1 .. Len(s) : s[i].call = X
      BY <1>6, <2>1 DEF Queue, HasCall
    <3> QED BY <3>1, <1>1 DEF HasCall
  <2>2. CASE mid + 1 <= Rank[X]
    <3>1. PICK i \in 1 .. Len(t) : t[i].call = X
      BY <1>6, <2>2 DEF Queue, HasCall
    <3>2. Len(s) + i \in 1 .. Len(st)
      BY <1>1
    <3> QED BY <3>1, <3>2, <1>3 DEF HasCall
  <2> QED BY <2>1, <2>2, RankType
<1>7. ASSUME NEW i \in 1 .. Len(st), NEW j \in 1 .. Len(st), i < j
      PROVE  \/ Rank[st[i].call] < Rank[st[j].call]
             \/ st[i].call = st[j].call /\ st[i].call \in Repeated
  <2>1. CASE j <= Len(s)
    BY <2>1, <1>7, <1>1 DEF Queue
  <2>2. CASE ~(j <= Len(s)) /\ i <= Len(s)
    <3>1. j - Len(s) \in 1 .. Len(t) /\ st[j] = t[j - Len(s)]
      BY <2>2, <1>1
    <3> QED BY <3>1, <2>2, <1>1, <1>4, SMTT(60)
  <2>3. CASE ~(i <= Len(s))
    <3>1. /\ j - Len(s) \in 1 .. Len(t) /\ st[j] = t[j - Len(s)]
          /\ i - Len(s) \in 1 .. Len(t) /\ st[i] = t[i - Len(s)]
          /\ i - Len(s) < j - Len(s)
      BY <2>3, <1>7, <1>1
    <3> QED BY <3>1 DEF Queue
  <2> QED BY <2>1, <2>2, <2>3
<1> QED BY <1>1, <1>5, <1>6, <1>7 DEF Queue

\* More ranks, at which nothing is wanted.
LEMMA Widen ==
  ASSUME NEW c, NEW s, NEW lo \in Nat, NEW first \in Nat, NEW last \in Nat, NEW hi \in Nat,
         lo <= first, last <= hi, Queue(c, s, first, last),
         \A X \in Names : lo <= Rank[X] /\ Rank[X] <= hi /\ Wanted(c, X) =>
                            first <= Rank[X] /\ Rank[X] <= last
  PROVE  Queue(c, s, lo, hi)
<1>1. \A i \in 1 .. Len(s) : lo <= Rank[s[i].call] /\ Rank[s[i].call] <= hi
  <2> SUFFICES ASSUME NEW i \in 1 .. Len(s)
               PROVE  lo <= Rank[s[i].call] /\ Rank[s[i].call] <= hi
    OBVIOUS
  <2>1. Rank[s[i].call] \in Nat /\ first <= Rank[s[i].call] /\ Rank[s[i].call] <= last
    BY QueueType
  <2> QED BY <2>1
<1>2. ASSUME NEW X \in Names, Wanted(c, X), lo <= Rank[X], Rank[X] <= hi
      PROVE  HasCall(s, X)
  BY <1>2 DEF Queue
<1> QED BY <1>1, <1>2 DEF Queue

LEMMA EmptyQueue ==
  ASSUME NEW c, NEW lo \in Nat, NEW hi \in Nat,
         \A X \in Names : Rank[X] \in lo .. hi => ~Wanted(c, X)
  PROVE  Queue(c, <<>>, lo, hi)
<1>1. <<>> \in Seq(CallRecord) /\ Len(<<>>) = 0
  BY EmptySeq
<1>2. 1 .. Len(<<>>) = {}
  BY <1>1
<1> QED BY <1>1, <1>2, RankType DEF Queue

\* One call.
LEMMA OneQueue ==
  ASSUME NEW c, NEW X \in Names, NEW mb \in Nat, Wanted(c, X),
         X \notin Repeated, mb = SizeOf(c, X)
  PROVE  Queue(c, <<Sized(X, mb)>>, Rank[X], Rank[X])
<1> DEFINE s == <<Sized(X, mb)>>
<1>1. s \in Seq(CallRecord) /\ Len(s) = 1 /\ s[1].call = X /\ s[1].mb = mb
  BY DEF Sized, CallRecord
<1>2. Rank[X] \in Nat
  BY RankType
<1>3. 1 .. Len(s) = {1}
  BY <1>1
<1>4. \A Y \in Names : Wanted(c, Y) /\ Rank[X] <= Rank[Y] /\ Rank[Y] <= Rank[X] => HasCall(s, Y)
  BY <1>1, <1>3, RankType, RankInjective DEF HasCall
<1>5. \A i \in 1 .. Len(s) : s[i].call = X /\ s[i].mb = mb
  BY <1>1, <1>3
<1>6. \A i, j \in 1 .. Len(s) : ~(i < j)
  BY <1>3
<1> HIDE DEF s
<1>7. Queue(c, s, Rank[X], Rank[X])
  BY <1>1, <1>2, <1>4, <1>5, <1>6 DEF Queue
<1> QED BY <1>7 DEF s

\* A call that is made on a condition.
LEMMA WhenQueue ==
  ASSUME NEW c, NEW X \in Names, NEW cond \in BOOLEAN, cond <=> Wanted(c, X),
         X \notin Repeated, SizeOf(c, X) = 0
  PROVE  Queue(c, When(cond, X), Rank[X], Rank[X])
<1>1. CASE cond
  BY <1>1, OneQueue DEF When, Call
<1>2. CASE ~cond
  <2>1. \A Y \in Names : Rank[Y] \in Rank[X] .. Rank[X] => ~Wanted(c, Y)
    BY <1>2, RankType, RankInjective
  <2> QED BY <1>2, <2>1, EmptyQueue, RankType DEF When
<1> QED BY <1>1, <1>2

\* A call that is repeated, once for each size.
LEMMA RepeatedQueue ==
  ASSUME NEW c, NEW X \in Repeated, NEW n \in Nat, NEW sizes \in [1 .. n -> Nat],
         n > 0 <=> Wanted(c, X)
  PROVE  Queue(c, [i \in 1 .. n |-> Sized(X, sizes[i])], Rank[X], Rank[X])
<1> DEFINE s == [i \in 1 .. n |-> Sized(X, sizes[i])]
<1>0. X \in Names
  BY DEF Repeated, Names
<1>1. s \in Seq(CallRecord) /\ Len(s) = n /\ \A i \in 1 .. n : s[i].call = X
  <2>1. \A i \in 1 .. n : Sized(X, sizes[i]) \in CallRecord
    BY <1>0 DEF Sized, CallRecord
  <2>2. s \in [1 .. n -> CallRecord]
    BY <2>1
  <2>3. s \in Seq(CallRecord) /\ Len(s) = n
    BY <2>2
  <2> QED BY <2>3 DEF Sized
<1>2. Rank[X] \in Nat
  BY <1>0, RankType
<1> HIDE DEF s
<1>3. ASSUME NEW Y \in Names, Wanted(c, Y), Rank[X] <= Rank[Y], Rank[Y] <= Rank[X]
      PROVE  HasCall(s, Y)
  <2>0. Rank[Y] = Rank[X]
    BY <1>3, <1>0, RankType
  <2>1. Y = X
    BY <2>0, <1>0, RankInjective
  <2>2. 1 \in 1 .. Len(s) /\ s[1].call = X
    BY <1>3, <2>1, <1>1
  <2> QED BY <2>1, <2>2 DEF HasCall
<1>4. \A i \in 1 .. Len(s) : Wanted(c, X)
  BY <1>1
<1>5. Queue(c, s, Rank[X], Rank[X])
  BY <1>1, <1>2, <1>3, <1>4 DEF Queue
<1> QED BY <1>5 DEF s

(***************************************************************************)
(* Blocks.                                                                 *)
(***************************************************************************)
LEMMA BlockAlone ==
  ASSUME NEW X, NEW n \in Nat, NEW sizes \in [1 .. n -> Nat]
  PROVE  Block([i \in 1 .. n |-> Sized(X, sizes[i])], X, 0, sizes)
<1> DEFINE s == [i \in 1 .. n |-> Sized(X, sizes[i])]
<1>1. sizes \in Seq(Nat) /\ Len(sizes) = n
  OBVIOUS
<1>2. Len(s) = n /\ \A i \in 1 .. n : s[i].call = X /\ s[i].mb = sizes[i]
  <2>1. s \in [1 .. n -> [call : {X}, mb : Nat]]
    BY DEF Sized
  <2>2. s \in Seq([call : {X}, mb : Nat]) /\ Len(s) = n
    BY <2>1
  <2> QED BY <2>2 DEF Sized
<1> HIDE DEF s
<1>3. /\ 0 \in 0 .. Len(s) /\ 0 + Len(sizes) - 0 <= Len(s)
      /\ \A i \in 1 .. Len(s) : s[i].call = X <=> 0 < i /\ i <= 0 + Len(sizes) - 0
      /\ \A i \in 1 .. Len(s) : s[i].call = X => s[i].mb = sizes[0 + i - 0]
  BY <1>1, <1>2
<1>4. 0 \in 0 .. Len(sizes)
  BY <1>1
<1>5. Block(s, X, 0, sizes)
  BY <1>3, <1>4 DEF Block
<1> QED BY <1>5 DEF s

\* A block in one of two queues is one in both together.
LEMMA BlockJoin ==
  ASSUME NEW c, NEW s, NEW t, NEW lo \in Nat, NEW mid \in Nat, NEW next \in Nat, NEW hi \in Nat,
         mid < next, Queue(c, s, lo, mid), Queue(c, t, next, hi),
         NEW X \in Names, NEW sizes \in Seq(Nat),
         \/ Rank[X] <= mid /\ Block(s, X, 0, sizes)
         \/ next <= Rank[X] /\ Block(t, X, 0, sizes)
  PROVE  Block(s \o t, X, 0, sizes)
<1> DEFINE st == s \o t
<1>1. /\ st \in Seq(CallRecord) /\ Len(st) = Len(s) + Len(t)
      /\ Len(s) \in Nat /\ Len(t) \in Nat /\ Len(sizes) \in Nat
      /\ \A i \in 1 .. Len(st) : st[i] = IF i <= Len(s) THEN s[i] ELSE t[i - Len(s)]
  BY ConcatProperties, LenProperties DEF Queue
<1>2. /\ \A i \in 1 .. Len(s) : Rank[s[i].call] \in Nat /\ Rank[s[i].call] <= mid
      /\ \A i \in 1 .. Len(t) : Rank[t[i].call] \in Nat /\ mid < Rank[t[i].call]
  <2>1. \A i \in 1 .. Len(s) : Rank[s[i].call] \in Nat /\ Rank[s[i].call] <= mid
    BY QueueType
  <2>2. \A i \in 1 .. Len(t) : Rank[t[i].call] \in Nat /\ next <= Rank[t[i].call]
    BY QueueType
  <2>3. \A i \in 1 .. Len(t) : mid < Rank[t[i].call]
    <3> SUFFICES ASSUME NEW i \in 1 .. Len(t) PROVE mid < Rank[t[i].call]
      OBVIOUS
    <3> QED BY <2>2
  <2> QED BY <2>1, <2>2, <2>3
<1>3. \A i \in 1 .. Len(st) : i <= Len(s) => i \in 1 .. Len(s) /\ st[i] = s[i]
  BY <1>1
<1>4. \A i \in 1 .. Len(st) : ~(i <= Len(s)) => i - Len(s) \in 1 .. Len(t) /\ st[i] = t[i - Len(s)]
  BY <1>1
<1>5. Rank[X] \in Nat
  BY RankType
<1> HIDE DEF st
<1>6. ASSUME Rank[X] <= mid, Block(s, X, 0, sizes) PROVE Block(st, X, 0, sizes)
  <2>1. PICK k \in 0 .. Len(s) :
          /\ k + Len(sizes) - 0 <= Len(s)
          /\ \A i \in 1 .. Len(s) : s[i].call = X <=> k < i /\ i <= k + Len(sizes) - 0
          /\ \A i \in 1 .. Len(s) : s[i].call = X => s[i].mb = sizes[0 + i - k]
    BY <1>6 DEF Block
  <2>2. k \in 0 .. Len(st) /\ k + Len(sizes) - 0 <= Len(st)
    BY <2>1, <1>1
  <2>3. ASSUME NEW i \in 1 .. Len(st)
        PROVE  /\ st[i].call = X <=> k < i /\ i <= k + Len(sizes) - 0
               /\ st[i].call = X => st[i].mb = sizes[0 + i - k]
    <3>1. CASE i <= Len(s)
      BY <3>1, <2>1, <1>3
    <3>2. CASE ~(i <= Len(s))
      <4>1. mid < Rank[st[i].call] /\ Rank[st[i].call] \in Nat
        BY <3>2, <1>2, <1>4
      <4>3. st[i].call # X
        BY <4>1, <1>5, <1>6
      <4>2. ~(i <= k + Len(sizes) - 0)
        BY <3>2, <2>1, <1>1
      <4> QED BY <4>3, <4>2
    <3> QED BY <3>1, <3>2
  <2>4. 0 \in 0 .. Len(sizes)
    BY <1>1
  <2> QED BY <2>2, <2>3, <2>4 DEF Block
<1>7. ASSUME next <= Rank[X], Block(t, X, 0, sizes) PROVE Block(st, X, 0, sizes)
  <2>1. PICK k \in 0 .. Len(t) :
          /\ k + Len(sizes) - 0 <= Len(t)
          /\ \A i \in 1 .. Len(t) : t[i].call = X <=> k < i /\ i <= k + Len(sizes) - 0
          /\ \A i \in 1 .. Len(t) : t[i].call = X => t[i].mb = sizes[0 + i - k]
    BY <1>7 DEF Block
  <2>2. (Len(s) + k) \in 0 .. Len(st) /\ (Len(s) + k) + Len(sizes) - 0 <= Len(st)
    BY <2>1, <1>1
  <2>3. ASSUME NEW i \in 1 .. Len(st)
        PROVE  /\ st[i].call = X <=> Len(s) + k < i /\ i <= (Len(s) + k) + Len(sizes) - 0
               /\ st[i].call = X => st[i].mb = sizes[0 + i - (Len(s) + k)]
    <3>1. CASE i <= Len(s)
      <4>1. Rank[st[i].call] <= mid /\ Rank[st[i].call] \in Nat
        BY <3>1, <1>2, <1>3
      <4>2. st[i].call # X
        BY <4>1, <1>5, <1>7
      <4>3. ~(Len(s) + k < i)
        BY <3>1, <2>1, <1>1
      <4> QED BY <4>2, <4>3
    <3>2. CASE ~(i <= Len(s))
      <4> DEFINE j == i - Len(s)
      <4>1. j \in 1 .. Len(t) /\ st[i] = t[j]
        BY <3>2, <1>4
      <4>2. t[j].call = X <=> k < j /\ j <= k + Len(sizes) - 0
        BY <4>1, <2>1
      <4>3. t[j].call = X => t[j].mb = sizes[0 + j - k]
        BY <4>1, <2>1
      <4>4. /\ k < j <=> Len(s) + k < i
            /\ j <= k + Len(sizes) - 0 <=> i <= (Len(s) + k) + Len(sizes) - 0
            /\ 0 + j - k = 0 + i - (Len(s) + k)
        BY <1>1, <2>1
      <4> HIDE DEF j
      <4> QED BY <4>1, <4>2, <4>3, <4>4
    <3> QED BY <3>1, <3>2
  <2>4. 0 \in 0 .. Len(sizes)
    BY <1>1
  <2> QED BY <2>2, <2>3, <2>4 DEF Block
<1> QED BY <1>6, <1>7 DEF st

(***************************************************************************)
(* The list that NewDriver makes is the queue of all wanted calls.         *)
(***************************************************************************)
AddDisk == "AddVirtualMachineHardDrive"
AddDvd == "CreateDvdDrive"

LEMMA RankOf ==
  /\ Rank["CreateVirtualMachine"] = 1 /\ Rank["CloneVirtualMachine"] = 2
  /\ Rank["ReplaceVirtualMachineNetworkAdapter"] = 3
  /\ Rank["SetVirtualMachineDynamicMemory"] = 4
  /\ Rank["SetVirtualMachineMacSpoofing"] = 5
  /\ Rank["SetVirtualMachineSecureBoot"] = 6 /\ Rank["SetVirtualMachineTPM"] = 7
  /\ Rank["SetVirtualMachineVirtualizationExtensions"] = 8
  /\ Rank["AddVirtualMachineHardDrive"] = 9
  /\ Rank["SetVmNetworkAdapterMacAddress"] = 10 /\ Rank["ResizeVirtualMachineVhd"] = 11
  /\ Rank["CreateOsDvdDrive"] = 12 /\ Rank["SetBootDvdDrive"] = 13
  /\ Rank["CreateDvdDrive"] = 14 /\ Rank["SetNetworkAdapterVlanId"] = 15
  /\ Rank["SetVirtualMachineVlanId"] = 16 /\ Rank["SetBootOrder"] = 17
  /\ Rank["SetFirstBootDevice"] = 18
  BY SMTT(60) DEF Rank, Names

LEMMA SizesType ==
  ASSUME NEW c \in Request
  PROVE  /\ Len(c.additional) \in Nat /\ c.additional \in [1 .. Len(c.additional) -> Nat]
         /\ DiskSizes(c) \in [1 .. Len(c.additional) -> Nat] /\ DiskSizes(c) \in Seq(Nat)
         /\ Len(DiskSizes(c)) = Len(c.additional)
         /\ ExtraDvds(c) \in Nat
         /\ DvdSizes(c) \in [1 .. ExtraDvds(c) -> Nat] /\ DvdSizes(c) \in Seq(Nat)
         /\ Len(DvdSizes(c)) = ExtraDvds(c)
<1>1. c.additional \in Seq(Nat) /\ c.secondary \in Nat
  BY DEF Request
<1>2. Len(c.additional) \in Nat /\ c.additional \in [1 .. Len(c.additional) -> Nat]
  BY <1>1
<1>3. DiskSizes(c) \in [1 .. Len(c.additional) -> Nat]
  BY <1>2, EarlyMBType DEF DiskSizes
<1>4. DiskSizes(c) \in Seq(Nat) /\ Len(DiskSizes(c)) = Len(c.additional)
  BY <1>2, <1>3
<1>5. ExtraDvds(c) \in Nat
  BY <1>1 DEF ExtraDvds, One
<1>6. DvdSizes(c) \in [1 .. ExtraDvds(c) -> Nat]
  BY <1>5 DEF DvdSizes
<1>7. DvdSizes(c) \in Seq(Nat) /\ Len(DvdSizes(c)) = ExtraDvds(c)
  BY <1>5, <1>6
<1> QED BY <1>2, <1>3, <1>4, <1>5, <1>6, <1>7

LEMMA LastSettingsQueue ==
  ASSUME NEW c \in Request
  PROVE  /\ Queue(c, LastSettings(c), 8, 10)
         /\ Block(LastSettings(c), AddDisk, 0, DiskSizes(c))
<1> DEFINE disks == [i \in 1 .. Len(c.additional) |-> Sized(AddDisk, DiskSizes(c)[i])]
           ext == When(c.virtExt, "SetVirtualMachineVirtualizationExtensions")
           mac == When(c.mac, "SetVmNetworkAdapterMacAddress")
<1>1. Queue(c, ext, 8, 8)
  <2>1. c.virtExt \in BOOLEAN
    BY DEF Request
  <2>2. c.virtExt <=> Wanted(c, "SetVirtualMachineVirtualizationExtensions")
    BY DEF Wanted
  <2>3. /\ "SetVirtualMachineVirtualizationExtensions" \in Names
        /\ "SetVirtualMachineVirtualizationExtensions" \notin Repeated
        /\ SizeOf(c, "SetVirtualMachineVirtualizationExtensions") = 0
    BY DEF Names, Repeated, SizeOf
  <2> QED BY <2>1, <2>2, <2>3, WhenQueue, RankOf
<1>2. Queue(c, mac, 10, 10)
  <2>1. c.mac \in BOOLEAN
    BY DEF Request
  <2>2. c.mac <=> Wanted(c, "SetVmNetworkAdapterMacAddress")
    BY DEF Wanted
  <2>3. /\ "SetVmNetworkAdapterMacAddress" \in Names
        /\ "SetVmNetworkAdapterMacAddress" \notin Repeated
        /\ SizeOf(c, "SetVmNetworkAdapterMacAddress") = 0
    BY DEF Names, Repeated, SizeOf
  <2> QED BY <2>1, <2>2, <2>3, WhenQueue, RankOf
<1>3. Queue(c, disks, 9, 9)
  <2>1. Len(c.additional) > 0 <=> Wanted(c, AddDisk)
    BY DEF Wanted, AddDisk
  <2>2. AddDisk \in Repeated /\ Rank[AddDisk] = 9
    BY RankOf DEF Repeated, AddDisk
  <2> QED BY <2>1, <2>2, SizesType, RepeatedQueue, ZenonT(60)
<1>4. Block(disks, AddDisk, 0, DiskSizes(c))
  BY SizesType, BlockAlone
<1>5. LastSettings(c) = (ext \o disks) \o mac
  <2>1. DOMAIN c.additional = 1 .. Len(c.additional)
    BY SizesType
  <2>2. [i \in DOMAIN c.additional |->
           Sized("AddVirtualMachineHardDrive", EarlyMB(c.additional[i]))] = disks
    BY <2>1 DEF DiskSizes, AddDisk
  <2> QED BY <2>2 DEF LastSettings
<1>6. AddDisk \in Names /\ Rank[AddDisk] = 9 /\ DiskSizes(c) \in Seq(Nat)
  BY RankOf, SizesType DEF Names, AddDisk
<1> HIDE DEF ext, disks, mac
<1>7. Queue(c, ext \o disks, 8, 9)
  BY <1>1, <1>3, Join
<1>8. Block(ext \o disks, AddDisk, 0, DiskSizes(c))
  BY <1>1, <1>3, <1>4, <1>6, BlockJoin
<1>9. Queue(c, (ext \o disks) \o mac, 8, 10)
  BY <1>2, <1>7, Join
<1>10. Block((ext \o disks) \o mac, AddDisk, 0, DiskSizes(c))
  BY <1>2, <1>6, <1>7, <1>8, BlockJoin
<1> QED BY <1>5, <1>9, <1>10

LEMMA SettingQueue ==
  ASSUME NEW c, NEW cond \in BOOLEAN,
         NEW X \in Names \ (Repeated \cup {"CreateVirtualMachine", "CloneVirtualMachine",
                                           "ResizeVirtualMachineVhd"}),
         cond <=> Wanted(c, X)
  PROVE  Queue(c, When(cond, X), Rank[X], Rank[X])
<1>1. SizeOf(c, X) = 0
  BY DEF SizeOf
<1> QED BY <1>1, WhenQueue

LEMMA CreateQueue ==
  ASSUME NEW c \in Request, c.builder = "iso"
  PROVE  /\ Queue(c, StepCreateVM(c), 1, 11)
         /\ Block(StepCreateVM(c), AddDisk, 0, DiskSizes(c))
<1> DEFINE create == <<Sized("CreateVirtualMachine", c.memory)>>
           adapter == When(c.legacyAdapter, "ReplaceVirtualMachineNetworkAdapter")
           dynamic == <<Call("SetVirtualMachineDynamicMemory")>>
           spoofing == When(c.macSpoofing, "SetVirtualMachineMacSpoofing")
           secure == When(c.generation = 2, "SetVirtualMachineSecureBoot")
           tpm == When(c.generation = 2 /\ c.tpm, "SetVirtualMachineTPM")
<1>1. Queue(c, create, 1, 2)
  <2>1. c.memory \in Nat /\ Wanted(c, "CreateVirtualMachine")
        /\ SizeOf(c, "CreateVirtualMachine") = c.memory
    BY DEF Request, Wanted, SizeOf
  <2>2. "CreateVirtualMachine" \in Names /\ "CreateVirtualMachine" \notin Repeated
    BY DEF Names, Repeated
  <2>3. Queue(c, create, 1, 1)
    BY <2>1, <2>2, OneQueue, RankOf
  <2>4. \A X \in Names : Rank[X] = 2 => ~Wanted(c, X)
    <3>1. ~Wanted(c, "CloneVirtualMachine") /\ "CloneVirtualMachine" \in Names
      BY DEF Wanted, Names
    <3> QED BY <3>1, RankOf, RankInjective
  <2>5. \A X \in Names : 1 <= Rank[X] /\ Rank[X] <= 2 /\ Wanted(c, X) =>
                           1 <= Rank[X] /\ Rank[X] <= 1
    BY <2>4, RankType
  <2> QED BY <2>3, <2>5, Widen
<1>2. Queue(c, adapter, 3, 3)
  <2>1. c.legacyAdapter \in BOOLEAN
        /\ (c.legacyAdapter <=> Wanted(c, "ReplaceVirtualMachineNetworkAdapter"))
    BY DEF Request, Wanted
  <2> QED BY <2>1, SettingQueue, RankOf DEF Names, Repeated
<1>3. Queue(c, dynamic, 4, 4)
  <2>1. Wanted(c, "SetVirtualMachineDynamicMemory")
        /\ SizeOf(c, "SetVirtualMachineDynamicMemory") = 0
    BY DEF Wanted, SizeOf
  <2> QED BY <2>1, OneQueue, RankOf DEF Names, Repeated, Call
<1>4. Queue(c, spoofing, 5, 5)
  <2>1. c.macSpoofing \in BOOLEAN
        /\ (c.macSpoofing <=> Wanted(c, "SetVirtualMachineMacSpoofing"))
    BY DEF Request, Wanted
  <2> QED BY <2>1, SettingQueue, RankOf DEF Names, Repeated
<1>5. Queue(c, secure, 6, 6)
  <2>1. c.generation = 2 <=> Wanted(c, "SetVirtualMachineSecureBoot")
    BY DEF Wanted, MachineGeneration
  <2> QED BY <2>1, SettingQueue, RankOf DEF Names, Repeated
<1>6. Queue(c, tpm, 7, 7)
  <2>1. (c.generation = 2 /\ c.tpm) \in BOOLEAN
        /\ (c.generation = 2 /\ c.tpm <=> Wanted(c, "SetVirtualMachineTPM"))
    BY DEF Wanted, MachineGeneration
  <2> QED BY <2>1, SettingQueue, RankOf DEF Names, Repeated
<1>7. Queue(c, LastSettings(c), 8, 10) /\ Block(LastSettings(c), AddDisk, 0, DiskSizes(c))
  BY LastSettingsQueue
<1>8. StepCreateVM(c) =
        (((((create \o adapter) \o dynamic) \o spoofing) \o secure) \o tpm) \o LastSettings(c)
  BY DEF StepCreateVM
<1> HIDE DEF create, adapter, dynamic, spoofing, secure, tpm
<1> DEFINE early == ((((create \o adapter) \o dynamic) \o spoofing) \o secure) \o tpm
<1>9. Queue(c, early, 1, 7)
  <2>1. Queue(c, create \o adapter, 1, 3)
    BY <1>1, <1>2, Join
  <2>2. Queue(c, (create \o adapter) \o dynamic, 1, 4)
    BY <2>1, <1>3, Join
  <2>3. Queue(c, ((create \o adapter) \o dynamic) \o spoofing, 1, 5)
    BY <2>2, <1>4, Join
  <2>4. Queue(c, (((create \o adapter) \o dynamic) \o spoofing) \o secure, 1, 6)
    BY <2>3, <1>5, Join
  <2> QED BY <2>4, <1>6, Join
<1> HIDE DEF early
<1>10. Queue(c, early \o LastSettings(c), 1, 10)
  BY <1>7, <1>9, Join
<1>11. AddDisk \in Names /\ Rank[AddDisk] = 9 /\ DiskSizes(c) \in Seq(Nat)
  BY RankOf, SizesType DEF Names, AddDisk
<1>12. Block(early \o LastSettings(c), AddDisk, 0, DiskSizes(c))
  BY <1>7, <1>9, <1>11, BlockJoin
<1>13. Queue(c, early \o LastSettings(c), 1, 11)
  <2>1. ~Wanted(c, "ResizeVirtualMachineVhd") /\ "ResizeVirtualMachineVhd" \in Names
    BY DEF Wanted, Names
  <2>2. \A X \in Names : Rank[X] = 11 => ~Wanted(c, X)
    BY <2>1, RankOf, RankInjective
  <2>3. \A X \in Names : 1 <= Rank[X] /\ Rank[X] <= 11 /\ Wanted(c, X) =>
                           1 <= Rank[X] /\ Rank[X] <= 10
    BY <2>2, RankType
  <2> QED BY <1>10, <2>3, Widen
<1>14. StepCreateVM(c) = early \o LastSettings(c)
  BY <1>8 DEF early
<1> QED BY <1>12, <1>13, <1>14

LEMMA CloneQueue ==
  ASSUME NEW c \in Request, c.builder # "iso"
  PROVE  /\ Queue(c, StepCloneVM(c) \o StepResizeVhd(c), 1, 11)
         /\ Block(StepCloneVM(c) \o StepResizeVhd(c), AddDisk, 0, DiskSizes(c))
<1> DEFINE clone == <<Sized("CloneVirtualMachine", EarlyMB(c.memory))>>
           dynamic == When(c.dynamicMemory, "SetVirtualMachineDynamicMemory")
           spoofing == When(c.macSpoofing, "SetVirtualMachineMacSpoofing")
           secure == When(c.source.generation = 2, "SetVirtualMachineSecureBoot")
           tpm == When(c.source.generation = 2 /\ c.tpm, "SetVirtualMachineTPM")
<1>1. Queue(c, clone, 1, 3)
  <2>1. c.memory \in Nat /\ Wanted(c, "CloneVirtualMachine")
        /\ SizeOf(c, "CloneVirtualMachine") = EarlyMB(c.memory)
    BY DEF Request, Wanted, SizeOf
  <2>2. EarlyMB(c.memory) \in Nat
    BY <2>1, EarlyMBType
  <2>3. "CloneVirtualMachine" \in Names /\ "CloneVirtualMachine" \notin Repeated
    BY DEF Names, Repeated
  <2>4. Queue(c, clone, 2, 2)
    BY <2>1, <2>2, <2>3, OneQueue, RankOf
  <2>5. \A X \in Names : Rank[X] = 1 \/ Rank[X] = 3 => ~Wanted(c, X)
    <3>1. ~Wanted(c, "CreateVirtualMachine") /\ "CreateVirtualMachine" \in Names
      BY DEF Wanted, Names
    <3>2. /\ ~Wanted(c, "ReplaceVirtualMachineNetworkAdapter")
          /\ "ReplaceVirtualMachineNetworkAdapter" \in Names
      BY DEF Wanted, Names
    <3> QED BY <3>1, <3>2, RankOf, RankInjective
  <2>6. \A X \in Names : 1 <= Rank[X] /\ Rank[X] <= 3 /\ Wanted(c, X) =>
                           2 <= Rank[X] /\ Rank[X] <= 2
    BY <2>5, RankType
  <2> QED BY <2>4, <2>6, Widen
<1>3. Queue(c, dynamic, 4, 4)
  <2>1. c.dynamicMemory \in BOOLEAN
        /\ (c.dynamicMemory <=> Wanted(c, "SetVirtualMachineDynamicMemory"))
    BY DEF Request, Wanted
  <2> QED BY <2>1, SettingQueue, RankOf DEF Names, Repeated
<1>4. Queue(c, spoofing, 5, 5)
  <2>1. c.macSpoofing \in BOOLEAN
        /\ (c.macSpoofing <=> Wanted(c, "SetVirtualMachineMacSpoofing"))
    BY DEF Request, Wanted
  <2> QED BY <2>1, SettingQueue, RankOf DEF Names, Repeated
<1>5. Queue(c, secure, 6, 6)
  <2>1. c.source.generation = 2 <=> Wanted(c, "SetVirtualMachineSecureBoot")
    BY DEF Wanted, MachineGeneration
  <2> QED BY <2>1, SettingQueue, RankOf, ZenonT(60) DEF Names, Repeated
<1>6. Queue(c, tpm, 7, 7)
  <2>1. (c.source.generation = 2 /\ c.tpm) \in BOOLEAN
        /\ (c.source.generation = 2 /\ c.tpm <=> Wanted(c, "SetVirtualMachineTPM"))
    BY DEF Wanted, MachineGeneration
  <2> QED BY <2>1, SettingQueue, RankOf DEF Names, Repeated
<1>7. Queue(c, LastSettings(c), 8, 10) /\ Block(LastSettings(c), AddDisk, 0, DiskSizes(c))
  BY LastSettingsQueue
<1>8. Queue(c, StepResizeVhd(c), 11, 11)
  <2>1. "ResizeVirtualMachineVhd" \in Names /\ "ResizeVirtualMachineVhd" \notin Repeated
        /\ SizeOf(c, "ResizeVirtualMachineVhd") = c.diskSize /\ c.diskSize \in Nat
        /\ (Wanted(c, "ResizeVirtualMachineVhd") <=> c.diskSize # 0)
    BY DEF Names, Repeated, SizeOf, Wanted, Request
  <2>2. CASE c.diskSize # 0
    BY <2>1, <2>2, OneQueue, RankOf DEF StepResizeVhd
  <2>3. CASE c.diskSize = 0
    <3>1. \A X \in Names : Rank[X] = 11 => ~Wanted(c, X)
      BY <2>1, <2>3, RankOf, RankInjective
    <3>2. \A X \in Names : Rank[X] \in 11 .. 11 => ~Wanted(c, X)
      BY <3>1
    <3> QED BY <2>3, <3>2, EmptyQueue DEF StepResizeVhd
  <2> QED BY <2>2, <2>3
<1>9. StepCloneVM(c) = ((((clone \o dynamic) \o spoofing) \o secure) \o tpm) \o LastSettings(c)
  BY DEF StepCloneVM
<1> HIDE DEF clone, dynamic, spoofing, secure, tpm
<1> DEFINE early == (((clone \o dynamic) \o spoofing) \o secure) \o tpm
<1>10. Queue(c, early, 1, 7)
  <2>2. Queue(c, clone \o dynamic, 1, 4)
    BY <1>1, <1>3, Join
  <2>3. Queue(c, (clone \o dynamic) \o spoofing, 1, 5)
    BY <2>2, <1>4, Join
  <2>4. Queue(c, ((clone \o dynamic) \o spoofing) \o secure, 1, 6)
    BY <2>3, <1>5, Join
  <2> QED BY <2>4, <1>6, Join
<1> HIDE DEF early
<1>11. AddDisk \in Names /\ Rank[AddDisk] = 9 /\ DiskSizes(c) \in Seq(Nat)
  BY RankOf, SizesType DEF Names, AddDisk
<1>12. StepCloneVM(c) = early \o LastSettings(c)
  BY <1>9 DEF early
<1>13. Queue(c, StepCloneVM(c), 1, 10) /\ Block(StepCloneVM(c), AddDisk, 0, DiskSizes(c))
  <2>1. Queue(c, early \o LastSettings(c), 1, 10)
    BY <1>7, <1>10, Join
  <2>2. Block(early \o LastSettings(c), AddDisk, 0, DiskSizes(c))
    BY <1>7, <1>10, <1>11, BlockJoin
  <2> QED BY <2>1, <2>2, <1>12
<1>14. Queue(c, StepCloneVM(c) \o StepResizeVhd(c), 1, 11)
  BY <1>8, <1>13, Join
<1>15. Block(StepCloneVM(c) \o StepResizeVhd(c), AddDisk, 0, DiskSizes(c))
  BY <1>8, <1>11, <1>13, BlockJoin
<1> QED BY <1>14, <1>15

LEMMA MediaQueue ==
  ASSUME NEW c \in Request
  PROVE  /\ Queue(c, MediaAndBoot(c), 12, 18)
         /\ Block(MediaAndBoot(c), AddDvd, 0, DvdSizes(c))
<1> DEFINE dvds == [i \in 1 .. ExtraDvds(c) |-> Sized(AddDvd, DvdSizes(c)[i])]
           net == When(c.switchVlan # "", "SetNetworkAdapterVlanId")
           vlan == When(c.vlan # "", "SetVirtualMachineVlanId")
           order == When(c.bootOrder, "SetBootOrder")
<1>1. Queue(c, StepMountDvdDrive(c), 12, 13)
  <2>1. CASE c.media # "iso"
    <3>1. ~Wanted(c, "CreateOsDvdDrive") /\ ~Wanted(c, "SetBootDvdDrive")
          /\ "CreateOsDvdDrive" \in Names /\ "SetBootDvdDrive" \in Names
      BY <2>1 DEF Wanted, Names
    <3>2. \A X \in Names : Rank[X] = 12 \/ Rank[X] = 13 => ~Wanted(c, X)
      BY <3>1, RankOf, RankInjective
    <3>3. \A X \in Names : Rank[X] \in 12 .. 13 => ~Wanted(c, X)
      BY <3>2, RankType
    <3> QED BY <2>1, <3>3, EmptyQueue DEF StepMountDvdDrive
  <2>2. CASE c.media = "iso"
    <3>1. Wanted(c, "CreateOsDvdDrive") /\ SizeOf(c, "CreateOsDvdDrive") = 0
      BY <2>2 DEF Wanted, SizeOf
    <3>2. Queue(c, <<Call("CreateOsDvdDrive")>>, 12, 12)
      BY <3>1, OneQueue, RankOf DEF Names, Repeated, Call
    <3>3. c.firstBoot = "" <=> Wanted(c, "SetBootDvdDrive")
      BY <2>2 DEF Wanted
    <3>4. Queue(c, When(c.firstBoot = "", "SetBootDvdDrive"), 13, 13)
      BY <3>3, SettingQueue, RankOf, ZenonT(60) DEF Names, Repeated
    <3> DEFINE os == <<Call("CreateOsDvdDrive")>>
               boot == When(c.firstBoot = "", "SetBootDvdDrive")
    <3>5. StepMountDvdDrive(c) = os \o boot
      BY <2>2 DEF StepMountDvdDrive
    <3> HIDE DEF os, boot
    <3>6. Queue(c, os, 12, 12) /\ Queue(c, boot, 13, 13)
      BY <3>2, <3>4 DEF os, boot
    <3>7. Queue(c, os \o boot, 12, 13)
      BY <3>6, Join
    <3> QED BY <3>5, <3>7
  <2> QED BY <2>1, <2>2
<1>2. Queue(c, dvds, 14, 14) /\ Block(dvds, AddDvd, 0, DvdSizes(c))
  <2>1. ExtraDvds(c) > 0 <=> Wanted(c, AddDvd)
    BY DEF Wanted, AddDvd
  <2>2. AddDvd \in Repeated /\ Rank[AddDvd] = 14
    BY RankOf DEF Repeated, AddDvd
  <2> QED BY <2>1, <2>2, SizesType, RepeatedQueue, BlockAlone
<1>3. Queue(c, net, 15, 15)
  <2>1. c.switchVlan # "" <=> Wanted(c, "SetNetworkAdapterVlanId")
    BY DEF Wanted
  <2> QED BY <2>1, SettingQueue, RankOf DEF Names, Repeated
<1>4. Queue(c, vlan, 16, 16)
  <2>1. c.vlan # "" <=> Wanted(c, "SetVirtualMachineVlanId")
    BY DEF Wanted
  <2> QED BY <2>1, SettingQueue, RankOf DEF Names, Repeated
<1>5. Queue(c, order, 17, 17)
  <2>1. c.bootOrder \in BOOLEAN /\ (c.bootOrder <=> Wanted(c, "SetBootOrder"))
    BY DEF Request, Wanted
  <2> QED BY <2>1, SettingQueue, RankOf DEF Names, Repeated
<1>6. Queue(c, StepSetFirstBootDevice(c), 18, 18)
  <2> DEFINE cond == c.firstBoot # "" /\ (c.firstBoot = "CD" => c.media = "iso")
  <2>1. cond <=> Wanted(c, "SetFirstBootDevice")
    BY DEF Wanted
  <2>2. cond \in BOOLEAN
    OBVIOUS
  <2> HIDE DEF cond
  <2>3. Queue(c, When(cond, "SetFirstBootDevice"), 18, 18)
    BY <2>1, <2>2, SettingQueue, RankOf DEF Names, Repeated
  <2> QED BY <2>3 DEF StepSetFirstBootDevice, cond
<1>7. MediaAndBoot(c) =
        ((((StepMountDvdDrive(c) \o dvds) \o net) \o vlan) \o order) \o StepSetFirstBootDevice(c)
  <2>1. Times(ExtraDvds(c), "CreateDvdDrive") = dvds
    <3>1. \A i \in 1 .. ExtraDvds(c) : DvdSizes(c)[i] = 0
      BY DEF DvdSizes
    <3> QED BY <3>1 DEF Times, Call, ExtraDvds, AddDvd
  <2> QED BY <2>1 DEF MediaAndBoot
<1>8. AddDvd \in Names /\ Rank[AddDvd] = 14 /\ DvdSizes(c) \in Seq(Nat)
  BY RankOf, SizesType DEF Names, AddDvd
<1> HIDE DEF dvds, net, vlan, order
<1> DEFINE s1 == StepMountDvdDrive(c) \o dvds
           s2 == s1 \o net
           s3 == s2 \o vlan
           s4 == s3 \o order
<1>9. Queue(c, s1, 12, 14) /\ Block(s1, AddDvd, 0, DvdSizes(c))
  BY <1>1, <1>2, <1>8, Join, BlockJoin
<1> HIDE DEF s1
<1>10. Queue(c, s2, 12, 15) /\ Block(s2, AddDvd, 0, DvdSizes(c))
  BY <1>3, <1>9, <1>8, Join, BlockJoin
<1> HIDE DEF s2
<1>11. Queue(c, s3, 12, 16) /\ Block(s3, AddDvd, 0, DvdSizes(c))
  BY <1>4, <1>10, <1>8, Join, BlockJoin
<1> HIDE DEF s3
<1>12. Queue(c, s4, 12, 17) /\ Block(s4, AddDvd, 0, DvdSizes(c))
  BY <1>5, <1>11, <1>8, Join, BlockJoin
<1> HIDE DEF s4
<1>13. Queue(c, s4 \o StepSetFirstBootDevice(c), 12, 18)
       /\ Block(s4 \o StepSetFirstBootDevice(c), AddDvd, 0, DvdSizes(c))
  BY <1>6, <1>12, <1>8, Join, BlockJoin
<1>14. MediaAndBoot(c) = s4 \o StepSetFirstBootDevice(c)
  BY <1>7 DEF s1, s2, s3, s4
<1> QED BY <1>13, <1>14

(***************************************************************************)
(* CallsQueue: whatever the template, the driver calls are those that are  *)
(* wanted, each once but for the disks and the drives, in the same order.  *)
(***************************************************************************)
LEMMA CallsQueue ==
  ASSUME NEW c \in Request
  PROVE  /\ Queue(c, Calls(c), 1, 18)
         /\ Block(Calls(c), AddDisk, 0, DiskSizes(c))
         /\ Block(Calls(c), AddDvd, 0, DvdSizes(c))
<1> DEFINE making == IF c.builder = "iso" THEN StepCreateVM(c)
                     ELSE StepCloneVM(c) \o StepResizeVhd(c)
<1>1. Queue(c, making, 1, 11) /\ Block(making, AddDisk, 0, DiskSizes(c))
  BY CreateQueue, CloneQueue
<1>2. Queue(c, MediaAndBoot(c), 12, 18) /\ Block(MediaAndBoot(c), AddDvd, 0, DvdSizes(c))
  BY MediaQueue
<1>3. /\ AddDisk \in Names /\ Rank[AddDisk] = 9 /\ DiskSizes(c) \in Seq(Nat)
      /\ AddDvd \in Names /\ Rank[AddDvd] = 14 /\ DvdSizes(c) \in Seq(Nat)
  BY RankOf, SizesType DEF Names, AddDisk, AddDvd
<1>4. Calls(c) = making \o MediaAndBoot(c)
  BY DEF Calls
<1> HIDE DEF making
<1>5. Queue(c, making \o MediaAndBoot(c), 1, 18)
  BY <1>1, <1>2, Join
<1>6. Block(making \o MediaAndBoot(c), AddDisk, 0, DiskSizes(c))
  BY <1>1, <1>2, <1>3, BlockJoin
<1>7. Block(making \o MediaAndBoot(c), AddDvd, 0, DvdSizes(c))
  BY <1>1, <1>2, <1>3, BlockJoin
<1> QED BY <1>4, <1>5, <1>6, <1>7

(***************************************************************************)
(* The head of a queue and the rest of it.                                 *)
(***************************************************************************)
LEMMA QueueHead ==
  ASSUME NEW c, NEW s, NEW lo \in Nat, Queue(c, s, lo, 18), s # <<>>
  PROVE  LET X == Head(s).call IN
         /\ X \in Names /\ Head(s).mb \in Nat /\ Head(s) = s[1] /\ 1 \in 1 .. Len(s)
         /\ Wanted(c, X) /\ HasCall(s, X)
         /\ X \notin Repeated => Head(s).mb = SizeOf(c, X)
         /\ \A Y \in Names : Rank[Y] < Rank[X] => ~HasCall(s, Y)
         /\ \A Y \in Names : Rank[X] < Rank[Y] /\ Wanted(c, Y) => HasCall(s, Y)
         /\ \A Y \in Names \ {X} : HasCall(Tail(s), Y) <=> HasCall(s, Y)
         /\ X \notin Repeated => ~HasCall(Tail(s), X)
         /\ \E next \in Nat : Queue(c, Tail(s), next, 18)
<1> DEFINE X == Head(s).call
           t == Tail(s)
<1>1. s \in Seq(CallRecord) /\ Len(s) \in Nat /\ Len(s) > 0 /\ Head(s) = s[1]
  BY QueueType
<1>2. t \in Seq(CallRecord) /\ Len(t) = Len(s) - 1 /\ \A i \in 1 .. Len(t) : t[i] = s[i + 1]
  BY <1>1, HeadTailProperties
<1>3. 1 \in 1 .. Len(s)
  BY <1>1
<1>4. /\ X \in Names /\ Head(s).mb \in Nat /\ Wanted(c, X)
      /\ X \notin Repeated => Head(s).mb = SizeOf(c, X)
      /\ lo <= Rank[X] /\ Rank[X] \in Nat /\ Rank[X] <= 18 /\ 1 <= Rank[X]
  <2>1. /\ s[1].call \in Names /\ s[1].mb \in Nat
        /\ lo <= Rank[s[1].call] /\ Rank[s[1].call] \in Nat
    BY <1>3, QueueType
  <2>2. /\ Wanted(c, s[1].call)
        /\ s[1].call \notin Repeated => s[1].mb = SizeOf(c, s[1].call)
    BY <1>3 DEF Queue
  <2> QED BY <1>1, <2>1, <2>2, RankType
<1>0. X = s[1].call
  BY <1>1
<1> HIDE DEF X, t
<1>5. \A i \in 1 .. Len(t) : i + 1 \in 1 .. Len(s) /\ 1 < i + 1 /\ t[i] = s[i + 1]
  BY <1>1, <1>2
<1>6. \A i \in 1 .. Len(s) : Rank[s[i].call] \in Nat /\ s[i].call \in Names
  BY QueueType
<1>7. \A i \in 1 .. Len(t) : Rank[X] < Rank[t[i].call] \/ (t[i].call = X /\ X \in Repeated)
  <2> SUFFICES ASSUME NEW i \in 1 .. Len(t)
               PROVE  Rank[X] < Rank[t[i].call] \/ (t[i].call = X /\ X \in Repeated)
    OBVIOUS
  <2>1. \/ Rank[s[1].call] < Rank[s[i + 1].call]
        \/ s[1].call = s[i + 1].call /\ s[1].call \in Repeated
    BY <1>3, <1>5 DEF Queue
  <2> QED BY <2>1, <1>0, <1>5
<1>8. \A i \in 1 .. Len(s) : i = 1 \/ (i - 1 \in 1 .. Len(t) /\ s[i] = t[i - 1])
  <2> SUFFICES ASSUME NEW i \in 1 .. Len(s), i # 1
               PROVE  i - 1 \in 1 .. Len(t) /\ s[i] = t[i - 1]
    OBVIOUS
  <2>1. i - 1 \in 1 .. Len(t) /\ (i - 1) + 1 = i
    BY <1>1, <1>2
  <2> QED BY <2>1, <1>2
<1>9. HasCall(s, X)
  BY <1>0, <1>3 DEF HasCall
<1>10. \A Y \in Names : Y # X => (HasCall(t, Y) <=> HasCall(s, Y))
  <2> SUFFICES ASSUME NEW Y \in Names, Y # X PROVE HasCall(t, Y) <=> HasCall(s, Y)
    OBVIOUS
  <2>1. HasCall(t, Y) => HasCall(s, Y)
    BY <1>5 DEF HasCall
  <2>2. HasCall(s, Y) => HasCall(t, Y)
    BY <1>0, <1>8 DEF HasCall
  <2> QED BY <2>1, <2>2
<1>11. X \notin Repeated => ~HasCall(t, X)
  BY <1>4, <1>7 DEF HasCall
<1>12. ASSUME NEW Y \in Names, Rank[Y] < Rank[X] PROVE ~HasCall(s, Y)
  <2> SUFFICES ASSUME NEW i \in 1 .. Len(s), s[i].call = Y PROVE FALSE
    BY DEF HasCall
  <2>1. Rank[Y] \in Nat
    BY RankType
  <2>2. CASE i = 1
    BY <2>1, <2>2, <1>0, <1>4, <1>12
  <2>3. CASE i - 1 \in 1 .. Len(t) /\ s[i] = t[i - 1]
    <3>1. Rank[X] < Rank[t[i - 1].call] \/ t[i - 1].call = X
      BY <2>3, <1>7
    <3> QED BY <3>1, <2>1, <2>3, <1>4, <1>12
  <2> QED BY <2>2, <2>3, <1>8
<1>13. ASSUME NEW Y \in Names, Rank[X] < Rank[Y], Wanted(c, Y) PROVE HasCall(s, Y)
  <2>1. Rank[Y] \in Nat /\ Rank[Y] <= 18
    BY RankType
  <2>2. lo <= Rank[Y]
    BY <2>1, <1>4, <1>13
  <2> QED BY <2>1, <2>2, <1>13 DEF Queue
<1>14. \E next \in Nat : Queue(c, t, next, 18)
  <2> DEFINE next == IF HasCall(t, X) THEN Rank[X] ELSE Rank[X] + 1
  <2>1. next \in Nat
    BY <1>4
  <2>2. ASSUME NEW i \in 1 .. Len(t)
        PROVE  /\ Wanted(c, t[i].call)
               /\ next <= Rank[t[i].call] /\ Rank[t[i].call] <= 18
               /\ t[i].call \notin Repeated => t[i].mb = SizeOf(c, t[i].call)
    <3>1. /\ Wanted(c, t[i].call) /\ Rank[t[i].call] \in Nat /\ Rank[t[i].call] <= 18
          /\ t[i].call \notin Repeated => t[i].mb = SizeOf(c, t[i].call)
      BY <1>5, <1>6, QueueType DEF Queue
    <3>2. Rank[X] <= Rank[t[i].call]
      BY <1>4, <1>7, <3>1
    <3>3. ~HasCall(t, X) => Rank[X] < Rank[t[i].call]
      BY <1>7 DEF HasCall
    <3>4. next <= Rank[t[i].call]
      BY <3>1, <3>2, <3>3, <1>4
    <3> QED BY <3>1, <3>4
  <2>3. ASSUME NEW Y \in Names, Wanted(c, Y), next <= Rank[Y], Rank[Y] <= 18
        PROVE  HasCall(t, Y)
    <3>1. Rank[Y] \in Nat
      BY RankType
    <3>2. CASE Y = X
      BY <3>2, <2>3, <1>4
    <3>3. CASE Y # X
      <4>1. Rank[X] < Rank[Y]
        BY <3>1, <3>3, <2>3, <1>4, RankInjective
      <4> QED BY <4>1, <3>3, <2>3, <1>10, <1>13
    <3> QED BY <3>2, <3>3
  <2>4. \A i, j \in 1 .. Len(t) :
          i < j => \/ Rank[t[i].call] < Rank[t[j].call]
                   \/ t[i].call = t[j].call /\ t[i].call \in Repeated
    <3> SUFFICES ASSUME NEW i \in 1 .. Len(t), NEW j \in 1 .. Len(t), i < j
                 PROVE  \/ Rank[t[i].call] < Rank[t[j].call]
                        \/ t[i].call = t[j].call /\ t[i].call \in Repeated
      OBVIOUS
    <3>1. i + 1 < j + 1 /\ i + 1 \in 1 .. Len(s) /\ j + 1 \in 1 .. Len(s)
      BY <1>5, <1>1, <1>2
    <3> QED BY <3>1, <1>5 DEF Queue
  <2> HIDE DEF next
  <2> QED BY <2>1, <2>2, <2>3, <2>4, <1>2 DEF Queue, t
<1> QED BY <1>1, <1>3, <1>4, <1>9, <1>10, <1>11, <1>12, <1>13, <1>14 DEF t, X

(***************************************************************************)
(* A block when the head of the list is taken off.                         *)
(***************************************************************************)
LEMMA BlockTail ==
  ASSUME NEW s \in Seq(CallRecord), s # <<>>, NEW X, NEW n, NEW sizes \in Seq(Nat),
         Block(s, X, n, sizes)
  PROVE  /\ n \in 0 .. Len(sizes)
         /\ Head(s).call # X => Block(Tail(s), X, n, sizes)
         /\ Head(s).call = X => /\ n + 1 \in 1 .. Len(sizes) /\ Head(s).mb = sizes[n + 1]
                                /\ Block(Tail(s), X, n + 1, sizes)
<1> DEFINE t == Tail(s)
<1>1. Len(s) \in Nat /\ Len(s) > 0 /\ Head(s) = s[1] /\ Len(sizes) \in Nat
  OBVIOUS
<1>2. Len(t) = Len(s) - 1 /\ \A i \in 1 .. Len(t) : t[i] = s[i + 1]
  BY <1>1, HeadTailProperties
<1>3. /\ \A i \in 1 .. Len(t) : i + 1 \in 1 .. Len(s) /\ t[i] = s[i + 1]
      /\ 1 \in 1 .. Len(s)
  BY <1>1, <1>2
<1>4. n \in 0 .. Len(sizes)
  BY DEF Block
<1>5. PICK k \in 0 .. Len(s) :
        /\ k + Len(sizes) - n <= Len(s)
        /\ \A i \in 1 .. Len(s) : s[i].call = X <=> k < i /\ i <= k + Len(sizes) - n
        /\ \A i \in 1 .. Len(s) : s[i].call = X => s[i].mb = sizes[n + i - k]
  BY DEF Block
<1> HIDE DEF t
<1>6. ASSUME Head(s).call = X
      PROVE  /\ n + 1 \in 1 .. Len(sizes) /\ Head(s).mb = sizes[n + 1]
             /\ Block(t, X, n + 1, sizes)
  <2>1. k < 1 /\ 1 <= k + Len(sizes) - n /\ s[1].mb = sizes[n + 1 - k]
    BY <1>1, <1>3, <1>5, <1>6
  <2>2. k = 0 /\ n + 1 <= Len(sizes)
    BY <2>1, <1>1, <1>4, <1>5
  <2>3. n + 1 \in 1 .. Len(sizes) /\ n + 1 \in 0 .. Len(sizes) /\ n + 1 - k = n + 1
    BY <2>2, <1>1, <1>4
  <2>4. 0 \in 0 .. Len(t) /\ 0 + Len(sizes) - (n + 1) <= Len(t)
    BY <2>2, <1>1, <1>2, <1>4, <1>5
  <2>5. ASSUME NEW i \in 1 .. Len(t)
        PROVE  /\ t[i].call = X <=> 0 < i /\ i <= 0 + Len(sizes) - (n + 1)
               /\ t[i].call = X => t[i].mb = sizes[(n + 1) + i - 0]
    <3>1. t[i].call = X <=> 0 < i + 1 /\ i + 1 <= 0 + Len(sizes) - n
      BY <2>2, <1>3, <1>5
    <3>2. t[i].call = X => t[i].mb = sizes[n + (i + 1) - 0]
      BY <2>2, <1>3, <1>5
    <3>3. /\ 0 < i + 1 /\ i + 1 <= 0 + Len(sizes) - n <=> 0 < i /\ i <= 0 + Len(sizes) - (n + 1)
          /\ n + (i + 1) - 0 = (n + 1) + i - 0
      BY <1>1, <1>4
    <3> QED BY <3>1, <3>2, <3>3
  <2>6. Block(t, X, n + 1, sizes)
    BY <2>3, <2>4, <2>5 DEF Block
  <2> QED BY <2>1, <2>3, <2>6, <1>1
<1>7. ASSUME Head(s).call # X PROVE Block(t, X, n, sizes)
  <2>1. ~(k < 1 /\ 1 <= k + Len(sizes) - n)
    BY <1>1, <1>3, <1>5, <1>7
  <2>2. CASE k = 0
    <3>1. Len(sizes) - n = 0
      BY <2>1, <2>2, <1>1, <1>4
    <3>2. 0 \in 0 .. Len(t) /\ 0 + Len(sizes) - n <= Len(t)
      BY <3>1, <1>1, <1>2, <1>4
    <3>3. \A i \in 1 .. Len(t) : t[i].call # X
      <4> SUFFICES ASSUME NEW i \in 1 .. Len(t) PROVE t[i].call # X
        OBVIOUS
      <4>1. ~(i + 1 <= k + Len(sizes) - n)
        BY <2>2, <3>1, <1>1, <1>4
      <4> QED BY <4>1, <1>3, <1>5
    <3>4. \A i \in 1 .. Len(t) : ~(0 < i /\ i <= 0 + Len(sizes) - n)
      BY <3>1, <1>1, <1>4
    <3> QED BY <1>4, <3>2, <3>3, <3>4 DEF Block
  <2>3. CASE k # 0
    <3>1. k - 1 \in 0 .. Len(t) /\ (k - 1) + Len(sizes) - n <= Len(t)
      BY <2>3, <1>1, <1>2, <1>4, <1>5
    <3>2. ASSUME NEW i \in 1 .. Len(t)
          PROVE  /\ t[i].call = X <=> k - 1 < i /\ i <= (k - 1) + Len(sizes) - n
                 /\ t[i].call = X => t[i].mb = sizes[n + i - (k - 1)]
      <4>1. t[i].call = X <=> k < i + 1 /\ i + 1 <= k + Len(sizes) - n
        BY <1>3, <1>5
      <4>2. t[i].call = X => t[i].mb = sizes[n + (i + 1) - k]
        BY <1>3, <1>5
      <4>3. /\ k < i + 1 /\ i + 1 <= k + Len(sizes) - n
                 <=> k - 1 < i /\ i <= (k - 1) + Len(sizes) - n
            /\ n + (i + 1) - k = n + i - (k - 1)
        BY <1>1, <1>4
      <4> QED BY <4>1, <4>2, <4>3
    <3> QED BY <1>4, <3>1, <3>2 DEF Block
  <2> QED BY <2>2, <2>3
<1> QED BY <1>4, <1>6, <1>7 DEF t

\* A block of which nothing is in the list is done.
LEMMA BlockDone ==
  ASSUME NEW s \in Seq(CallRecord), NEW X, NEW n, NEW sizes \in Seq(Nat),
         Block(s, X, n, sizes), ~HasCall(s, X)
  PROVE  n = Len(sizes)
<1>1. Len(s) \in Nat /\ Len(sizes) \in Nat /\ n \in 0 .. Len(sizes)
  BY DEF Block
<1>2. PICK k \in 0 .. Len(s) :
        /\ k + Len(sizes) - n <= Len(s)
        /\ \A i \in 1 .. Len(s) : s[i].call = X <=> k < i /\ i <= k + Len(sizes) - n
  BY DEF Block
<1>3. ASSUME n < Len(sizes) PROVE FALSE
  <2>1. k + 1 \in 1 .. Len(s) /\ k < k + 1 /\ k + 1 <= k + Len(sizes) - n
    BY <1>1, <1>2, <1>3
  <2> QED BY <2>1, <1>2 DEF HasCall
<1> QED BY <1>1, <1>3

(***************************************************************************)
(* The invariant at the start and up to the list of calls.                 *)
(***************************************************************************)
LEMMA NoGuestType == NoGuest \in Guest /\ NoGuest.generation = 0
<1>1. <<>> \in Seq(Nat)
  OBVIOUS
<1>2. 0 \in Nat /\ 0 \in {0, 1, 2}
  OBVIOUS
<1> QED BY <1>1, <1>2 DEF NoGuest, Guest, Vlan

LEMMA DefaultsType ==
  ASSUME NEW c \in Request
  PROVE  /\ Defaults(c) \in Request
         /\ Defaults(c).generation \in {1, 2}
         /\ Defaults(c).switchVlan = c.switchVlan
<1> DEFINE g == IF c.generation \in 1 .. 2 THEN c.generation ELSE 1
           m == Or(c.memory, 1024)
           b == Or(c.blockSize, 32)
           d == IF NewDisk(c) THEN Or(c.diskSize, 40 * 1024) ELSE c.diskSize
<1>1. Defaults(c) = [c EXCEPT !.generation = g, !.memory = m, !.blockSize = b, !.diskSize = d]
  BY DEF Defaults, Request
<1>2. g \in Nat /\ g \in {1, 2}
  <2>1. c.generation \in Nat
    BY DEF Request
  <2>2. CASE c.generation \in 1 .. 2
    BY <2>1, <2>2
  <2>3. CASE c.generation \notin 1 .. 2
    BY <2>3
  <2> QED BY <2>2, <2>3
<1>3. m \in Nat /\ b \in Nat /\ d \in Nat
  <2>1. c.memory \in Nat /\ c.blockSize \in Nat /\ c.diskSize \in Nat
    BY DEF Request
  <2> QED BY <2>1 DEF Or
<1> HIDE DEF g, m, b, d
<1>4. [c EXCEPT !.generation = g, !.memory = m, !.blockSize = b, !.diskSize = d] \in Request
  BY <1>2, <1>3 DEF Request
<1>5. [c EXCEPT !.generation = g, !.memory = m, !.blockSize = b, !.diskSize = d].generation = g
  BY DEF Request
<1>6. [c EXCEPT !.generation = g, !.memory = m, !.blockSize = b, !.diskSize = d].switchVlan
        = c.switchVlan
  BY DEF Request
<1> QED BY <1>1, <1>2, <1>4, <1>5, <1>6

LEMMA SetupInit == Init => SetupInv
<1> SUFFICES ASSUME Init PROVE SetupInv
  OBVIOUS
<1>1. config \in Request /\ asked \in Request /\ config = asked
  <2>1. asked \in Requests /\ config = asked
    BY DEF Init
  <2> QED BY <2>1, RequestsAssumption
<1>2. todo = <<>> /\ todo \in Seq(CallRecord) /\ DOMAIN todo = {}
  <2>1. todo = <<>>
    BY DEF Init
  <2>2. <<>> \in Seq(CallRecord) /\ DOMAIN <<>> = {}
    OBVIOUS
  <2> QED BY <2>1, <2>2
<1>3. guest = NoGuest /\ guest \in Guest /\ guest.generation = 0
  BY NoGuestType DEF Init
<1>4. TypeOK
  BY <1>1, <1>2, <1>3 DEF Init, TypeOK, Vlan
<1>5. ~SetUp
  BY <1>3 DEF SetUp, Init
<1> QED BY <1>1, <1>2, <1>3, <1>4, <1>5
        DEF Init, SetupInv, ConfigInv, QueueInv, GuestInv, RefusedInv

LEMMA WarningsType ==
  ASSUME NEW c
  PROVE  Warnings(c) \subseteq {"dynamic_memory", "mac_spoofing", "memory", "vlan"}
  BY DEF Warnings

LEMMA PrepareStep == ASSUME SetupInv, Prepare PROVE SetupInv'
<1>1. config' \in Request /\ asked' \in Request /\ config = asked
  BY DefaultsType DEF SetupInv, TypeOK, ConfigInv, Prepare
<1>2. /\ phase' = "rejected" \/ (phase' = "driver" /\ ~Rejects(config'))
      /\ config' = Defaults(asked') /\ warnings' = Warnings(config')
      /\ phase = "prepare" /\ UNCHANGED <<todo, guest, hostVlan>>
  BY <1>1 DEF Prepare
<1>3. TypeOK'
  BY <1>1, <1>2, WarningsType DEF SetupInv, TypeOK
<1>4. ConfigInv'
  BY <1>1, <1>2 DEF ConfigInv
<1>5. guest'.generation = 0 /\ ~SetUp'
  BY <1>2 DEF SetupInv, QueueInv, SetUp
<1>6. QueueInv' /\ GuestInv' /\ RefusedInv'
  BY <1>2, <1>5 DEF SetupInv, QueueInv, GuestInv, RefusedInv
<1> QED BY <1>3, <1>4, <1>6 DEF SetupInv

LEMMA NewDriverStep == ASSUME SetupInv, NewDriver PROVE SetupInv'
<1>1. /\ guest = NoGuest /\ guest' = NoGuest /\ guest.generation = 0 /\ hostVlan' = ""
      /\ config \in Request /\ config' = config /\ UNCHANGED <<asked, warnings, hostVlan>>
      /\ phase = "driver"
  BY DEF NewDriver, SetupInv, QueueInv, ConfigInv
<1>2. CASE phase' = "failed" /\ todo' = todo
  <2>1. TypeOK' /\ ConfigInv' /\ ~SetUp' /\ QueueInv'
    BY <1>1, <1>2 DEF SetupInv, TypeOK, ConfigInv, QueueInv, SetUp
  <2> QED BY <1>2, <2>1 DEF SetupInv, GuestInv, RefusedInv
<1>3. CASE phase' = "setup" /\ todo' = Calls(config)
  <2>1. /\ Queue(config, todo', 1, 18)
        /\ Block(todo', AddDisk, 0, DiskSizes(config))
        /\ Block(todo', AddDvd, 0, DvdSizes(config))
    BY <1>1, <1>3, CallsQueue
  <2>2. todo' \in Seq(CallRecord) /\ \A i \in DOMAIN todo' : todo'[i].mb \in Nat
    <3>1. DOMAIN todo' = 1 .. Len(todo')
      BY <2>1, QueueType
    <3> QED BY <2>1, <3>1, QueueType
  <2>3. TypeOK' /\ ConfigInv'
    BY <1>1, <1>3, <2>2 DEF SetupInv, TypeOK, ConfigInv
  <2>4. QueueInv' /\ RefusedInv'
    BY <1>1, <1>3, <2>1, <2>2 DEF QueueInv, RefusedInv
  <2>5. \A X \in Names : ~Done(X)'
    BY <1>1, <2>1, RankType DEF Done, Queue
  <2>6. Settings' /\ Boots'
    <3>1. /\ ~Done("CreateVirtualMachine")' /\ ~Done("CloneVirtualMachine")'
          /\ ~Done("ReplaceVirtualMachineNetworkAdapter")'
          /\ ~Done("SetVirtualMachineDynamicMemory")'
          /\ ~Done("SetVirtualMachineMacSpoofing")'
          /\ ~Done("SetVirtualMachineSecureBoot")' /\ ~Done("SetVirtualMachineTPM")'
          /\ ~Done("SetVirtualMachineVirtualizationExtensions")'
          /\ ~Done("SetVmNetworkAdapterMacAddress")' /\ ~Done("CreateOsDvdDrive")'
          /\ ~Done("SetBootDvdDrive")' /\ ~Done("SetNetworkAdapterVlanId")'
          /\ ~Done("SetVirtualMachineVlanId")' /\ ~Done("SetBootOrder")'
          /\ ~Done("SetFirstBootDevice")'
      BY <2>5 DEF Names
    <3>2. Settings'
      BY <1>1, <3>1 DEF Settings, Machine, Inherited, Options, Vlans, Kept, NoGuest
    <3>3. Boots'
      BY <1>1, <3>1 DEF Boots, NoGuest
    <3> QED BY <3>2, <3>3
  <2>7. Disks' /\ Dvds'
    <3>1. Len(guest'.additional) = 0 /\ guest'.dvds - One(guest'.osDvd) = 0
      <4>1. NoGuest.additional = <<>> /\ NoGuest.dvds = 0 /\ NoGuest.osDvd = FALSE
        BY DEF NoGuest
      <4>2. guest'.additional = <<>> /\ guest'.dvds = 0 /\ guest'.osDvd = FALSE
        BY <1>1, <4>1
      <4>3. One(guest'.osDvd) = 0
        BY <4>2 DEF One
      <4>4. Len(guest'.additional) = 0
        BY <4>2
      <4> QED BY <4>2, <4>3, <4>4
    <3>2. 1 .. Len(guest'.additional) = {}
      BY <3>1
    <3> QED BY <1>1, <2>1, <3>1, <3>2 DEF Disks, Dvds, AddDisk, AddDvd
  <2> QED BY <2>3, <2>4, <2>6, <2>7 DEF SetupInv, GuestInv
<1> QED BY <1>2, <1>3 DEF NewDriver

(***************************************************************************)
(* One driver call.                                                        *)
(***************************************************************************)
Performed ==
  /\ SetupInv /\ phase = "setup" /\ todo # <<>> /\ HostTakes(Head(todo))
  /\ todo' = Tail(todo) /\ phase' = phase
  /\ guest' = Applied(Head(todo))
  /\ hostVlan' = IF Head(todo).call = "SetNetworkAdapterVlanId" THEN config.vlan ELSE hostVlan
  /\ UNCHANGED <<config, asked, warnings>>

\* Which call it is, and which ones are done then.
LEMMA HeadDone ==
  ASSUME Performed, NEW X, X = Head(todo).call
  PROVE  /\ X \in Names /\ Head(todo).mb \in Nat /\ Wanted(config, X)
         /\ X \notin Repeated => Head(todo).mb = SizeOf(config, X)
         /\ todo' \in Seq(CallRecord)
         /\ \E lo \in Nat : Queue(config, todo', lo, 18)
         /\ \A Y \in Names : Y # X => (Done(Y)' <=> Done(Y))
         /\ X \notin Repeated => Done(X)'
         /\ ~Done(X)
         /\ \A Y \in Names : Rank[X] < Rank[Y] => ~Done(Y)
         /\ \A Y \in Names : Rank[Y] < Rank[X] /\ Wanted(config, Y) => Done(Y)
<1>1. /\ todo # <<>> /\ todo' = Tail(todo) /\ config' = config
      /\ \E lo \in Nat : Queue(config, todo, lo, 18)
  BY DEF Performed, SetupInv, QueueInv, SetUp
<1>2. /\ X \in Names /\ Head(todo).mb \in Nat /\ Wanted(config, X) /\ HasCall(todo, X)
      /\ X \notin Repeated => Head(todo).mb = SizeOf(config, X)
      /\ \A Y \in Names : Rank[Y] < Rank[X] => ~HasCall(todo, Y)
      /\ \A Y \in Names : Rank[X] < Rank[Y] /\ Wanted(config, Y) => HasCall(todo, Y)
      /\ \A Y \in Names \ {X} : HasCall(todo', Y) <=> HasCall(todo, Y)
      /\ X \notin Repeated => ~HasCall(todo', X)
      /\ \E next \in Nat : Queue(config, todo', next, 18)
  BY <1>1, QueueHead
<1>3. todo' \in Seq(CallRecord)
  BY <1>2, QueueType
<1>4. \A Y \in Names : Y # X => (Done(Y)' <=> Done(Y))
  <2> SUFFICES ASSUME NEW Y \in Names, Y # X PROVE Done(Y)' <=> Done(Y)
    OBVIOUS
  <2>1. HasCall(todo', Y) <=> HasCall(todo, Y)
    BY <1>2
  <2> QED BY <1>1, <2>1 DEF Done
<1>5. X \notin Repeated => Done(X)'
  BY <1>1, <1>2 DEF Done
<1>6. ~Done(X)
  BY <1>2 DEF Done
<1>7. \A Y \in Names : Rank[X] < Rank[Y] => ~Done(Y)
  BY <1>2 DEF Done
<1>8. \A Y \in Names : Rank[Y] < Rank[X] /\ Wanted(config, Y) => Done(Y)
  BY <1>2 DEF Done
<1> QED BY <1>2, <1>3, <1>4, <1>5, <1>6, <1>7, <1>8

LEMMA OneMore == ASSUME NEW k \in Nat PROVE k + 1 \in Nat
  OBVIOUS

\* What a call does to a machine that is there, field by field.
Changed(X, mb, g, c, n) ==
  /\ n \in Guest
  /\ n.generation = g.generation /\ n.memory = g.memory /\ n.ide = g.ide /\ n.scsi = g.scsi
  /\ n.disk = IF X = "ResizeVirtualMachineVhd" THEN mb ELSE g.disk
  /\ n.additional = IF X = AddDisk THEN Append(g.additional, mb) ELSE g.additional
  /\ n.legacyAdapter <=> X = "ReplaceVirtualMachineNetworkAdapter" \/ g.legacyAdapter
  /\ n.dynamicMemory <=> IF X = "SetVirtualMachineDynamicMemory" THEN c.dynamicMemory
                         ELSE g.dynamicMemory
  /\ n.macSpoofing <=> /\ X # "ReplaceVirtualMachineNetworkAdapter"
                       /\ X = "SetVirtualMachineMacSpoofing" \/ g.macSpoofing
  /\ n.secureBoot <=> IF X = "SetVirtualMachineSecureBoot" THEN c.secureBoot ELSE g.secureBoot
  /\ n.tpm <=> X = "SetVirtualMachineTPM" \/ g.tpm
  /\ n.virtExt <=> X = "SetVirtualMachineVirtualizationExtensions" \/ g.virtExt
  /\ n.mac <=> /\ X # "ReplaceVirtualMachineNetworkAdapter"
               /\ X = "SetVmNetworkAdapterMacAddress" \/ g.mac
  /\ n.vlan = IF X = "SetVirtualMachineVlanId" THEN c.vlan
              ELSE IF X = "ReplaceVirtualMachineNetworkAdapter" THEN "" ELSE g.vlan
  /\ n.osDvd <=> X = "CreateOsDvdDrive" \/ g.osDvd
  /\ n.dvds = IF X \in {"CreateOsDvdDrive", AddDvd} THEN g.dvds + 1 ELSE g.dvds
  /\ X \notin {"SetBootDvdDrive", "SetBootOrder", "SetFirstBootDevice"} => n.boot = g.boot
  /\ X = "SetBootOrder" => n.boot = "SCSI:0:1"
  /\ X = "SetFirstBootDevice" => n.boot = c.firstBoot
  /\ X = "SetBootDvdDrive" =>
       n.boot = IF c.generation = 1 THEN "IDE"
                ELSE IF c.generation = 2 /\ g.generation = 2 THEN "CD" ELSE g.boot

LEMMA CallChanges ==
  ASSUME guest \in Guest, config \in Request, NEW X \in Names, NEW mb \in Nat, NEW call,
         call.call = X, call.mb = mb,
         X \notin {"CreateVirtualMachine", "CloneVirtualMachine"},
         X = "SetFirstBootDevice" => config.firstBoot # ""
  PROVE  Changed(X, mb, guest, config, Applied(call))
<1> DEFINE n == Applied(call)
<1>1. CASE X = "ReplaceVirtualMachineNetworkAdapter"
  <2>1. n = [guest EXCEPT !.legacyAdapter = TRUE, !.macSpoofing = FALSE,
                                  !.mac = FALSE, !.vlan = ""]
    BY <1>1 DEF Applied
  <2>2. "" \in Vlan
    BY DEF Vlan
  <2>3. n \in Guest
    BY <2>1, <2>2 DEF Guest
  <2>4. /\ n.generation = guest.generation /\ n.memory = guest.memory /\ n.disk = guest.disk
        /\ n.ide = guest.ide /\ n.scsi = guest.scsi
        /\ n.additional = guest.additional /\ n.dynamicMemory = guest.dynamicMemory
        /\ n.secureBoot = guest.secureBoot /\ n.tpm = guest.tpm /\ n.virtExt = guest.virtExt
        /\ n.dvds = guest.dvds /\ n.osDvd = guest.osDvd /\ n.boot = guest.boot
        /\ n.legacyAdapter /\ ~n.macSpoofing /\ ~n.mac /\ n.vlan = ""
    BY <2>1 DEF Guest
  <2> HIDE DEF n
  <2>5. Changed(X, mb, guest, config, n)
    BY <1>1, <2>3, <2>4 DEF Changed, AddDisk, AddDvd
  <2> QED BY <2>5 DEF n
<1>2. CASE X = "SetVirtualMachineDynamicMemory"
  <2>1. n = [guest EXCEPT !.dynamicMemory = config.dynamicMemory]
    BY <1>2 DEF Applied
  <2> QED BY <1>2, <2>1, ZenonT(60) DEF Guest, Changed, AddDisk, AddDvd, Request
<1>3. CASE X = "SetVirtualMachineMacSpoofing"
  <2>1. n = [guest EXCEPT !.macSpoofing = TRUE]
    BY <1>3 DEF Applied
  <2> QED BY <1>3, <2>1, ZenonT(60) DEF Guest, Changed, AddDisk, AddDvd
<1>4. CASE X = "SetVirtualMachineSecureBoot"
  <2>1. n = [guest EXCEPT !.secureBoot = config.secureBoot]
    BY <1>4 DEF Applied
  <2> QED BY <1>4, <2>1, ZenonT(60) DEF Guest, Changed, AddDisk, AddDvd, Request
<1>5. CASE X = "SetVirtualMachineTPM"
  <2>1. n = [guest EXCEPT !.tpm = TRUE]
    BY <1>5 DEF Applied
  <2> QED BY <1>5, <2>1, ZenonT(60) DEF Guest, Changed, AddDisk, AddDvd
<1>6. CASE X = "SetVirtualMachineVirtualizationExtensions"
  <2>1. n = [guest EXCEPT !.virtExt = TRUE]
    BY <1>6 DEF Applied
  <2> QED BY <1>6, <2>1, ZenonT(60) DEF Guest, Changed, AddDisk, AddDvd
<1>7. CASE X = "AddVirtualMachineHardDrive"
  <2>1. n = [guest EXCEPT !.additional = Append(guest.additional, mb)]
    BY <1>7 DEF Applied
  <2>2. guest.additional \in Seq(Nat)
    BY DEF Guest
  <2>3. Append(guest.additional, mb) \in Seq(Nat)
    BY <2>2, AppendProperties
  <2> DEFINE a == Append(guest.additional, mb)
  <2> HIDE DEF a
  <2>4. n \in Guest
    BY <2>1, <2>3 DEF Guest, a
  <2>5. n = [guest EXCEPT !.additional = a] /\ n.additional = a
    BY <2>1 DEF Guest, a
  <2>6. Changed(X, mb, guest, config, n) <=> n.additional = Append(guest.additional, mb)
    BY <1>7, <2>4, <2>5, SMTT(60) DEF Guest, Changed, AddDisk, AddDvd
  <2> QED BY <2>5, <2>6 DEF a
<1>8. CASE X = "SetVmNetworkAdapterMacAddress"
  <2>1. n = [guest EXCEPT !.mac = TRUE]
    BY <1>8 DEF Applied
  <2> QED BY <1>8, <2>1, ZenonT(60) DEF Guest, Changed, AddDisk, AddDvd
<1>9. CASE X = "ResizeVirtualMachineVhd"
  <2>1. n = [guest EXCEPT !.disk = mb]
    BY <1>9 DEF Applied
  <2> QED BY <1>9, <2>1 DEF Guest, Changed, AddDisk, AddDvd
<1>10. CASE X = "CreateOsDvdDrive"
  <2>1. n = [guest EXCEPT !.dvds = guest.dvds + 1, !.osDvd = TRUE]
    BY <1>10 DEF Applied
  <2>2. guest.dvds \in Nat
    BY DEF Guest
  <2>3. guest.dvds + 1 \in Nat
    BY <2>2, OneMore
  <2> DEFINE dvds == guest.dvds + 1
  <2>4. dvds \in Nat /\ n = [guest EXCEPT !.dvds = dvds, !.osDvd = TRUE]
    BY <2>1, <2>3 DEF dvds
  <2> HIDE DEF n, dvds
  <2>5. n \in Guest
    BY <2>4 DEF Guest
  <2>6. /\ n.generation = guest.generation /\ n.memory = guest.memory /\ n.disk = guest.disk
        /\ n.ide = guest.ide /\ n.scsi = guest.scsi
        /\ n.additional = guest.additional /\ n.dynamicMemory = guest.dynamicMemory
        /\ n.secureBoot = guest.secureBoot /\ n.tpm = guest.tpm /\ n.virtExt = guest.virtExt
        /\ n.legacyAdapter = guest.legacyAdapter /\ n.macSpoofing = guest.macSpoofing
        /\ n.mac = guest.mac /\ n.vlan = guest.vlan /\ n.boot = guest.boot
        /\ n.dvds = dvds /\ n.osDvd
    BY <2>4 DEF Guest
  <2>7. Changed(X, mb, guest, config, n)
    BY <1>10, <2>5, <2>6 DEF Changed, AddDisk, AddDvd, dvds
  <2> QED BY <2>7 DEF n
<1>11. CASE X = "CreateDvdDrive"
  <2>1. n = [guest EXCEPT !.dvds = guest.dvds + 1]
    BY <1>11 DEF Applied
  <2>2. guest.dvds + 1 \in Nat
    <3>1. guest.dvds \in Nat
      BY DEF Guest
    <3> QED BY <3>1, OneMore
  <2> DEFINE dvds == guest.dvds + 1
  <2>3. dvds \in Nat /\ n = [guest EXCEPT !.dvds = dvds]
    BY <2>1, <2>2
  <2> HIDE DEF n, dvds
  <2>4. n \in Guest
    BY <2>3 DEF Guest
  <2>5. /\ n.generation = guest.generation /\ n.memory = guest.memory /\ n.disk = guest.disk
        /\ n.ide = guest.ide /\ n.scsi = guest.scsi
        /\ n.additional = guest.additional /\ n.dynamicMemory = guest.dynamicMemory
        /\ n.secureBoot = guest.secureBoot /\ n.tpm = guest.tpm /\ n.virtExt = guest.virtExt
        /\ n.legacyAdapter = guest.legacyAdapter /\ n.macSpoofing = guest.macSpoofing
        /\ n.mac = guest.mac /\ n.vlan = guest.vlan /\ n.boot = guest.boot
        /\ n.dvds = dvds /\ n.osDvd = guest.osDvd
    BY <2>3 DEF Guest
  <2>6. Changed(X, mb, guest, config, n)
    BY <1>11, <2>4, <2>5 DEF Changed, AddDisk, AddDvd, dvds
  <2> QED BY <2>6 DEF n
<1>12. CASE X = "SetNetworkAdapterVlanId"
  <2>1. n = guest
    BY <1>12 DEF Applied
  <2> QED BY <1>12, <2>1 DEF Guest, Changed, AddDisk, AddDvd
<1>13. CASE X = "SetVirtualMachineVlanId"
  <2>1. n = [guest EXCEPT !.vlan = config.vlan]
    BY <1>13 DEF Applied
  <2>2. config.vlan \in Vlan
    BY DEF Request
  <2> QED BY <1>13, <2>1, <2>2, SMTT(60) DEF Guest, Changed, AddDisk, AddDvd
<1>14. CASE X = "SetBootOrder"
  <2>1. n = [guest EXCEPT !.boot = "SCSI:0:1"]
    BY <1>14 DEF Applied
  <2> QED BY <1>14, <2>1, SMTT(60) DEF Guest, Changed, AddDisk, AddDvd
<1>15. CASE X = "SetFirstBootDevice"
  <2>1. n = [guest EXCEPT !.boot = config.firstBoot]
    BY <1>15 DEF Applied
  <2>2. config.firstBoot \in {"IDE", "CD", "NET", "FLOPPY", "IDE:0:0", "SCSI:0:1"}
    BY <1>15 DEF Request
  <2> DEFINE b == config.firstBoot
  <2>3. n = [guest EXCEPT !.boot = b]
        /\ b \in {"default", "IDE", "CD", "NET", "FLOPPY", "IDE:0:0", "SCSI:0:1"}
    BY <2>1, <2>2
  <2> HIDE DEF b, n
  <2>4. n \in Guest
    BY <2>3 DEF Guest
  <2>5. /\ n.generation = guest.generation /\ n.memory = guest.memory /\ n.disk = guest.disk
        /\ n.ide = guest.ide /\ n.scsi = guest.scsi
        /\ n.additional = guest.additional /\ n.dynamicMemory = guest.dynamicMemory
        /\ n.secureBoot = guest.secureBoot /\ n.tpm = guest.tpm /\ n.virtExt = guest.virtExt
        /\ n.legacyAdapter = guest.legacyAdapter /\ n.macSpoofing = guest.macSpoofing
        /\ n.mac = guest.mac /\ n.vlan = guest.vlan /\ n.dvds = guest.dvds
        /\ n.osDvd = guest.osDvd /\ n.boot = b
    BY <2>3 DEF Guest
  <2>6. Changed(X, mb, guest, config, n)
    BY <1>15, <2>4, <2>5 DEF Changed, AddDisk, AddDvd, b
  <2> QED BY <2>6 DEF n
<1>16. CASE X = "SetBootDvdDrive"
  <2>1. n = IF config.generation = 1 THEN [guest EXCEPT !.boot = "IDE"]
            ELSE IF config.generation = 2 /\ guest.generation = 2 THEN [guest EXCEPT !.boot = "CD"]
            ELSE guest
    BY <1>16 DEF Applied
  <2>2. CASE config.generation = 1
    <3>1. n = [guest EXCEPT !.boot = "IDE"]
      BY <2>1, <2>2
    <3> HIDE DEF n
    <3>2. Changed(X, mb, guest, config, n)
      BY <1>16, <2>2, <3>1, SMTT(60) DEF Guest, Changed, AddDisk, AddDvd
    <3> QED BY <3>2 DEF n
  <2>3. CASE config.generation # 1 /\ config.generation = 2 /\ guest.generation = 2
    <3>1. n = [guest EXCEPT !.boot = "CD"]
      BY <2>1, <2>3
    <3> HIDE DEF n
    <3>2. Changed(X, mb, guest, config, n)
      BY <1>16, <2>3, <3>1, SMTT(60) DEF Guest, Changed, AddDisk, AddDvd
    <3> QED BY <3>2 DEF n
  <2>4. CASE config.generation # 1 /\ ~(config.generation = 2 /\ guest.generation = 2)
    <3>1. n = guest
      BY <2>1, <2>4
    <3> HIDE DEF n
    <3>2. Changed(X, mb, guest, config, n)
      BY <1>16, <2>4, <3>1, SMTT(60) DEF Guest, Changed, AddDisk, AddDvd
    <3> QED BY <3>2 DEF n
  <2> QED BY <2>2, <2>3, <2>4
<1> QED BY <1>1, <1>2, <1>3, <1>4, <1>5, <1>6, <1>7, <1>8, <1>9, <1>10,
         <1>11, <1>12, <1>13, <1>14, <1>15, <1>16
   DEF Names


\* Every other call that leaves a setting is done if it was.
OthersDone(X) ==
  /\ X # "CreateVirtualMachine" =>
       (Done("CreateVirtualMachine")' <=> Done("CreateVirtualMachine"))
  /\ X # "CloneVirtualMachine" =>
       (Done("CloneVirtualMachine")' <=> Done("CloneVirtualMachine"))
  /\ X # "ReplaceVirtualMachineNetworkAdapter" =>
       (Done("ReplaceVirtualMachineNetworkAdapter")'
          <=> Done("ReplaceVirtualMachineNetworkAdapter"))
  /\ X # "SetVirtualMachineDynamicMemory" =>
       (Done("SetVirtualMachineDynamicMemory")'
          <=> Done("SetVirtualMachineDynamicMemory"))
  /\ X # "SetVirtualMachineMacSpoofing" =>
       (Done("SetVirtualMachineMacSpoofing")' <=> Done("SetVirtualMachineMacSpoofing"))
  /\ X # "SetVirtualMachineSecureBoot" =>
       (Done("SetVirtualMachineSecureBoot")' <=> Done("SetVirtualMachineSecureBoot"))
  /\ X # "SetVirtualMachineTPM" =>
       (Done("SetVirtualMachineTPM")' <=> Done("SetVirtualMachineTPM"))
  /\ X # "SetVirtualMachineVirtualizationExtensions" =>
       (Done("SetVirtualMachineVirtualizationExtensions")'
          <=> Done("SetVirtualMachineVirtualizationExtensions"))
  /\ X # "SetVmNetworkAdapterMacAddress" =>
       (Done("SetVmNetworkAdapterMacAddress")' <=> Done("SetVmNetworkAdapterMacAddress"))
  /\ X # "ResizeVirtualMachineVhd" =>
       (Done("ResizeVirtualMachineVhd")' <=> Done("ResizeVirtualMachineVhd"))
  /\ X # "CreateOsDvdDrive" =>
       (Done("CreateOsDvdDrive")' <=> Done("CreateOsDvdDrive"))
  /\ X # "SetBootDvdDrive" =>
       (Done("SetBootDvdDrive")' <=> Done("SetBootDvdDrive"))
  /\ X # "SetNetworkAdapterVlanId" =>
       (Done("SetNetworkAdapterVlanId")' <=> Done("SetNetworkAdapterVlanId"))
  /\ X # "SetVirtualMachineVlanId" =>
       (Done("SetVirtualMachineVlanId")' <=> Done("SetVirtualMachineVlanId"))
  /\ X # "SetBootOrder" =>
       (Done("SetBootOrder")' <=> Done("SetBootOrder"))
  /\ X # "SetFirstBootDevice" =>
       (Done("SetFirstBootDevice")' <=> Done("SetFirstBootDevice"))


\* What it does to the machine.
GuestChange ==
  LET X == Head(todo).call IN
    /\ guest' \in Guest /\ hostVlan' \in Vlan
    /\ Settings' /\ Boots' /\ guest'.generation # 0
    /\ X # AddDisk => guest'.additional = guest.additional
    /\ X = AddDisk => guest'.additional = Append(guest.additional, Head(todo).mb)
    /\ X # AddDvd => guest'.dvds - One(guest'.osDvd) = guest.dvds - One(guest.osDvd)
    /\ X = AddDvd => guest'.dvds - One(guest'.osDvd) = guest.dvds - One(guest.osDvd) + 1

LEMMA AfterMakers ==
  ASSUME NEW Y \in Names, Y \notin {"CreateVirtualMachine", "CloneVirtualMachine"}
  PROVE  2 < Rank[Y]
BY RankOf DEF Names

\* The calls that do not make the machine.
LEMMA SettingStep ==
  ASSUME Performed, Head(todo).call \notin {"CreateVirtualMachine", "CloneVirtualMachine"}
  PROVE  GuestChange
<1> SUFFICES ASSUME NEW X, X = Head(todo).call, NEW mb, mb = Head(todo).mb PROVE GuestChange
  OBVIOUS
<1>1. /\ X \in Names /\ mb \in Nat /\ Wanted(config, X)
      /\ X \notin Repeated => mb = SizeOf(config, X)
      /\ \A Y \in Names : Y # X => (Done(Y)' <=> Done(Y))
      /\ X \notin Repeated => Done(X)'
      /\ ~Done(X)
      /\ \A Y \in Names : Rank[X] < Rank[Y] => ~Done(Y)
      /\ \A Y \in Names : Rank[Y] < Rank[X] /\ Wanted(config, Y) => Done(Y)
  BY HeadDone
<1>2. /\ guest \in Guest /\ config \in Request /\ hostVlan \in Vlan
      /\ Machine /\ Inherited /\ Options /\ Vlans /\ Boots
      /\ config' = config /\ guest' = Applied(Head(todo))
      /\ hostVlan' = IF X = "SetNetworkAdapterVlanId" THEN config.vlan ELSE hostVlan
      /\ X \notin {"CreateVirtualMachine", "CloneVirtualMachine"}
  BY DEF Performed, SetupInv, TypeOK, QueueInv, GuestInv, SetUp, Settings
<1>3. guest.generation # 0
  <2>1. Wanted(config, "CreateVirtualMachine") \/ Wanted(config, "CloneVirtualMachine")
    BY DEF Wanted
  <2>2. 2 < Rank[X]
    BY <1>2, <1>1, AfterMakers
  <2>3. Done("CreateVirtualMachine") \/ Done("CloneVirtualMachine")
    BY <1>1, <2>1, <2>2, RankOf DEF Names
  <2> QED BY <1>2, <2>3 DEF Machine
<1>4. OthersDone(X)
  BY <1>1 DEF OthersDone, Names
<1>5. Changed(X, mb, guest, config, guest')
  <2>1. X = "SetFirstBootDevice" => config.firstBoot # ""
    BY <1>1 DEF Wanted
  <2> QED BY <1>1, <1>2, <2>1, CallChanges
<1>6. X = "ResizeVirtualMachineVhd" => mb = config.diskSize
  BY <1>1 DEF SizeOf, Repeated
<1>7. Machine'
  <2>1. X = "ResizeVirtualMachineVhd" => Done("ResizeVirtualMachineVhd")'
    BY <1>1 DEF Repeated
  <2> QED BY <1>2, <1>3, <1>4, <1>5, <1>6, <2>1
          DEF Machine, OthersDone, Changed, NewDisk, MachineGeneration, SourceIde, SourceScsi
<1>8. Inherited'
  <2>1. /\ X = "SetVirtualMachineDynamicMemory" => Done("SetVirtualMachineDynamicMemory")'
        /\ X = "SetVirtualMachineMacSpoofing" => Done("SetVirtualMachineMacSpoofing")'
        /\ X = "ReplaceVirtualMachineNetworkAdapter" =>
             Done("ReplaceVirtualMachineNetworkAdapter")'
        /\ X = "SetVirtualMachineTPM" => Done("SetVirtualMachineTPM")'
        /\ X = "SetVirtualMachineVirtualizationExtensions" =>
             Done("SetVirtualMachineVirtualizationExtensions")'
        /\ X = "SetVmNetworkAdapterMacAddress" => Done("SetVmNetworkAdapterMacAddress")'
    BY <1>1 DEF Repeated
  <2>2. X = "ReplaceVirtualMachineNetworkAdapter" =>
          /\ ~Done("SetVirtualMachineMacSpoofing") /\ ~Done("SetVmNetworkAdapterMacAddress")
          /\ config.builder = "iso"
    <3>1. X = "ReplaceVirtualMachineNetworkAdapter" => config.builder = "iso"
      BY <1>1 DEF Wanted
    <3>2. X = "ReplaceVirtualMachineNetworkAdapter" =>
            ~Done("SetVirtualMachineMacSpoofing") /\ ~Done("SetVmNetworkAdapterMacAddress")
      BY <1>1, RankOf DEF Names
    <3> QED BY <3>1, <3>2
  <2>3. guest'.generation # 0
    BY <1>3, <1>5 DEF Changed
  <2>4. guest'.dynamicMemory <=>
          IF Done("SetVirtualMachineDynamicMemory")' THEN config.dynamicMemory
          ELSE config.builder # "iso" /\ config.source.dynamicMemory
    BY <1>2, <1>3, <1>4, <1>5, <2>1 DEF Inherited, OthersDone, Changed, Kept
  <2>5. guest'.macSpoofing <=>
          \/ Done("SetVirtualMachineMacSpoofing")'
          \/ config.builder # "iso" /\ config.source.macSpoofing
    BY <1>2, <1>3, <1>4, <1>5, <2>1, <2>2 DEF Inherited, OthersDone, Changed, Kept
  <2>6. /\ guest'.legacyAdapter <=>
             \/ Done("ReplaceVirtualMachineNetworkAdapter")'
             \/ config.builder # "iso" /\ config.source.legacyAdapter
        /\ guest'.tpm <=>
             Done("SetVirtualMachineTPM")' \/ (config.builder # "iso" /\ config.source.tpm)
        /\ guest'.virtExt <=>
             \/ Done("SetVirtualMachineVirtualizationExtensions")'
             \/ config.builder # "iso" /\ config.source.virtExt
    BY <1>2, <1>3, <1>4, <1>5, <2>1 DEF Inherited, OthersDone, Changed, Kept
  <2>7. guest'.mac <=>
          \/ Done("SetVmNetworkAdapterMacAddress")'
          \/ config.builder # "iso" /\ config.source.mac
    BY <1>2, <1>3, <1>4, <1>5, <2>1, <2>2 DEF Inherited, OthersDone, Changed, Kept
  <2> QED BY <1>2, <2>3, <2>4, <2>5, <2>6, <2>7 DEF Inherited, Kept
<1>9. Options'
  <2>1. /\ X = "SetVirtualMachineSecureBoot" => Done("SetVirtualMachineSecureBoot")'
        /\ X = "CreateOsDvdDrive" => Done("CreateOsDvdDrive")'
    BY <1>1 DEF Repeated
  <2> QED BY <1>2, <1>4, <1>5, <2>1 DEF Options, OthersDone, Changed
<1>10. Vlans'
  <2>1. /\ X = "SetNetworkAdapterVlanId" => Done("SetNetworkAdapterVlanId")'
        /\ X = "SetVirtualMachineVlanId" => Done("SetVirtualMachineVlanId")'
    BY <1>1 DEF Repeated
  <2>2. X = "ReplaceVirtualMachineNetworkAdapter" =>
          ~Done("SetVirtualMachineVlanId") /\ config.builder = "iso"
    <3>1. X = "ReplaceVirtualMachineNetworkAdapter" => config.builder = "iso"
      BY <1>1 DEF Wanted
    <3>2. X = "ReplaceVirtualMachineNetworkAdapter" => ~Done("SetVirtualMachineVlanId")
      BY <1>1, RankOf DEF Names
    <3> QED BY <3>1, <3>2
  <2>3. guest'.generation # 0
    BY <1>3, <1>5 DEF Changed
  <2>4. guest'.vlan = IF Done("SetVirtualMachineVlanId")' THEN config.vlan
                      ELSE IF config.builder # "iso" THEN config.source.vlan ELSE ""
    <3>1. guest.vlan = IF Done("SetVirtualMachineVlanId") THEN config.vlan
                       ELSE IF config.builder # "iso" THEN config.source.vlan ELSE ""
      BY <1>2, <1>3 DEF Vlans, Kept
    <3>2. X # "SetVirtualMachineVlanId" =>
            (Done("SetVirtualMachineVlanId")' <=> Done("SetVirtualMachineVlanId"))
      BY <1>4 DEF OthersDone
    <3>3. guest'.vlan = IF X = "SetVirtualMachineVlanId" THEN config.vlan
                        ELSE IF X = "ReplaceVirtualMachineNetworkAdapter" THEN "" ELSE guest.vlan
      BY <1>5 DEF Changed
    <3> QED BY <2>1, <2>2, <3>1, <3>2, <3>3
  <2>5. hostVlan' = IF Done("SetNetworkAdapterVlanId")' THEN config.vlan ELSE ""
    BY <1>2, <1>4, <2>1 DEF Vlans, OthersDone
  <2> QED BY <1>2, <2>3, <2>4, <2>5 DEF Vlans, Kept
<1>11. Boots'
  <2>1. /\ X = "SetFirstBootDevice" => Done("SetFirstBootDevice")'
        /\ X = "SetBootOrder" => Done("SetBootOrder")' /\ ~Done("SetFirstBootDevice")
        /\ X = "SetBootDvdDrive" =>
             /\ Done("SetBootDvdDrive")' /\ ~Done("SetFirstBootDevice") /\ ~Done("SetBootOrder")
             /\ ~Done("SetBootDvdDrive")
    BY <1>1, RankOf DEF Names, Repeated
  <2>2. config.generation \in {1, 2}
    BY DefaultsType DEF Performed, SetupInv, ConfigInv
  <2>3. X = "SetBootDvdDrive" => config.generation = 2 \/ guest.generation = 1
    BY DEF Performed, HostTakes
  <2> QED BY <1>2, <1>4, <1>5, <2>1, <2>2, <2>3 DEF Boots, OsDvdBoots, OthersDone, Changed
<1>12. /\ guest' \in Guest /\ hostVlan' \in Vlan /\ guest'.generation # 0
       /\ X # AddDisk => guest'.additional = guest.additional
       /\ X = AddDisk => guest'.additional = Append(guest.additional, mb)
  BY <1>2, <1>3, <1>5 DEF Changed, Request
<1>13. /\ X # AddDvd => guest'.dvds - One(guest'.osDvd) = guest.dvds - One(guest.osDvd)
       /\ X = AddDvd => guest'.dvds - One(guest'.osDvd) = guest.dvds - One(guest.osDvd) + 1
  <2>1. X = "CreateOsDvdDrive" => ~guest.osDvd
    BY <1>1, <1>2 DEF Options
  <2>2. guest.dvds \in Nat
    BY <1>2 DEF Guest
  <2>3. (guest'.osDvd <=> X = "CreateOsDvdDrive" \/ guest.osDvd)
        /\ guest'.dvds = IF X \in {"CreateOsDvdDrive", AddDvd} THEN guest.dvds + 1 ELSE guest.dvds
    BY <1>5 DEF Changed
  <2> QED BY <2>1, <2>2, <2>3 DEF One, AddDvd
<1> QED BY <1>7, <1>8, <1>9, <1>10, <1>11, <1>12, <1>13 DEF GuestChange, Settings

\* The call that makes the machine.
LEMMA MakerStep ==
  ASSUME Performed, Head(todo).call \in {"CreateVirtualMachine", "CloneVirtualMachine"}
  PROVE  GuestChange
<1> SUFFICES ASSUME NEW X, X = Head(todo).call, NEW mb, mb = Head(todo).mb PROVE GuestChange
  OBVIOUS
<1>1. /\ X \in Names /\ mb \in Nat /\ Wanted(config, X)
      /\ X \notin Repeated => mb = SizeOf(config, X)
      /\ \A Y \in Names : Y # X => (Done(Y)' <=> Done(Y))
      /\ X \notin Repeated => Done(X)'
      /\ ~Done(X)
      /\ \A Y \in Names : Rank[X] < Rank[Y] => ~Done(Y)
  BY HeadDone
<1>2. /\ config \in Request /\ hostVlan \in Vlan /\ Machine
      /\ guest.generation = 0 => guest = NoGuest /\ hostVlan = ""
      /\ config' = config /\ guest' = Applied(Head(todo))
      /\ hostVlan' = IF X = "SetNetworkAdapterVlanId" THEN config.vlan ELSE hostVlan
      /\ X \in {"CreateVirtualMachine", "CloneVirtualMachine"}
      /\ config.generation \in {1, 2}
  BY DefaultsType DEF Performed, SetupInv, TypeOK, ConfigInv, QueueInv, GuestInv, SetUp, Settings
<1>3. /\ X = "CreateVirtualMachine" => config.builder = "iso" /\ mb = config.memory
      /\ X = "CloneVirtualMachine" => config.builder # "iso" /\ mb = EarlyMB(config.memory)
  BY <1>1, <1>2 DEF Wanted, SizeOf, Repeated
<1>4. \A Y \in Names : Y # X => ~Done(Y)
  <2> SUFFICES ASSUME NEW Y \in Names, Y # X PROVE ~Done(Y)
    OBVIOUS
  <2>1. CASE Y = "CreateVirtualMachine"
    BY <1>2, <1>3, <2>1 DEF Done, Wanted
  <2>2. CASE Y = "CloneVirtualMachine"
    BY <1>2, <1>3, <2>2 DEF Done, Wanted
  <2>3. CASE Y \notin {"CreateVirtualMachine", "CloneVirtualMachine"}
    <3>1. Rank[X] < Rank[Y]
      <4>1. Rank[X] = 1 \/ Rank[X] = 2
        BY <1>2, RankOf
      <4>2. 2 < Rank[Y]
        BY <2>3, AfterMakers
      <4> QED BY <4>1, <4>2, RankType
    <3> QED BY <1>1, <3>1
  <2> QED BY <2>1, <2>2, <2>3
<1>5. guest = NoGuest /\ hostVlan' = ""
  <2>1. ~Done("CreateVirtualMachine") /\ ~Done("CloneVirtualMachine")
    BY <1>1, <1>2, <1>4 DEF Names
  <2> QED BY <1>2, <2>1 DEF Machine
<1>6. /\ \A Y \in Names : Y # X => ~Done(Y)'
      /\ Done(X)'
  BY <1>1, <1>2, <1>4 DEF Repeated
<1>7. /\ ~Done("ReplaceVirtualMachineNetworkAdapter")'
      /\ ~Done("SetVirtualMachineDynamicMemory")' /\ ~Done("SetVirtualMachineMacSpoofing")'
      /\ ~Done("SetVirtualMachineSecureBoot")' /\ ~Done("SetVirtualMachineTPM")'
      /\ ~Done("SetVirtualMachineVirtualizationExtensions")'
      /\ ~Done("SetVmNetworkAdapterMacAddress")' /\ ~Done("ResizeVirtualMachineVhd")'
      /\ ~Done("CreateOsDvdDrive")' /\ ~Done("SetBootDvdDrive")'
      /\ ~Done("SetNetworkAdapterVlanId")' /\ ~Done("SetVirtualMachineVlanId")'
      /\ ~Done("SetBootOrder")' /\ ~Done("SetFirstBootDevice")'
      /\ Done("CreateVirtualMachine")' \/ Done("CloneVirtualMachine")'
  BY <1>2, <1>6 DEF Names
<1>8. guest' = IF X = "CreateVirtualMachine" THEN Created(mb) ELSE Cloned(mb)
  BY <1>2 DEF Applied
<1> DEFINE disk == IF NewDisk(config) THEN config.diskSize ELSE config.source.disk
<1>9. disk \in Nat /\ config.source.generation \in {1, 2}
  BY <1>2 DEF Request
<1>10. /\ guest' \in Guest /\ guest'.generation = MachineGeneration(config)
       /\ guest'.memory = mb /\ guest'.disk = disk
       /\ guest'.ide = SourceIde(config) /\ guest'.scsi = SourceScsi(config)
       /\ guest'.dynamicMemory <=> config.builder # "iso" /\ config.source.dynamicMemory
       /\ guest'.macSpoofing <=> config.builder # "iso" /\ config.source.macSpoofing
       /\ guest'.legacyAdapter <=> config.builder # "iso" /\ config.source.legacyAdapter
       /\ guest'.tpm <=> config.builder # "iso" /\ config.source.tpm
       /\ guest'.virtExt <=> config.builder # "iso" /\ config.source.virtExt
       /\ guest'.mac <=> config.builder # "iso" /\ config.source.mac
       /\ guest'.vlan = IF config.builder # "iso" THEN config.source.vlan ELSE ""
       /\ guest'.additional = guest.additional /\ ~guest'.secureBoot
       /\ guest'.boot = "default" /\ guest'.dvds = guest.dvds /\ guest'.osDvd = guest.osDvd
       /\ ~guest'.osDvd
  <2>1. NoGuest \in Guest
    BY NoGuestType
  <2>2. CASE X = "CreateVirtualMachine"
    <3> DEFINE g == config.generation
    <3>1. guest' = [NoGuest EXCEPT !.generation = g, !.memory = mb, !.disk = disk]
      BY <1>8, <2>2 DEF Created
    <3>2. g \in {1, 2} /\ disk \in Nat
      BY <1>2, <1>9
    <3> HIDE DEF g, disk
    <3>3. guest' \in Guest
      BY <1>1, <2>1, <3>1, <3>2 DEF Guest
    <3>4. /\ guest'.generation = g
          /\ guest'.memory = mb /\ guest'.disk = disk /\ guest'.ide = 0 /\ guest'.scsi = 0
          /\ ~guest'.dynamicMemory /\ ~guest'.macSpoofing
          /\ guest'.additional = guest.additional /\ ~guest'.legacyAdapter /\ ~guest'.secureBoot
          /\ ~guest'.tpm /\ ~guest'.virtExt /\ ~guest'.mac /\ guest'.vlan = ""
          /\ guest'.boot = "default" /\ guest'.dvds = guest.dvds /\ guest'.osDvd = guest.osDvd
          /\ ~guest'.osDvd
      BY <1>5, <3>1 DEF NoGuest
    <3> QED BY <1>3, <2>2, <3>3, <3>4 DEF g, MachineGeneration, SourceIde, SourceScsi
  <2>3. CASE X = "CloneVirtualMachine"
    <3> DEFINE g == config.source.generation
               d == config.source.disk
               i == config.source.ide
               z == config.source.scsi
               l == config.source.legacyAdapter
               m == config.source.dynamicMemory
               s == config.source.macSpoofing
               t == config.source.tpm
               e == config.source.virtExt
               a == config.source.mac
               v == config.source.vlan
    <3>1. guest' = [NoGuest EXCEPT !.generation = g, !.memory = mb, !.disk = d, !.ide = i,
                                   !.scsi = z, !.legacyAdapter = l, !.dynamicMemory = m,
                                   !.macSpoofing = s, !.tpm = t, !.virtExt = e, !.mac = a,
                                   !.vlan = v]
      BY <1>2, <1>8, <2>3 DEF Cloned
    <3>2. /\ g \in {1, 2} /\ d \in Nat /\ i \in Nat /\ z \in Nat /\ l \in BOOLEAN
          /\ m \in BOOLEAN /\ s \in BOOLEAN /\ t \in BOOLEAN /\ e \in BOOLEAN
          /\ a \in BOOLEAN /\ v \in Vlan
      BY <1>2 DEF Request
    <3>3. disk = d /\ SourceIde(config) = i /\ SourceScsi(config) = z
      BY <1>3, <2>3 DEF NewDisk, SourceIde, SourceScsi
    <3> HIDE DEF g, d, i, z, l, m, s, t, e, a, v, disk
    <3>4. guest' \in Guest
      <4> DEFINE n == [NoGuest EXCEPT !.generation = g, !.memory = mb, !.disk = d, !.ide = i,
                                      !.scsi = z, !.legacyAdapter = l]
      <4>1. n \in Guest
        BY <1>1, <2>1, <3>2, ZenonT(60) DEF Guest
      <4>2. guest' = [n EXCEPT !.dynamicMemory = m, !.macSpoofing = s, !.tpm = t, !.virtExt = e,
                               !.mac = a, !.vlan = v]
        BY <3>1
      <4> HIDE DEF n
      <4> DEFINE o == [n EXCEPT !.dynamicMemory = m, !.macSpoofing = s, !.tpm = t]
      <4>3. o \in Guest
        BY <3>2, <4>1, ZenonT(60) DEF Guest
      <4>4. guest' = [o EXCEPT !.virtExt = e, !.mac = a, !.vlan = v]
        BY <4>2
      <4> HIDE DEF o
      <4> QED BY <3>2, <4>3, <4>4, ZenonT(60) DEF Guest
    <3>5. /\ guest'.generation = g
          /\ guest'.memory = mb /\ guest'.disk = d /\ guest'.ide = i /\ guest'.scsi = z
          /\ guest'.legacyAdapter = l /\ guest'.dynamicMemory = m /\ guest'.macSpoofing = s
          /\ guest'.tpm = t /\ guest'.virtExt = e /\ guest'.mac = a /\ guest'.vlan = v
          /\ guest'.additional = guest.additional /\ ~guest'.secureBoot
          /\ guest'.boot = "default" /\ guest'.dvds = guest.dvds /\ guest'.osDvd = guest.osDvd
          /\ ~guest'.osDvd
      BY <1>5, <3>1, ZenonT(60) DEF NoGuest
    <3> QED BY <1>3, <2>3, <3>2, <3>3, <3>4, <3>5 DEF g, l, m, s, t, e, a, v, MachineGeneration
  <2> QED BY <1>2, <2>2, <2>3
<1>11. guest'.generation # 0
  <2>1. guest'.generation = IF config.builder = "iso" THEN config.generation
                            ELSE config.source.generation
    BY <1>10 DEF MachineGeneration
  <2>2. config.generation # 0 /\ config.source.generation # 0
    <3>1. config.generation \in {1, 2}
      BY <1>2
    <3>2. config.source.generation \in {1, 2}
      BY <1>9
    <3> QED BY <3>1, <3>2
  <2> QED BY <2>1, <2>2
<1>12. Machine'
  BY <1>2, <1>3, <1>7, <1>10, <1>11
     DEF Machine, MachineGeneration, NewDisk, SourceIde, SourceScsi
<1>13. Inherited'
  BY <1>2, <1>7, <1>10, <1>11 DEF Inherited, Kept
<1>14. Options' /\ Vlans'
  BY <1>2, <1>5, <1>7, <1>10, <1>11 DEF Options, Vlans, Kept
<1>15. Boots'
  BY <1>7, <1>10 DEF Boots
<1>16. hostVlan' \in Vlan
  BY <1>5 DEF Vlan
<1>17. X # AddDisk /\ X # AddDvd
  BY <1>2 DEF AddDisk, AddDvd
<1>18. guest'.dvds - One(guest'.osDvd) = guest.dvds - One(guest.osDvd)
  BY <1>10
<1> QED BY <1>10, <1>11, <1>12, <1>13, <1>14, <1>15, <1>16, <1>17, <1>18 DEF GuestChange, Settings

LEMMA GuestStep == ASSUME Performed PROVE GuestChange
  BY SettingStep, MakerStep

\* What is left of the repeated calls.
LEMMA RepeatedStep == ASSUME Performed PROVE Disks' /\ Dvds'
<1> SUFFICES ASSUME NEW X, X = Head(todo).call, NEW mb, mb = Head(todo).mb PROVE Disks' /\ Dvds'
  OBVIOUS
<1> DEFINE n == Len(guest.additional)
           d == guest.dvds - One(guest.osDvd)
<1>1. /\ todo \in Seq(CallRecord) /\ todo # <<>> /\ todo' = Tail(todo) /\ config' = config
      /\ config \in Request /\ guest \in Guest /\ mb \in Nat
      /\ Block(todo, AddDisk, n, DiskSizes(config)) /\ Block(todo, AddDvd, d, DvdSizes(config))
      /\ \A i \in 1 .. n : guest.additional[i] = DiskSizes(config)[i]
  BY HeadDone DEF Performed, SetupInv, TypeOK, QueueInv, GuestInv, SetUp, Disks, Dvds,
                   AddDisk, AddDvd
<1>2. /\ DiskSizes(config) \in Seq(Nat) /\ DvdSizes(config) \in Seq(Nat)
      /\ DiskSizes(config)' = DiskSizes(config) /\ DvdSizes(config)' = DvdSizes(config)
  BY <1>1, SizesType DEF DiskSizes, DvdSizes
<1>3. guest.additional \in Seq(Nat) /\ n \in Nat
  BY <1>1 DEF Guest
<1>4. CASE X = AddDisk
  <2>1. /\ mb = DiskSizes(config)[n + 1] /\ Block(todo', AddDisk, n + 1, DiskSizes(config))
    BY <1>1, <1>2, <1>4, BlockTail, SMTT(60)
  <2>2. Block(todo', AddDvd, d, DvdSizes(config))
    BY <1>1, <1>2, <1>4, BlockTail DEF AddDisk, AddDvd
  <2>3. guest'.additional = Append(guest.additional, mb) /\ guest'.dvds - One(guest'.osDvd) = d
    BY <1>4, GuestStep DEF GuestChange, AddDisk, AddDvd
  <2>4. /\ Len(guest'.additional) = n + 1
        /\ \A i \in 1 .. n : guest'.additional[i] = guest.additional[i]
        /\ guest'.additional[n + 1] = mb
    BY <1>1, <1>3, <2>3, AppendProperties
  <2>5. \A i \in 1 .. Len(guest'.additional) : guest'.additional[i] = DiskSizes(config)[i]
    <3> SUFFICES ASSUME NEW i \in 1 .. Len(guest'.additional)
                 PROVE  guest'.additional[i] = DiskSizes(config)[i]
      OBVIOUS
    <3>1. i \in 1 .. n \/ i = n + 1
      BY <1>3, <2>4
    <3> QED BY <1>1, <2>1, <2>4, <3>1
  <2> QED BY <1>1, <1>2, <2>1, <2>2, <2>3, <2>4, <2>5 DEF Disks, Dvds, AddDisk, AddDvd
<1>5. CASE X = AddDvd
  <2>1. Block(todo', AddDvd, d + 1, DvdSizes(config))
    BY <1>1, <1>2, <1>5, BlockTail
  <2>2. Block(todo', AddDisk, n, DiskSizes(config))
    BY <1>1, <1>2, <1>5, BlockTail DEF AddDisk, AddDvd
  <2>3. guest'.additional = guest.additional /\ guest'.dvds - One(guest'.osDvd) = d + 1
    BY <1>5, GuestStep DEF GuestChange, AddDisk, AddDvd
  <2> QED BY <1>1, <1>2, <2>1, <2>2, <2>3 DEF Disks, Dvds, AddDisk, AddDvd
<1>6. CASE X # AddDisk /\ X # AddDvd
  <2>1. /\ Block(todo', AddDvd, d, DvdSizes(config))
        /\ Block(todo', AddDisk, n, DiskSizes(config))
    BY <1>1, <1>2, <1>6, BlockTail
  <2>2. guest'.additional = guest.additional /\ guest'.dvds - One(guest'.osDvd) = d
    BY <1>6, GuestStep DEF GuestChange
  <2> QED BY <1>1, <1>2, <2>1, <2>2 DEF Disks, Dvds, AddDisk, AddDvd
<1> QED BY <1>4, <1>5, <1>6

LEMMA PerformedStep == ASSUME Performed PROVE SetupInv'
<1>1. /\ todo' \in Seq(CallRecord) /\ \E lo \in Nat : Queue(config, todo', lo, 18)
      /\ config' = config /\ phase = "setup" /\ phase' = phase
      /\ asked' = asked /\ warnings' = warnings
  <2> DEFINE X == Head(todo).call
  <2>1. todo' \in Seq(CallRecord) /\ \E lo \in Nat : Queue(config, todo', lo, 18)
    BY HeadDone, X = X
  <2> QED BY <2>1 DEF Performed
<1>2. /\ guest' \in Guest /\ hostVlan' \in Vlan /\ guest'.generation # 0
      /\ Settings' /\ Boots' /\ Disks' /\ Dvds'
  BY GuestStep, RepeatedStep DEF GuestChange
<1>3. TypeOK'
  <2>1. \A i \in DOMAIN todo' : todo'[i].mb \in Nat
    BY <1>1, QueueType
  <2> QED BY <1>1, <1>2, <2>1 DEF Performed, SetupInv, TypeOK
<1>4. ConfigInv'
  BY <1>1 DEF Performed, SetupInv, ConfigInv
<1>5. QueueInv' /\ RefusedInv' /\ GuestInv'
  BY <1>1, <1>2 DEF QueueInv, RefusedInv, GuestInv
<1> QED BY <1>3, <1>4, <1>5 DEF SetupInv

LEMMA SameGuest ==
  ASSUME UNCHANGED <<config, todo, guest, hostVlan>>, Settings, Boots, Disks, Dvds
  PROVE  Settings' /\ Boots' /\ Disks' /\ Dvds'
<1>1. Machine' /\ Inherited'
  BY DEF Settings, Machine, Inherited, Kept, Done, NewDisk, SourceIde, SourceScsi
<1>2. Options' /\ Vlans'
  BY DEF Settings, Options, Vlans, Kept, Done
<1>3. Boots'
  BY DEF Boots, OsDvdBoots, Done
<1>4. Disks' /\ Dvds'
  BY DEF Disks, Dvds
<1> QED BY <1>1, <1>2, <1>3, <1>4 DEF Settings

LEMMA PerformStep == ASSUME SetupInv, Perform PROVE SetupInv'
<1>1. CASE Performed
  BY <1>1, PerformedStep
<1>2. CASE ~Performed
  <2>1. /\ phase = "setup" /\ todo # <<>>
        /\ UNCHANGED <<config, asked, warnings, guest, todo, hostVlan>>
        /\ phase' = IF HostTakes(Head(todo)) THEN "failed" ELSE "refused"
    BY <1>2 DEF Perform, Performed
  <2>2. HostTakes(Head(todo))' <=> HostTakes(Head(todo))
    BY <2>1 DEF HostTakes, DiskFits, DvdFits, SecondScsiDevice, Bootable
  <2>3. TypeOK' /\ ConfigInv'
    BY <2>1 DEF SetupInv, TypeOK, ConfigInv
  <2>4. \E lo \in Nat : Queue(config, todo, lo, 18)
    BY <2>1 DEF SetupInv, QueueInv, SetUp
  <2>5. QueueInv'
    BY <2>1, <2>4 DEF SetupInv, QueueInv
  <2>6. GuestInv'
    <3>1. Settings /\ Boots /\ Disks /\ Dvds
      BY <2>1 DEF SetupInv, GuestInv, SetUp
    <3>2. Settings' /\ Boots' /\ Disks' /\ Dvds'
      BY <2>1, <3>1, SameGuest
    <3> QED BY <3>2 DEF GuestInv
  <2>7. RefusedInv'
    BY <2>1, <2>2 DEF RefusedInv
  <2> QED BY <2>3, <2>5, <2>6, <2>7 DEF SetupInv
<1> QED BY <1>1, <1>2

\* Nothing but the phase, between two phases in which the machine is set up.
LEMMA FinishStep == ASSUME SetupInv, Finish PROVE SetupInv'
<1>1. /\ phase = "setup" /\ todo = <<>> /\ phase' = "ready"
      /\ UNCHANGED <<config, asked, warnings, todo, guest, hostVlan>>
  BY DEF Finish
<1>2. /\ Settings /\ Boots /\ Disks /\ Dvds
      /\ \E lo \in Nat : Queue(config, todo, lo, 18)
  BY <1>1 DEF SetupInv, QueueInv, GuestInv, SetUp
<1>3. TypeOK' /\ ConfigInv' /\ QueueInv' /\ RefusedInv'
  BY <1>1, <1>2 DEF SetupInv, TypeOK, ConfigInv, QueueInv, RefusedInv
<1>4. Settings' /\ Boots' /\ Disks' /\ Dvds'
  BY <1>1, <1>2, SameGuest
<1> QED BY <1>3, <1>4 DEF SetupInv, GuestInv

LEMMA IdleStep == ASSUME SetupInv, UNCHANGED vars PROVE SetupInv'
<1>1. UNCHANGED <<config, asked, phase, warnings, todo, guest, hostVlan>>
  BY DEF vars
<1>2. TypeOK' /\ ConfigInv' /\ QueueInv'
  BY <1>1 DEF SetupInv, TypeOK, ConfigInv, QueueInv, SetUp
<1>3. GuestInv'
  BY <1>1 DEF SetupInv, GuestInv, SetUp, Settings, Machine, Inherited, Options, Vlans, Boots,
              OsDvdBoots, Kept, Disks, Dvds, Done, NewDisk, SourceIde, SourceScsi
<1>4. RefusedInv'
  BY <1>1 DEF SetupInv, RefusedInv, HostTakes, DiskFits, DvdFits, SecondScsiDevice, Bootable
<1> QED BY <1>2, <1>3, <1>4 DEF SetupInv

LEMMA SetupNext == ASSUME SetupInv, [Next]_vars PROVE SetupInv'
  BY PrepareStep, NewDriverStep, PerformStep, FinishStep, IdleStep DEF Next, Terminated

(***************************************************************************)
(* SetupCorrect: at every point of a setup, the calls left are those that  *)
(* the configuration wants from some rank on, and the machine is what the  *)
(* calls made so far, and no others, have made of it.                      *)
(***************************************************************************)
THEOREM SetupCorrect == Spec => []SetupInv
<1>1. Init => SetupInv
  BY SetupInit
<1>2. SetupInv /\ [Next]_vars => SetupInv'
  BY SetupNext
<1> QED BY <1>1, <1>2, PTL DEF Spec

\* TypeCorrect: TypeOK is a part of it.
THEOREM TypeCorrect == Spec => []TypeOK
<1>1. SetupInv => TypeOK
  BY DEF SetupInv
<1> QED BY <1>1, SetupCorrect, PTL

(***************************************************************************)
(* A machine that is ready has had every call it was to have.              *)
(***************************************************************************)
LEMMA ReadyDone ==
  ASSUME SetupInv, Ready
  PROVE  /\ config \in Request /\ config = Defaults(asked) /\ warnings = Warnings(config)
         /\ config.generation \in {1, 2} /\ guest \in Guest
         /\ guest.generation = MachineGeneration(config)
         /\ Settings /\ Boots
         /\ \A X \in Names : Done(X) <=> Wanted(config, X)
<1>1. /\ config \in Request /\ config = Defaults(asked) /\ warnings = Warnings(config)
      /\ asked \in Request /\ todo = <<>> /\ Settings /\ Boots /\ guest \in Guest
  BY DEF SetupInv, TypeOK, ConfigInv, QueueInv, GuestInv, SetUp, Ready
<1>2. \A X \in Names : Done(X) <=> Wanted(config, X)
  <2>1. Len(todo) = 0
    BY <1>1
  <2>2. 1 .. Len(todo) = {}
    BY <2>1
  <2> QED BY <2>2 DEF Done, HasCall
<1>3. guest.generation = MachineGeneration(config)
  <2>1. Wanted(config, "CreateVirtualMachine") \/ Wanted(config, "CloneVirtualMachine")
    BY DEF Wanted
  <2>2. Done("CreateVirtualMachine") \/ Done("CloneVirtualMachine")
    BY <1>2, <2>1 DEF Names
  <2> QED BY <1>1, <2>2 DEF Settings, Machine
<1> QED BY <1>1, <1>2, <1>3, DefaultsType

(***************************************************************************)
(* RequestedSettings: each setting of a machine that is ready is the one   *)
(* the template asked for, though the steps that make them may undo one    *)
(* another's (a new adapter has none of the old one's settings).           *)
(***************************************************************************)
THEOREM RequestedSettings == Spec => []AsRequested
<1>1. ASSUME SetupInv, Ready PROVE AsRequested
  <2>1. /\ config \in Request /\ guest \in Guest /\ guest.generation = MachineGeneration(config)
        /\ config.generation \in {1, 2}
        /\ Inherited /\ Options /\ Vlans
        /\ \A X \in Names : Done(X) <=> Wanted(config, X)
    BY <1>1, ReadyDone DEF Settings
  <2>2. config.builder = "vmcx" <=> config.builder # "iso"
    BY <2>1 DEF Request
  <2>3. guest.generation # 0
    <3>1. config.source.generation \in {1, 2}
      BY <2>1 DEF Request
    <3> QED BY <2>1, <3>1 DEF MachineGeneration
  <2>4. /\ guest.dynamicMemory <=>
             config.dynamicMemory \/ (config.builder = "vmcx" /\ config.source.dynamicMemory)
        /\ guest.macSpoofing <=>
             config.macSpoofing \/ (config.builder = "vmcx" /\ config.source.macSpoofing)
    <3>1. /\ Done("SetVirtualMachineDynamicMemory") <=>
               config.builder = "iso" \/ config.dynamicMemory
          /\ Done("SetVirtualMachineMacSpoofing") <=> config.macSpoofing
      BY <2>1 DEF Names, Wanted
    <3> QED BY <2>1, <2>2, <2>3, <3>1 DEF Inherited, Kept
  <2>5. /\ guest.mac <=> config.mac \/ (config.builder = "vmcx" /\ config.source.mac)
        /\ guest.virtExt <=>
             config.virtExt \/ (config.builder = "vmcx" /\ config.source.virtExt)
        /\ guest.legacyAdapter <=> IF config.builder = "vmcx" THEN config.source.legacyAdapter
                                   ELSE config.legacyAdapter
        /\ guest.generation = 2 =>
             /\ guest.secureBoot <=> config.secureBoot
             /\ guest.tpm <=> config.tpm \/ (config.builder = "vmcx" /\ config.source.tpm)
    <3>1. /\ Done("SetVmNetworkAdapterMacAddress") <=> config.mac
          /\ Done("SetVirtualMachineVirtualizationExtensions") <=> config.virtExt
          /\ Done("ReplaceVirtualMachineNetworkAdapter") <=>
               config.builder = "iso" /\ config.legacyAdapter
          /\ Done("SetVirtualMachineSecureBoot") <=> guest.generation = 2
          /\ Done("SetVirtualMachineTPM") <=> guest.generation = 2 /\ config.tpm
      BY <2>1 DEF Names, Wanted
    <3> QED BY <2>1, <2>2, <2>3, <3>1 DEF Options, Inherited, Kept
  <2>6. guest.vlan = IF config.builder = "vmcx" /\ config.vlan = "" THEN config.source.vlan
                     ELSE config.vlan
    BY <2>1, <2>2, <2>3 DEF Vlans, Kept, Names, Wanted
  <2>7. /\ guest.dynamicMemory \in BOOLEAN /\ guest.macSpoofing \in BOOLEAN
        /\ guest.mac \in BOOLEAN /\ guest.virtExt \in BOOLEAN /\ guest.legacyAdapter \in BOOLEAN
        /\ guest.secureBoot \in BOOLEAN /\ guest.tpm \in BOOLEAN
    BY <2>1 DEF Guest
  <2>8. /\ config.legacyAdapter \in BOOLEAN /\ config.source.legacyAdapter \in BOOLEAN
        /\ config.secureBoot \in BOOLEAN
    BY <2>1 DEF Request
  <2> DEFINE clone == config.builder = "vmcx"
  <2> HIDE DEF clone
  <2>9. /\ guest.dynamicMemory =
             (config.dynamicMemory \/ (clone /\ config.source.dynamicMemory))
        /\ guest.macSpoofing = (config.macSpoofing \/ (clone /\ config.source.macSpoofing))
        /\ guest.mac = (config.mac \/ (clone /\ config.source.mac))
        /\ guest.virtExt = (config.virtExt \/ (clone /\ config.source.virtExt))
        /\ guest.legacyAdapter = IF clone THEN config.source.legacyAdapter ELSE config.legacyAdapter
        /\ guest.generation = 2 =>
             /\ guest.secureBoot = config.secureBoot
             /\ guest.tpm = (config.tpm \/ (clone /\ config.source.tpm))
    BY <2>4, <2>5, <2>7, <2>8, SMTT(60) DEF clone
  <2> QED BY <2>6, <2>9 DEF AsRequested, clone
<1>2. SetupInv => AsRequested
  BY <1>1 DEF AsRequested
<1> QED BY <1>2, SetupCorrect, PTL

(***************************************************************************)
(* BootsAsAsked: the first boot device wins over the boot order, and that  *)
(* over the DVD of the operating system, whatever the generations.         *)
(***************************************************************************)
THEOREM BootsAsAsked == Spec => []FirstBootDeviceWins
<1>1. ASSUME SetupInv, Ready PROVE FirstBootDeviceWins
  <2>1. /\ config \in Request /\ guest.generation = MachineGeneration(config)
        /\ config.generation \in {1, 2}
        /\ Options /\ Boots
        /\ \A X \in Names : Done(X) <=> Wanted(config, X)
    BY <1>1, ReadyDone DEF Settings
  <2> DEFINE first == config.firstBoot # "" /\ (config.firstBoot = "CD" => guest.osDvd)
             dvd == guest.osDvd /\ config.firstBoot = "" /\ ~Misstated
  <2>2. /\ guest.osDvd <=> config.media = "iso"
        /\ Done("SetFirstBootDevice") <=>
             config.firstBoot # "" /\ (config.firstBoot = "CD" => config.media = "iso")
        /\ Done("SetBootOrder") <=> config.bootOrder
        /\ Done("SetBootDvdDrive") <=> config.media = "iso" /\ config.firstBoot = ""
    BY <2>1 DEF Options, Names, Wanted
  <2>3. first => guest.boot = config.firstBoot
    BY <2>1, <2>2 DEF Boots
  <2>4. ~first /\ config.bootOrder => guest.boot = "SCSI:0:1"
    BY <2>1, <2>2 DEF Boots
  <2>5. ASSUME ~first, ~config.bootOrder
        PROVE  guest.boot = IF dvd THEN (IF guest.generation = 2 THEN "CD" ELSE "IDE")
                            ELSE "default"
    <3>1. /\ ~Done("SetFirstBootDevice") /\ ~Done("SetBootOrder")
          /\ Done("SetBootDvdDrive") <=> guest.osDvd /\ config.firstBoot = ""
      BY <2>2, <2>5
    <3>2. /\ Done("SetBootDvdDrive") => config.generation = 2 \/ guest.generation = 1
          /\ guest.boot = IF ~(Done("SetBootDvdDrive") /\ OsDvdBoots) THEN "default"
                          ELSE IF config.generation = 1 THEN "IDE" ELSE "CD"
      BY <2>1, <3>1 DEF Boots
    <3>3. ~Misstated <=> guest.generation = config.generation
      BY <2>1 DEF Misstated, MachineGeneration, Request
    <3>4. guest.generation \in {1, 2}
      <4>1. config.source.generation \in {1, 2}
        BY <2>1 DEF Request
      <4> QED BY <2>1, <4>1 DEF MachineGeneration
    <3>5. CASE ~Done("SetBootDvdDrive")
      BY <3>1, <3>2, <3>5
    <3>6. CASE Done("SetBootDvdDrive") /\ guest.generation = config.generation
      <4>1. dvd /\ OsDvdBoots
        BY <3>1, <3>2, <3>3, <3>6 DEF OsDvdBoots
      <4>2. config.generation = 1 \/ config.generation = 2
        BY <2>1
      <4>3. guest.boot = IF config.generation = 1 THEN "IDE" ELSE "CD"
        BY <3>2, <3>6, <4>1
      <4>4. config.generation = 1 <=> ~(guest.generation = 2)
        BY <3>6, <4>2
      <4>5. guest.boot = IF guest.generation = 2 THEN "CD" ELSE "IDE"
        BY <4>3, <4>4
      <4> HIDE DEF dvd
      <4> QED BY <4>1, <4>5
    <3>7. CASE Done("SetBootDvdDrive") /\ guest.generation # config.generation
      BY <2>1, <3>1, <3>2, <3>3, <3>4, <3>7 DEF OsDvdBoots
    <3> QED BY <3>5, <3>6, <3>7
  <2> HIDE DEF first, dvd
  <2>6. guest.boot = IF first THEN config.firstBoot
                     ELSE IF config.bootOrder THEN "SCSI:0:1"
                     ELSE IF dvd THEN (IF guest.generation = 2 THEN "CD" ELSE "IDE")
                     ELSE "default"
    BY <2>3, <2>4, <2>5
  <2> QED BY <2>6 DEF FirstBootDeviceWins, first, dvd
<1>2. SetupInv => FirstBootDeviceWins
  BY <1>1 DEF FirstBootDeviceWins
<1> QED BY <1>2, SetupCorrect, PTL

(***************************************************************************)
(* NestedMachines: an iso machine made without a warning is fit for        *)
(* nested virtualization if it has its extensions.                         *)
(***************************************************************************)
THEOREM NestedMachines == Spec => []NestedWarned
<1>1. ASSUME SetupInv, Ready, config.builder = "iso", guest.virtExt, warnings \subseteq {"vlan"}
      PROVE  ~guest.dynamicMemory /\ guest.macSpoofing
             /\ guest.memory >= MinNestedVirtualizationRamSize
  <2>1. /\ config \in Request /\ guest.generation = MachineGeneration(config)
        /\ config.generation \in {1, 2} /\ warnings = Warnings(config)
        /\ Machine /\ Inherited /\ Options
        /\ \A X \in Names : Done(X) <=> Wanted(config, X)
    BY <1>1, ReadyDone DEF Settings
  <2>2. config.virtExt
    BY <1>1, <2>1 DEF Inherited, Kept, Names, Wanted
  <2>3. ~config.dynamicMemory /\ config.macSpoofing
        /\ ~(config.memory < MinNestedVirtualizationRamSize)
    <3>1. /\ "dynamic_memory" \notin Warnings(config)
          /\ "mac_spoofing" \notin Warnings(config) /\ "memory" \notin Warnings(config)
      BY <1>1, <2>1
    <3> QED BY <2>2, <3>1 DEF Warnings
  <2>4. guest.generation # 0
    BY <1>1, <2>1 DEF MachineGeneration
  <2>5. guest.memory = config.memory
    BY <1>1, <2>1, <2>4 DEF Machine
  <2>6. Done("SetVirtualMachineDynamicMemory") /\ Done("SetVirtualMachineMacSpoofing")
    BY <1>1, <2>1, <2>3 DEF Names, Wanted
  <2>7. ~guest.dynamicMemory /\ guest.macSpoofing
    BY <2>1, <2>3, <2>6 DEF Inherited
  <2>8. config.memory \in Nat
    BY <2>1 DEF Request
  <2> QED BY <2>3, <2>5, <2>7, <2>8 DEF MinNestedVirtualizationRamSize
<1>2. SetupInv => NestedWarned
  BY <1>1 DEF NestedWarned
<1> QED BY <1>2, SetupCorrect, PTL

(***************************************************************************)
(* VlansAgree: without a warning the two adapters are on the VLAN that the *)
(* template gives for the switch.                                          *)
(***************************************************************************)
THEOREM VlansAgree == Spec => []UnwarnedVlansAgree
<1>1. ASSUME SetupInv, Ready, "vlan" \notin warnings, asked.switchVlan # ""
      PROVE  hostVlan = asked.switchVlan /\ guest.vlan = asked.switchVlan
  <2>1. /\ config = Defaults(asked) /\ asked \in Request /\ warnings = Warnings(config)
        /\ Vlans
        /\ \A X \in Names : Done(X) <=> Wanted(config, X)
    BY <1>1, ReadyDone DEF Settings, SetupInv, ConfigInv
  <2>2. config.switchVlan = asked.switchVlan
    BY <2>1, DefaultsType
  <2>3. config.vlan = config.switchVlan
    BY <1>1, <2>1, <2>2 DEF Warnings
  <2>4. Done("SetNetworkAdapterVlanId") /\ Done("SetVirtualMachineVlanId")
    BY <1>1, <2>1, <2>2, <2>3 DEF Names, Wanted
  <2> QED BY <2>1, <2>2, <2>3, <2>4 DEF Vlans
<1>2. SetupInv => UnwarnedVlansAgree
  BY <1>1 DEF UnwarnedVlansAgree
<1> QED BY <1>2, SetupCorrect, PTL

\* How many disks and drives there are at most, and at last.
LEMMA Counts ==
  ASSUME SetupInv, SetUp
  PROVE  /\ Len(guest.additional) \in Nat /\ Len(guest.additional) <= Len(config.additional)
         /\ Len(config.additional) \in Nat /\ ExtraDvds(config) \in Nat
         /\ guest.dvds \in Nat /\ guest.dvds <= ExtraDvds(config) + One(guest.osDvd)
         /\ AllDvds(config) \in Nat /\ guest.dvds <= AllDvds(config)
         /\ (guest.osDvd <=> Done("CreateOsDvdDrive"))
         /\ ~HasCall(todo, AddDisk) => Len(guest.additional) = Len(config.additional)
         /\ ~HasCall(todo, AddDvd) => guest.dvds = ExtraDvds(config) + One(guest.osDvd)
<1>1. /\ config \in Request /\ guest \in Guest /\ todo \in Seq(CallRecord)
      /\ Options /\ Disks /\ Dvds
  BY DEF SetupInv, TypeOK, QueueInv, GuestInv, Settings
<1>2. /\ Len(config.additional) \in Nat /\ Len(DiskSizes(config)) = Len(config.additional)
      /\ DiskSizes(config) \in Seq(Nat) /\ DvdSizes(config) \in Seq(Nat)
      /\ ExtraDvds(config) \in Nat /\ Len(DvdSizes(config)) = ExtraDvds(config)
  BY <1>1, SizesType
<1>3. guest.additional \in Seq(Nat) /\ guest.dvds \in Nat
  BY <1>1 DEF Guest
<1>4. Len(guest.additional) \in 0 .. Len(DiskSizes(config))
      /\ guest.dvds - One(guest.osDvd) \in 0 .. Len(DvdSizes(config))
  BY <1>1 DEF Disks, Dvds, Block
<1>5. (guest.osDvd <=> Done("CreateOsDvdDrive")) /\ (guest.osDvd => config.media = "iso")
  BY <1>1 DEF Options, Done, Wanted
<1>6. /\ One(guest.osDvd) \in Nat /\ One(config.media = "iso") \in Nat
      /\ One(guest.osDvd) <= One(config.media = "iso")
  BY <1>5 DEF One
<1>7. ~HasCall(todo, AddDisk) => Len(guest.additional) = Len(config.additional)
  BY <1>1, <1>2, BlockDone DEF Disks, AddDisk
<1>8. ~HasCall(todo, AddDvd) => guest.dvds - One(guest.osDvd) = ExtraDvds(config)
  BY <1>1, <1>2, BlockDone DEF Dvds, AddDvd
<1> HIDE DEF One, AllDvds
<1>9. /\ guest.dvds <= ExtraDvds(config) + One(guest.osDvd)
      /\ ~HasCall(todo, AddDvd) => guest.dvds = ExtraDvds(config) + One(guest.osDvd)
  BY <1>2, <1>3, <1>4, <1>6, <1>8
<1>10. AllDvds(config) \in Nat /\ guest.dvds <= AllDvds(config)
  BY <1>2, <1>3, <1>6, <1>9 DEF AllDvds
<1>11. Len(guest.additional) \in Nat /\ Len(guest.additional) <= Len(config.additional)
  BY <1>2, <1>3, <1>4
<1> QED BY <1>2, <1>3, <1>5, <1>7, <1>9, <1>10, <1>11

(***************************************************************************)
(* SizesToTheMegabyte: memory and disks have the sizes the template gives, *)
(* but for those that are multiplied before they are widened and do not    *)
(* fit a Go uint then, which is for sizes from WordMB on: 4096 on a 32-bit *)
(* system and 2^44 on a 64-bit one.                                        *)
(***************************************************************************)
THEOREM SizesToTheMegabyte == Spec => []SizesExact
<1>1. ASSUME SetupInv, guest.generation # 0
      PROVE  SizesExact
  <2>1. config \in Request /\ guest \in Guest /\ Machine /\ Disks /\ SetUp
    BY <1>1 DEF SetupInv, TypeOK, GuestInv, SetUp, Settings
  <2>2. config.builder = "iso" \/ config.memory < WordMB => guest.memory = config.memory
    <3>1. config.memory \in Nat
      BY <2>1 DEF Request
    <3> QED BY <1>1, <2>1, <3>1, EarlyMBType DEF Machine
  <2>3. Len(guest.additional) <= Len(config.additional)
    BY <1>1, <2>1, Counts
  <2>4. ASSUME NEW i \in 1 .. Len(guest.additional), config.additional[i] < WordMB
        PROVE  guest.additional[i] = config.additional[i]
    <3>1. config.additional \in [1 .. Len(config.additional) -> Nat]
          /\ Len(config.additional) \in Nat /\ Len(guest.additional) \in Nat
      BY <1>1, <2>1, SizesType, Counts
    <3>2. i \in 1 .. Len(config.additional)
      BY <2>3, <3>1
    <3>3. config.additional[i] \in Nat
      BY <3>1, <3>2
    <3>4. guest.additional[i] = EarlyMB(config.additional[i])
      BY <2>1, <3>2 DEF Disks, DiskSizes
    <3> QED BY <2>4, <3>3, <3>4, EarlyMBType
  <2>5. NewDisk(config) => guest.disk = config.diskSize
    BY <1>1, <2>1 DEF Machine
  <2>6. Ready /\ config.builder = "vmcx" /\ config.diskSize # 0 => guest.disk = config.diskSize
    <3>1. Ready /\ config.builder = "vmcx" /\ config.diskSize # 0 => Done("ResizeVirtualMachineVhd")
      BY <1>1, ReadyDone DEF Names, Wanted
    <3> QED BY <1>1, <2>1, <3>1 DEF Machine
  <2> QED BY <2>2, <2>3, <2>4, <2>5, <2>6 DEF SizesExact
<1>2. SetupInv => SizesExact
  BY <1>1 DEF SizesExact
<1> QED BY <1>2, SetupCorrect, PTL

(***************************************************************************)
(* Refusals.                                                               *)
(***************************************************************************)
\* The call that the host has refused.
LEMMA RefusedCall ==
  ASSUME SetupInv, phase = "refused", NEW X, X = Head(todo).call
  PROVE  /\ X \in Names /\ Head(todo).mb \in Nat /\ Wanted(config, X)
         /\ ~HostTakes(Head(todo))
         /\ X \notin Repeated => Head(todo).mb = SizeOf(config, X)
         /\ ~Done(X)
         /\ \A Y \in Names : Rank[Y] < Rank[X] =>
              ~HasCall(todo, Y) /\ (Wanted(config, Y) => Done(Y))
         /\ X = AddDisk =>
              /\ Len(guest.additional) + 1 \in 1 .. Len(config.additional)
              /\ Head(todo).mb = DiskSizes(config)[Len(guest.additional) + 1]
         /\ X = AddDvd => guest.dvds < ExtraDvds(config) + One(guest.osDvd)
<1>1. /\ todo # <<>> /\ todo \in Seq(CallRecord) /\ ~HostTakes(Head(todo))
      /\ \E lo \in Nat : Queue(config, todo, lo, 18)
      /\ Disks /\ Dvds /\ config \in Request /\ guest \in Guest
  BY DEF SetupInv, TypeOK, QueueInv, SetUp, RefusedInv, GuestInv
<1>2. /\ X \in Names /\ Head(todo).mb \in Nat /\ Wanted(config, X) /\ HasCall(todo, X)
      /\ X \notin Repeated => Head(todo).mb = SizeOf(config, X)
      /\ \A Y \in Names : Rank[Y] < Rank[X] => ~HasCall(todo, Y)
  BY <1>1, QueueHead
<1>3. ~Done(X) /\ \A Y \in Names : Rank[Y] < Rank[X] =>
                     ~HasCall(todo, Y) /\ (Wanted(config, Y) => Done(Y))
  BY <1>2 DEF Done
<1>4. /\ DiskSizes(config) \in Seq(Nat) /\ Len(DiskSizes(config)) = Len(config.additional)
      /\ DvdSizes(config) \in Seq(Nat) /\ Len(DvdSizes(config)) = ExtraDvds(config)
      /\ ExtraDvds(config) \in Nat
  BY <1>1, SizesType
<1>5. X = AddDisk =>
        /\ Len(guest.additional) + 1 \in 1 .. Len(config.additional)
        /\ Head(todo).mb = DiskSizes(config)[Len(guest.additional) + 1]
  BY <1>1, <1>4, BlockTail, SMTT(60) DEF Disks, AddDisk
<1>6. X = AddDvd => guest.dvds < ExtraDvds(config) + One(guest.osDvd)
  <2>1. X = AddDvd => guest.dvds - One(guest.osDvd) + 1 \in 1 .. ExtraDvds(config)
    BY <1>1, <1>4, BlockTail DEF Dvds, AddDvd
  <2>2. guest.dvds \in Nat /\ One(guest.osDvd) \in Nat
    BY <1>1 DEF Guest, One
  <2> HIDE DEF One
  <2> QED BY <1>4, <2>1, <2>2
<1> QED BY <1>1, <1>2, <1>3, <1>5, <1>6

(***************************************************************************)
(* BuildableIfAccepted: a template that Prepare has accepted is refused by *)
(* the host for one of the known gaps only.                                *)
(***************************************************************************)
THEOREM BuildableIfAccepted == Spec => []AcceptedIsBuildable
<1> DEFINE disks == SourceScsi(config) + Len(config.additional)
           device == config.generation = 2 /\ disks + AllDvds(config) > 0
           n == Len(guest.additional)
<1>1. ASSUME SetupInv, phase = "refused"
      PROVE  Gap(config)
  <2>1. PICK X : X = Head(todo).call
    OBVIOUS
  <2> DEFINE mb == Head(todo).mb
  <2>2. /\ X \in Names /\ mb \in Nat /\ Wanted(config, X)
        /\ ~HostTakes(Head(todo))
        /\ X \notin Repeated => mb = SizeOf(config, X)
        /\ ~Done(X)
        /\ \A Y \in Names : Rank[Y] < Rank[X] =>
             ~HasCall(todo, Y) /\ (Wanted(config, Y) => Done(Y))
        /\ X = AddDisk =>
             n + 1 \in 1 .. Len(config.additional) /\ mb = DiskSizes(config)[n + 1]
        /\ X = AddDvd => guest.dvds < ExtraDvds(config) + One(guest.osDvd)
    BY <1>1, <2>1, RefusedCall
  <2>3. /\ n \in Nat /\ n <= Len(config.additional)
        /\ Len(config.additional) \in Nat /\ ExtraDvds(config) \in Nat
        /\ guest.dvds \in Nat
        /\ AllDvds(config) \in Nat /\ guest.dvds <= AllDvds(config)
        /\ (guest.osDvd <=> Done("CreateOsDvdDrive"))
        /\ ~HasCall(todo, AddDisk) => n = Len(config.additional)
        /\ ~HasCall(todo, AddDvd) => guest.dvds = ExtraDvds(config) + One(guest.osDvd)
    BY <1>1, Counts DEF SetUp
  <2>4. /\ config \in Request /\ ~Rejects(config) /\ config.generation \in {1, 2}
        /\ Machine
    BY <1>1, DefaultsType DEF SetupInv, ConfigInv, GuestInv, SetUp, Settings
  <2>5. /\ SourceIde(config) \in Nat /\ SourceScsi(config) \in Nat
        /\ guest.generation # 0 => guest.ide = SourceIde(config) /\ guest.scsi = SourceScsi(config)
    BY <2>4 DEF Machine, SourceIde, SourceScsi, Request
  <2>6. Gap(config) <=>
          \/ Misstated
          \/ \E i \in DOMAIN config.additional :
               EarlyMB(config.additional[i]) \notin MinVhd .. MaxDiskSize
          \/ /\ config.builder = "vmcx"
             /\ \/ config.diskSize \in 1 .. (config.source.disk - 1)
                \/ EarlyMB(config.memory) < 32
          \/ IF MachineGeneration(config) = 1
             THEN SourceIde(config) + AllDvds(config) > 3 \/ disks > ScsiLocations
             ELSE 1 + disks + AllDvds(config) > ScsiLocations
          \/ (config.bootOrder \/ config.firstBoot = "SCSI:0:1") /\ ~device
          \/ config.firstBoot = "IDE:0:0"
          \/ config.switchVlan # "" /\ config.vlan = ""
    BY DEF Gap
  <2> HIDE DEF disks, device
  <2>7. ASSUME X \notin {"CreateVirtualMachine", "CloneVirtualMachine"}
        PROVE  /\ guest.generation # 0 /\ guest.generation = MachineGeneration(config)
               /\ guest.generation \in {1, 2}
               /\ ~Misstated => guest.generation = config.generation
    <3>1. Wanted(config, "CreateVirtualMachine") \/ Wanted(config, "CloneVirtualMachine")
      BY DEF Wanted
    <3>2. 2 < Rank[X]
      BY <2>2, <2>7, AfterMakers
    <3>3. Done("CreateVirtualMachine") \/ Done("CloneVirtualMachine")
      BY <2>2, <3>1, <3>2, RankOf, SMTT(60) DEF Names
    <3>4. guest.generation # 0 /\ guest.generation = MachineGeneration(config)
      BY <2>4, <3>3 DEF Machine
    <3>5. config.source.generation \in {1, 2}
      BY <2>4 DEF Request
    <3>6. ~Misstated => guest.generation = config.generation
      BY <2>4, <3>4 DEF Misstated, MachineGeneration, Request
    <3> QED BY <2>4, <3>4, <3>5, <3>6 DEF MachineGeneration
  <2>8. ASSUME Rank[X] > 14, ~SecondScsiDevice
        PROVE  ~device
    <3>1. /\ ~HasCall(todo, AddDisk) /\ ~HasCall(todo, AddDvd)
          /\ Wanted(config, "CreateOsDvdDrive") => Done("CreateOsDvdDrive")
      <4>1. /\ AddDisk \in Names /\ AddDvd \in Names /\ "CreateOsDvdDrive" \in Names
            /\ Rank[AddDisk] = 9 /\ Rank[AddDvd] = 14 /\ Rank["CreateOsDvdDrive"] = 12
        BY RankOf DEF AddDisk, AddDvd, Names
      <4>2. Rank[X] \in Nat
        BY <2>2, RankType
      <4>3. /\ Rank[AddDisk] < Rank[X] /\ Rank[AddDvd] < Rank[X]
            /\ Rank["CreateOsDvdDrive"] < Rank[X]
        BY <2>8, <4>1, <4>2
      <4> QED BY <2>2, <4>1, <4>3
    <3>2. n = Len(config.additional) /\ guest.dvds = ExtraDvds(config) + One(guest.osDvd)
      BY <2>3, <3>1
    <3>3. guest.osDvd <=> config.media = "iso"
      BY <2>3, <3>1 DEF Wanted, Done
    <3>4. guest.dvds = AllDvds(config)
      <4>1. One(guest.osDvd) = One(config.media = "iso") /\ One(guest.osDvd) \in Nat
        BY <3>3 DEF One
      <4> HIDE DEF One
      <4> QED BY <2>3, <3>2, <4>1 DEF AllDvds
    <3>5. guest.scsi = SourceScsi(config)
      <4>1. X \notin {"CreateVirtualMachine", "CloneVirtualMachine"}
        BY <2>8, RankOf
      <4> QED BY <2>5, <2>7, <4>1
    <3>6. SourceScsi(config) + n + guest.dvds = 0
      BY <2>3, <2>5, <2>8, <3>5, SMTT(60) DEF SecondScsiDevice
    <3> QED BY <2>3, <2>5, <3>2, <3>4, <3>6 DEF device, disks
  <2>9. CASE X = "AddVirtualMachineHardDrive"
    <3>1. ~DiskFits \/ mb \notin MinVhd .. MaxDiskSize
      BY <2>1, <2>2, <2>9 DEF HostTakes
    <3>2. /\ n + 1 \in DOMAIN config.additional /\ n + 1 <= Len(config.additional)
          /\ mb = EarlyMB(config.additional[n + 1])
      <4>1. config.additional \in [1 .. Len(config.additional) -> Nat]
        BY <2>4, SizesType
      <4>2. n + 1 \in 1 .. Len(config.additional) /\ mb = DiskSizes(config)[n + 1]
        BY <2>2, <2>9 DEF AddDisk
      <4> QED BY <2>3, <4>1, <4>2 DEF DiskSizes
    <3>3. CASE mb \notin MinVhd .. MaxDiskSize
      BY <2>6, <3>2, <3>3
    <3>4. CASE ~DiskFits
      <4>1. /\ guest.generation = MachineGeneration(config) /\ guest.scsi = SourceScsi(config)
        BY <2>5, <2>7, <2>9
      <4>2. CASE MachineGeneration(config) = 1
        <5>1. ~(SourceScsi(config) + n < ScsiLocations)
          BY <3>4, <4>1, <4>2 DEF DiskFits
        <5>2. disks > ScsiLocations
          BY <2>3, <2>5, <3>2, <5>1, SMTT(60) DEF ScsiLocations, disks
        <5> QED BY <2>6, <4>2, <5>2
      <4>3. CASE MachineGeneration(config) # 1
        <5>1. ~(1 + SourceScsi(config) + n + guest.dvds < ScsiLocations)
          BY <3>4, <4>1, <4>3 DEF DiskFits
        <5>2. 1 + disks + AllDvds(config) > ScsiLocations
          BY <2>3, <2>5, <3>2, <5>1, SMTT(60) DEF ScsiLocations, disks
        <5> QED BY <2>6, <4>3, <5>2
      <4> QED BY <4>2, <4>3
    <3> QED BY <3>1, <3>3, <3>4
  <2>10. CASE X \in {"CreateOsDvdDrive", "CreateDvdDrive"}
    <3>1. ~DvdFits
      BY <2>1, <2>2, <2>10 DEF HostTakes
    <3>2. guest.dvds + 1 <= AllDvds(config)
      <4>1. One(guest.osDvd) <= One(config.media = "iso")
            /\ One(guest.osDvd) \in Nat /\ One(config.media = "iso") \in Nat
        BY <2>3 DEF One, Done, Wanted
      <4>2. CASE X = "CreateDvdDrive"
        <5>1. guest.dvds < ExtraDvds(config) + One(guest.osDvd)
          BY <2>2, <4>2 DEF AddDvd
        <5> HIDE DEF One
        <5> QED BY <2>3, <4>1, <5>1 DEF AllDvds
      <4>3. CASE X = "CreateOsDvdDrive"
        <5>1. One(guest.osDvd) = 0 /\ One(config.media = "iso") = 1
          BY <2>2, <2>3, <4>3 DEF One, Wanted
        <5>2. guest.dvds <= ExtraDvds(config) + One(guest.osDvd)
          BY <1>1, Counts DEF SetUp
        <5> HIDE DEF One
        <5> QED BY <2>3, <5>1, <5>2 DEF AllDvds
      <4> QED BY <2>10, <4>2, <4>3
    <3>3. /\ guest.generation = MachineGeneration(config)
          /\ guest.ide = SourceIde(config) /\ guest.scsi = SourceScsi(config)
      BY <2>5, <2>7, <2>10
    <3>4. CASE MachineGeneration(config) = 1
      <4>1. ~(SourceIde(config) + guest.dvds < 3)
        BY <3>1, <3>3, <3>4 DEF DvdFits
      <4>2. SourceIde(config) + AllDvds(config) > 3
        BY <2>3, <2>5, <3>2, <4>1
      <4> QED BY <2>6, <3>4, <4>2
    <3>5. CASE MachineGeneration(config) # 1
      <4>1. ~(1 + SourceScsi(config) + n + guest.dvds < ScsiLocations)
        BY <3>1, <3>3, <3>5 DEF DvdFits, DiskFits
      <4>2. 1 + disks + AllDvds(config) > ScsiLocations
        BY <2>3, <2>5, <3>2, <4>1, SMTT(60) DEF ScsiLocations, disks
      <4> QED BY <2>6, <3>5, <4>2
    <3> QED BY <3>4, <3>5
  <2>11. CASE X \in {"CreateVirtualMachine", "CloneVirtualMachine"}
    <3>1. ~(mb >= 32)
      BY <2>1, <2>2, <2>11 DEF HostTakes
    <3>2. CASE X = "CloneVirtualMachine"
      <4>1. mb = EarlyMB(config.memory) /\ config.builder = "vmcx"
        BY <2>2, <2>4, <3>2 DEF SizeOf, Repeated, Wanted, Request
      <4>2. EarlyMB(config.memory) < 32
        <5>1. mb \in Nat
          BY <2>2
        <5> HIDE DEF mb
        <5> QED BY <3>1, <4>1, <5>1
      <4> QED BY <2>6, <4>1, <4>2
    <3>3. config.memory \in 32 .. MaxRamSize
      BY <2>4 DEF Rejects, CommonRejects
    <3>4. MaxRamSize \in Nat /\ config.memory \in Nat
      <4>1. MaxRamSize \in Nat
        BY DEF MaxRamSize
      <4>2. config.memory \in Nat
        BY <2>4 DEF Request
      <4> QED BY <4>1, <4>2
    <3>5. CASE X = "CreateVirtualMachine"
      <4>1. mb = config.memory
        BY <2>2, <3>5 DEF SizeOf, Repeated
      <4> QED BY <3>1, <3>3, <3>4, <4>1
    <3> QED BY <2>11, <3>2, <3>5
  <2>12. CASE X = "ResizeVirtualMachineVhd"
    <3>1. config.builder # "iso" /\ config.diskSize # 0 /\ mb = config.diskSize
      BY <2>2, <2>12 DEF Wanted, SizeOf, Repeated
    <3>2. ~(mb >= guest.disk)
      BY <2>1, <2>2, <2>12 DEF HostTakes
    <3>3. guest.disk = config.source.disk
      BY <2>2, <2>4, <2>7, <2>12, <3>1 DEF Machine, NewDisk
    <3>4. config.diskSize \in Nat /\ config.source.disk \in Nat /\ config.builder = "vmcx"
      BY <2>4, <3>1 DEF Request
    <3>5. config.diskSize \in 1 .. (config.source.disk - 1)
      BY <3>1, <3>2, <3>3, <3>4
    <3> QED BY <2>6, <3>4, <3>5
  <2>13. CASE X = "SetBootOrder"
    <3>1. ~(guest.generation = 2 /\ SecondScsiDevice) /\ config.bootOrder
      BY <2>1, <2>2, <2>13 DEF HostTakes, Wanted
    <3>2. Rank[X] > 14
      BY <2>13, RankOf
    <3>3. CASE ~SecondScsiDevice
      BY <2>6, <2>8, <3>1, <3>2, <3>3
    <3>4. CASE guest.generation # 2
      <4>1. Misstated \/ config.generation # 2
        BY <2>7, <2>13, <3>4
      <4>2. Misstated \/ ~device
        BY <4>1 DEF device
      <4> QED BY <2>6, <3>1, <4>2
    <3> QED BY <3>1, <3>3, <3>4
  <2>14. CASE X = "SetFirstBootDevice"
    <3>1. ~Bootable(config.firstBoot) /\ config.firstBoot # ""
      BY <2>1, <2>2, <2>14 DEF HostTakes, Wanted
    <3>2. Rank[X] > 14
      BY <2>14, RankOf
    <3>3. CASE Misstated
      BY <2>6, <3>3
    <3>4. CASE ~Misstated
      <4>1. guest.generation = config.generation
        BY <2>7, <2>14, <3>4
      <4>2. config.generation = 2 /\ ~(config.firstBoot \in {"CD", "NET"})
            /\ ~(config.firstBoot = "SCSI:0:1" /\ SecondScsiDevice)
        BY <2>4, <3>1, <4>1 DEF Bootable
      <4>3. config.firstBoot \in BootDevices(config.generation)
        BY <2>4, <3>1 DEF Rejects, CommonRejects
      <4>4. config.firstBoot \in {"IDE:0:0", "SCSI:0:1"}
        BY <4>2, <4>3 DEF BootDevices
      <4> QED BY <2>6, <2>8, <3>2, <4>2, <4>4
    <3> QED BY <3>3, <3>4
  <2>15. CASE X = "SetBootDvdDrive"
    <3>1. ~(config.generation = 2 \/ guest.generation = 1)
      BY <2>1, <2>2, <2>15 DEF HostTakes
    <3>2. Misstated
      BY <2>4, <2>7, <2>15, <3>1
    <3> QED BY <2>6, <3>2
  <2>16. CASE X = "SetNetworkAdapterVlanId"
    <3>1. config.vlan = "" /\ config.switchVlan # ""
      BY <2>1, <2>2, <2>16 DEF HostTakes, Wanted
    <3> QED BY <2>6, <3>1
  <2>17. X \in {"AddVirtualMachineHardDrive", "CreateOsDvdDrive", "CreateDvdDrive",
                "CreateVirtualMachine", "CloneVirtualMachine", "ResizeVirtualMachineVhd",
                "SetBootOrder", "SetFirstBootDevice", "SetBootDvdDrive",
                "SetNetworkAdapterVlanId"}
    BY <2>1, <2>2 DEF HostTakes
  <2> QED BY <2>9, <2>10, <2>11, <2>12, <2>13, <2>14, <2>15, <2>16, <2>17
<1>2. SetupInv => AcceptedIsBuildable
  BY <1>1 DEF AcceptedIsBuildable
<1> QED BY <1>2, SetupCorrect, PTL
=============================================================================
