----------------------------- MODULE SharedHost -----------------------------
(***************************************************************************)
(* Several builds on one Hyper-V host.  Each is a process of its own, runs *)
(* its steps without a word to the others, and knows its virtual machine   *)
(* and its switch by name only: every script of hyperv.go begins with      *)
(* Get-VM -Name or Get-VMSwitch -Name.  This module keeps the steps that   *)
(* read or change what such a name stands for, and interleaves them.       *)
(*                                                                         *)
(* What HypervBuild leaves to chance for a single build (a name that is    *)
(* taken, a switch that is there) is here the work of the others.          *)
(***************************************************************************)
EXTENDS Naturals

CONSTANTS
  Builds,          \* the builds
  Others,          \* the virtual machines on the host before them
  VMNames, SwitchNames,
  Setups           \* the situations considered, see Setup

VM == Builds \cup Others

Setup ==
  [kind : [Builds -> {"iso", "vmcx"}],
   vmName : [VM -> VMNames],
   switchName : [Builds -> SwitchNames],
   shutdown : [Builds -> {"command", "stop"}],
   keepRegistered : SUBSET Builds,
   otherSwitches : SUBSET SwitchNames]     \* the switches on the host before them

ASSUME SetupsAssumption == Setups \subseteq Setup
ASSUME OthersAssumption == Builds \cap Others = {}

VARIABLES
  setup,       \* the situation, fixed by Init
  pc,          \* where each build is
  created,     \* the builds whose createdSwitch is true
  keep,        \* the builds whose KeepRegistered is true
  talks,       \* the guest each build's communicator is connected to, if any
  vm,          \* the state of each virtual machine
  found, made, \* the switches: those that were there, by name, and those made
               \* since, by maker
  wired,       \* the virtual machines of builds that are connected to a switch
  raced        \* history: the names a build began to act on while another machine
               \* had them, or another build acted on them, and no check kept it off

builds == <<pc, created, keep, talks>>
host == <<vm, found, made, wired>>
vars == <<setup, builds, host, raced>>

\* Where a build acts on whatever has the name of its virtual machine.
Acting == {"create", "start", "connect", "shutdown", "poll", "wait_off", "stop"}
Place == {"look", "new_switch", "check", "unregister", "drop_switch", "over"} \cup Acting

TypeOK ==
  /\ setup \in Setups
  /\ pc \in [Builds -> Place]
  /\ created \subseteq Builds /\ keep \subseteq Builds
  /\ talks \in [Builds -> SUBSET VM]
  /\ vm \in [VM -> {"absent", "off", "running"}]
  /\ found \subseteq SwitchNames /\ made \subseteq Builds
  /\ wired \subseteq Builds
  /\ raced \subseteq VMNames

Init ==
  /\ setup \in Setups
  /\ pc = [b \in Builds |-> "look"]
  /\ created = {} /\ keep = setup.keepRegistered
  /\ talks = [b \in Builds |-> {}]
  /\ vm \in [VM -> {"absent", "off", "running"}]
  /\ \A v \in VM : vm[v] = "absent" <=> v \in Builds
  /\ found = setup.otherSwitches /\ made = {}
  /\ wired = {} /\ raced = {}

(***************************************************************************)
(* What the scripts see and do.                                            *)
(***************************************************************************)
Namesakes(b) == {v \in VM : setup.vmName[v] = setup.vmName[b]}
\* Slip: only virtual machines that run are looked for.
SlipPresent(b) == {v \in Namesakes(b) : vm[v] = "running"}
Present(b) == {v \in Namesakes(b) : vm[v] # "absent"}      \* Get-VM -Name
SwitchThere(b) ==                                           \* Get-VMSwitch -Name
  \/ setup.switchName[b] \in found
  \/ \E c \in made : setup.switchName[c] = setup.switchName[b]

\* The state scripts print True only for a virtual machine that is the only one
\* of its name: two states compare to a list, none to nothing.
IsRunning(b) == \E v \in VM : Present(b) = {v} /\ vm[v] = "running"
IsOff(b) == \E v \in VM : Present(b) = {v} /\ vm[v] = "off"

\* Every virtual machine of S that is there gets into the state s.
Turn(S, s) == vm' = [v \in VM |-> IF v \in S /\ vm[v] # "absent" THEN s ELSE vm[v]]

Goes(b, from, to) == pc[b] = from /\ pc' = [pc EXCEPT ![b] = to]

(***************************************************************************)
(* The steps of a build.                                                   *)
(***************************************************************************)
\* Slip: a build takes the switch it found for its own.
SlipLookForSwitch(b) ==
  /\ pc[b] = "look"
  /\ IF SwitchThere(b)
     THEN pc' = [pc EXCEPT ![b] = "check"] /\ created' = created \cup {b}
     ELSE pc' = [pc EXCEPT ![b] = "new_switch"] /\ created' = created
  /\ UNCHANGED <<setup, keep, talks, host, raced>>

\* The first half of the script of CreateVirtualSwitch: is there such a switch?
LookForSwitch(b) ==
  /\ \/ SwitchThere(b) /\ Goes(b, "look", "check")
     \/ ~SwitchThere(b) /\ Goes(b, "look", "new_switch")
  /\ UNCHANGED <<setup, created, keep, talks, host, raced>>

\* Slip: what is remembered is the switch, not whose it is.
SlipNewSwitch(b) ==
  /\ Goes(b, "new_switch", "check")
  /\ made' = made \cup {b} /\ created' = created \cup {setup.switchName[b]}
  /\ UNCHANGED <<setup, keep, talks, vm, found, wired, raced>>

\* The second: make one.  Another build may have made one meanwhile; Hyper-V
\* does not mind two switches of one name.  The script's output is True and
\* whatever New-VMSwitch prints; only the bare True counts as "created".
NewSwitch(b) ==
  /\ Goes(b, "new_switch", "check")
  /\ made' = made \cup {b} /\ created' \in {created, created \cup {b}}
  /\ UNCHANGED <<setup, keep, talks, vm, found, wired, raced>>

\* It acts on the name of its virtual machine, now or in its Cleanup.
Holds(b) == pc[b] \in Acting \/ (pc[b] = "unregister" /\ b \notin keep)

\* History: b begins to act on a name that another build acts on, or has.
Claim(b, others) ==
  raced' = IF others = {} THEN raced ELSE raced \cup {setup.vmName[b]}
OtherHolders(b) == {c \in (Builds \cap Namesakes(b)) \ {b} : Holds(c)}

\* Slip: a build that is refused the name does not keep its hands off it.
SlipCheckVMName(b) ==
  LET clone == setup.kind[b] = "vmcx" IN
    /\ \/ /\ clone \/ Present(b) = {}
          /\ Goes(b, "check", "create") /\ Claim(b, OtherHolders(b))
       \/ ~clone /\ Present(b) # {} /\ Goes(b, "check", "unregister") /\ raced' = raced
    /\ UNCHANGED <<setup, created, keep, talks, host>>

\* StepCreateVM: a name that is taken halts the build, and KeepRegistered is
\* set so that Cleanup leaves the VM alone.  StepCloneVM does not look.
CheckVMName(b) ==
  LET clone == setup.kind[b] = "vmcx" IN
    /\ \/ /\ clone \/ Present(b) = {}
          /\ Goes(b, "check", "create") /\ keep' = keep
          /\ Claim(b, OtherHolders(b))
       \/ /\ ~clone /\ Present(b) # {}
          /\ Goes(b, "check", "unregister") /\ keep' = keep \cup {b}
          /\ raced' = raced
    /\ UNCHANGED <<setup, created, talks, host>>

\* Nothing is learnt of the name, and the build acts on it all the same.  An
\* error of Get-VM, whichever it is, counts as "no such virtual machine"; and
\* when, under WSL, a path cannot be converted, the step halts before it gets to
\* the check, and its Cleanup removes whatever has the name.
NameUnchecked(b) ==
  /\ \/ setup.kind[b] = "iso" /\ Goes(b, "check", "create")
     \/ Goes(b, "check", "unregister")
  /\ Claim(b, OtherHolders(b) \cup (Present(b) \ {b}))
  /\ UNCHANGED <<setup, created, keep, talks, host>>

\* New-VM or Import-VM, connected to the switch; without a switch it fails.
CreateVM(b) ==
  /\ SwitchThere(b) /\ Goes(b, "create", "start")
  /\ vm' = [vm EXCEPT ![b] = "off"] /\ wired' = wired \cup {b}
  /\ UNCHANGED <<setup, created, keep, talks, found, made, raced>>

\* Start-VM -Name, if one that is off has the name.
Start(b) ==
  /\ Goes(b, "start", "connect")
  /\ Turn(Namesakes(b), "running")
  /\ UNCHANGED <<setup, created, keep, talks, found, made, wired, raced>>

\* Slip: the first address that any virtual machine reports is taken.
SlipConnect(b) ==
  /\ Goes(b, "connect", "shutdown")
  /\ \E v \in VM : vm[v] = "running" /\ talks' = [talks EXCEPT ![b] = {v}]
  /\ UNCHANGED <<setup, created, keep, host, raced>>

\* CommHost: the address of the first adapter found under the name, and then of
\* the machine that has that adapter, when it runs and has a network.
Connect(b) ==
  /\ Goes(b, "connect", "shutdown")
  /\ \E v \in Present(b) :
       /\ vm[v] = "running" /\ v \in wired \cup Others
       /\ talks' = [talks EXCEPT ![b] = {v}]
  /\ UNCHANGED <<setup, created, keep, host, raced>>

\* The shutdown command goes to the guest the communicator is connected to,
\* Stop-VM to every virtual machine of the name.
Shutdown(b) ==
  /\ Goes(b, "shutdown", "poll")
  /\ \/ setup.shutdown[b] = "command" /\ Turn(talks[b], "off")
     \/ setup.shutdown[b] = "stop" /\ Turn(Namesakes(b), "off")
  /\ UNCHANGED <<setup, created, keep, talks, found, made, wired, raced>>

\* StepShutdown's wait, and StepWaitForPowerOff's.
Poll(b) ==
  /\ ~IsRunning(b) /\ Goes(b, "poll", "wait_off")
  /\ UNCHANGED <<setup, created, keep, talks, host, raced>>
WaitForPowerOff(b) ==
  /\ IsOff(b) /\ Goes(b, "wait_off", "stop")
  /\ UNCHANGED <<setup, created, keep, talks, host, raced>>

(***************************************************************************)
(* Halting, and Cleanup.                                                   *)
(***************************************************************************)
\* Cleanup begins at the step the build was in.
CleanupFrom(place) ==
  CASE place \in {"look", "new_switch", "check"} -> "drop_switch"
    [] place \in {"create", "start"} -> "unregister"
    [] OTHER -> "stop"

\* A driver call fails (that of CheckVMName apart: NameUnchecked) or the build is
\* cancelled.  A switch made by a call that failed is forgotten.
Halt(b) ==
  /\ pc[b] \in {"look", "new_switch", "check"} \cup (Acting \ {"stop"})
  /\ pc' = [pc EXCEPT ![b] = CleanupFrom(pc[b])]
  /\ made' = made \/ (pc[b] = "new_switch" /\ made' = made \cup {b})
  /\ UNCHANGED <<setup, created, keep, talks, vm, found, wired, raced>>

\* Slip: the connection is tried for ever.
SlipTimeOut(b) ==
  /\ \/ Goes(b, "poll", "stop")
     \/ ~SwitchThere(b) /\ Goes(b, "create", "unregister")
  /\ UNCHANGED <<setup, created, keep, talks, host, raced>>

\* The connection and the guest's shutdown have a time limit, the wait for
\* power off has none; without a switch there can be no virtual machine.
TimeOut(b) ==
  /\ \/ Goes(b, "connect", "stop")
     \/ Goes(b, "poll", "stop")
     \/ ~SwitchThere(b) /\ Goes(b, "create", "unregister")
  /\ UNCHANGED <<setup, created, keep, talks, host, raced>>

\* StepRun's Cleanup stops the virtual machine it sees running.
CleanupRun(b) ==
  /\ Goes(b, "stop", "unregister")
  /\ \/ IsRunning(b) /\ Turn(Namesakes(b), "off")
     \/ vm' = vm                              \* it is not, or the call failed
  /\ UNCHANGED <<setup, created, keep, talks, found, made, wired, raced>>

\* DeleteVirtualMachine: Stop-VM and Remove-VM of all that have the name.
CleanupVM(b) ==
  /\ Goes(b, "unregister", "drop_switch")
  /\ \/ /\ b \notin keep
        /\ Turn(Namesakes(b), "absent") /\ wired' = wired \ Namesakes(b)
     \/ UNCHANGED <<vm, wired>>               \* kept, or the call failed
  /\ UNCHANGED <<setup, created, keep, talks, found, made, raced>>

\* DeleteVirtualSwitch: every switch of the name goes, and whatever is
\* connected to one is cut off.
CleanupSwitch(b) ==
  /\ Goes(b, "drop_switch", "over")
  /\ \/ /\ b \in created
        /\ found' = found \ {setup.switchName[b]}
        /\ made' = {c \in made : setup.switchName[c] # setup.switchName[b]}
        /\ wired' = {c \in wired : setup.switchName[c] # setup.switchName[b]}
     \/ UNCHANGED <<found, made, wired>>      \* not its own, or the call failed
  /\ UNCHANGED <<setup, created, keep, talks, vm, raced>>

\* A guest halts of itself.
GuestHalts(v) ==
  /\ vm[v] = "running" /\ Turn({v}, "off")
  /\ UNCHANGED <<setup, builds, found, made, wired, raced>>

Proceed(b) ==
  \/ LookForSwitch(b) \/ NewSwitch(b) \/ CheckVMName(b) \/ CreateVM(b)
  \/ Start(b) \/ Connect(b) \/ Shutdown(b) \/ Poll(b) \/ WaitForPowerOff(b)
  \/ TimeOut(b) \/ CleanupRun(b) \/ CleanupVM(b) \/ CleanupSwitch(b)

AllOver == \A b \in Builds : pc[b] = "over"
Terminated == AllOver /\ UNCHANGED vars

Next ==
  \/ \E b \in Builds : Proceed(b) \/ NameUnchecked(b) \/ Halt(b)
  \/ \E v \in VM : GuestHalts(v)
  \/ Terminated

\* A build goes on as long as it can: it is a loop over its steps, and each
\* call to PowerShell returns.
Spec == Init /\ [][Next]_vars /\ \A b \in Builds : WF_vars(Proceed(b))

(***************************************************************************)
(* What builds may do to each other.                                       *)
(***************************************************************************)
\* The name of b's virtual machine is contested: a build acted on it while
\* another machine had it or another build acted on it (their checks overlapped,
\* failed, or were not reached), or a clone, which is not checked, shares it.
Contested(b) ==
  \/ setup.vmName[b] \in raced
  \/ Namesakes(b) # {b} /\ \E c \in Builds \cap Namesakes(b) : setup.kind[c] = "vmcx"

(***************************************************************************)
(* TakesOnlyOwn: no step of a build starts, stops or removes a virtual     *)
(* machine other than its own, be it another build's or one that was there *)
(* ("to prevent namespace collisions", hyperv.go:385), unless the name is  *)
(* contested.  The check works when it is made and answered: what defeats  *)
(* it are checks that overlap, a check that fails (it passes) or is not    *)
(* reached (Cleanup removes all the same), and clones.                     *)
(***************************************************************************)
TakesOnlyOwn ==
  [][\A b \in Builds, v \in VM :
       pc'[b] # pc[b] /\ vm'[v] # vm[v] => v = b \/ Contested(b)]_vars

(***************************************************************************)
(* OneHolder: why.  Unless a name is contested, one build at a time acts   *)
(* on it, and while it does no other virtual machine has it.               *)
(***************************************************************************)
OneHolder ==
  \A b \in Builds : Holds(b) /\ ~Contested(b) =>
    \A v \in Namesakes(b) \ {b} : vm[v] = "absent" /\ (v \in Builds => ~Holds(v))

(***************************************************************************)
(* ReachesOwnGuest: the guest a build provisions and shuts down is its own *)
(* one, although its address is looked up by name and then by MAC address, *)
(* unless the name is contested.                                           *)
(***************************************************************************)
ReachesOwnGuest == \A b \in Builds : talks[b] \subseteq {b} \/ Contested(b)

(***************************************************************************)
(* SwitchServes: from the creation of its virtual machine to its cleanup a *)
(* build stays connected, and its switch stays, until another build that   *)
(* made a switch of that name cleans up.  A switch that was there before   *)
(* all the builds goes with nobody ("Will not delete on cleanup",          *)
(* step_create_switch.go:62).                                              *)
(***************************************************************************)
CutOff(b) ==
  /\ setup.switchName[b] \notin setup.otherSwitches
  /\ \E c \in created \ {b} :
       setup.switchName[c] = setup.switchName[b] /\ pc[c] = "over"

SwitchServes ==
  \A b \in Builds :
    pc[b] \in Acting \ {"create"} /\ ~Contested(b) =>
      (b \in wired /\ SwitchThere(b)) \/ CutOff(b)

(***************************************************************************)
(* EndsOrWaitsForOff: every build comes to an end, whatever the others do, *)
(* or waits for ever in StepWaitForPowerOff, and that only if its name is  *)
(* contested: of two machines of one name neither is ever seen off, so     *)
(* each of two builds that have it may wait for the other.                 *)
(***************************************************************************)
EndsOrWaitsForOff ==
  \A b \in Builds :
    \/ <>(pc[b] = "over")
    \/ <>[](pc[b] = "wait_off" /\ Contested(b))
=============================================================================
