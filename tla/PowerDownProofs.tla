-------------------------- MODULE PowerDownProofs --------------------------
(***************************************************************************)
(* The concurrent StepShutdown implements the atomic one, for every set of *)
(* accepted configurations.                                                *)
(*                                                                         *)
(* Only the select decides anything: the goroutine and the timer change    *)
(* nothing that HypervBuild knows of.  SelectInv says that at that moment  *)
(* a report, the timer and the context mean what StepShutdown takes them   *)
(* for; it is kept because nothing but the guest, the goroutine and the    *)
(* user moves while the builder waits.                                     *)
(***************************************************************************)
EXTENDS PowerDown, HypervBuildProofs

PowerInv == PowerTypeOK /\ SelectInv

\* No other step is taken for StepShutdown.
LEMMA OtherStep == RunOtherStep => pc = "run" /\ Steps[pos] # "Shutdown"
<1> SUFFICES ASSUME RunOtherStep PROVE pc = "run" /\ Steps[pos] # "Shutdown"
  OBVIOUS
<1> USE DEF Running
<1>1. CASE PlainStep
  BY <1>1 DEF PlainStep, StepValidateHost, StepValidateClone, StepDownload, StepCreateFloppy,
       StepHTTPServer, StepCreateCD, StepResizeVhd, StepEnableIntegrationService,
       StepConfigureVlan, StepSetBootOrder, StepSetFirstBootDevice,
       StepTypeBootCommand, StepConfigurePSRP, StepConnect, StepProvision,
       StepCleanupTempKeys, PlainInterruptible, Plain
<1>2. CASE ~PlainStep
  BY <1>2 DEF RunOtherStep, PlainStep, StepCreateBuildDir, StepOutputDir,
       StepCreateSwitch, StepCreateVM, StepCloneVM, StepMountDvdDrive,
       StepMountGuestAdditions, StepMountSecondaryDvdImages, StepMountFloppydrive,
       StepRun, StepWaitForPowerOff, StepUnmountSecondaryDvdImages,
       StepUnmountGuestAdditions, StepUnmountDvdDrive, UnmountDrives,
       StepUnmountFloppyDrive, StepCompactDisk, StepExportVm, StepCollateArtifacts
<1> QED
  BY <1>1, <1>2

\* Stop-VM turns off a running VM, as the guest could have, or does nothing.
LEMMA StopIsGuest ==
  ASSUME TypeOK, host' = Stopped
  PROVE  \/ host.vm # "running" /\ host' = host
         \/ host.vm = "running" /\ host' = [host EXCEPT !.vm = "off"]
<1>1. CASE host.vm = "running"
  BY <1>1 DEF Stopped
<1>2. CASE host.vm # "running"
  BY <1>2 DEF Stopped, TypeOK, Host
<1> QED
  BY <1>1, <1>2

(***************************************************************************)
(* Every step is one of HypervBuild, or changes nothing that it knows of.  *)
(***************************************************************************)
LEMMA CallMaps ==
  ASSUME PowerInv, ShutdownCall
  PROVE  Guest \/ UNCHANGED vars
<1>1. TypeOK /\ pc = "run"
  BY DEF PowerInv, PowerTypeOK, ShutdownCall, Running
<1>2. CASE config.shutdown = "stop"
  BY <1>1, <1>2, StopIsGuest DEF ShutdownCall, Guest, vars
<1>3. CASE config.shutdown # "stop"
  BY <1>3 DEF ShutdownCall, vars
<1> QED
  BY <1>2, <1>3

LEMMA CallFailsMaps ==
  ASSUME PowerInv, ShutdownCallFails
  PROVE  StepShutdown
<1>1. TypeOK /\ Running("Shutdown") /\ HaltWithError /\ config.shutdown # "disabled"
      /\ UNCHANGED <<dvdProps, own>>
  BY DEF PowerInv, PowerTypeOK, ShutdownCallFails
<1>2. \/ (RunMayFail \/ RunMayFailLate) /\ host' = host
      \/ config.shutdown = "stop" /\ RunMayFailLate /\ host' = Stopped
      \/ config.shutdown = "command" /\ ctxDone /\ host' = host
  BY DEF ShutdownCallFails, CallFails
<1>3. \/ (RunMayFail \/ RunMayFailLate) /\ host' = host
      \/ /\ config.shutdown = "stop" /\ RunMayFailLate
         /\ host.vm = "running" /\ host' = [host EXCEPT !.vm = "off"]
      \/ config.shutdown = "command" /\ ctxDone /\ host' = host
  BY <1>1, <1>2, StopIsGuest
<1> QED
  BY <1>1, <1>3 DEF StepShutdown

LEMMA SelectMaps ==
  ASSUME PowerInv, Select
  PROVE  StepShutdown
<1>1. /\ Running("Shutdown") /\ UNCHANGED <<dvdProps, own, host>>
      /\ (fired /\ HaltWithError) \/ HaltOnCancel \/ (seen /\ Continue({}))
  BY DEF Select
<1>2. /\ seen => RunMayFail \/ ~IsRunning
      /\ config.shutdown = "stop" => host.vm # "running"
      /\ fired => GuestMayBeSlow
  BY DEF PowerInv, SelectInv, Select
<1>3. \/ HaltWithError /\ GuestMayBeSlow
      \/ HaltOnCancel
      \/ /\ Continue({}) /\ (RunMayFail \/ ~IsRunning)
         /\ config.shutdown = "stop" => host.vm # "running"
  BY <1>1, <1>2
<1> QED
  BY <1>1, <1>3 DEF StepShutdown

LEMMA StepMaps == PowerInv /\ [PowerNext]_allvars => [Next]_vars
<1> SUFFICES ASSUME PowerInv, [PowerNext]_allvars PROVE [Next]_vars
  OBVIOUS
<1>1. CASE ShutdownCall \/ ShutdownCallFails \/ Select
  BY <1>1, CallMaps, CallFailsMaps, SelectMaps DEF Next, RunStep
<1>2. CASE RunnerNext \/ Panic \/ RunOtherStep \/ CleanupStep \/ Finish
  BY <1>2 DEF Next, RunStep
<1>3. CASE Poll \/ Timer \/ PollAgain \/ UNCHANGED allvars
  BY <1>3 DEF Poll, Timer, PollAgain, allvars, vars
<1>4. CASE GuestObeys
  BY <1>4 DEF GuestObeys, Guest, Next
<1>5. CASE Cancel \/ MarkCancelled \/ Guest \/ Terminated
  BY <1>5 DEF Next
<1> QED
  BY <1>1, <1>2, <1>3, <1>4, <1>5 DEF PowerNext, Builder

(***************************************************************************)
(* PowerInv is inductive.                                                  *)
(***************************************************************************)
\* What PowerInv says beyond TypeOK, of the step's own state.
WaitTypeOK ==
  /\ wait \in {"idle", "select", "over"}
  /\ poller \in {"none", "polling", "returned"}
  /\ seen \in BOOLEAN /\ fired \in BOOLEAN
  /\ poller = "none" <=> wait = "idle"
  /\ seen <=> poller = "returned"

LEMMA PowerParts ==
  /\ PowerInv <=> TypeOK /\ WaitTypeOK /\ SelectInv
  /\ PowerInv' <=> TypeOK' /\ WaitTypeOK' /\ SelectInv'
BY DEF PowerInv, PowerTypeOK, WaitTypeOK, SelectInv, Running

\* While the builder waits, no other part of it moves.
LEMMA BuilderWaits ==
  ASSUME SelectInv, wait = "select"
  PROVE  ~(RunnerNext \/ Panic \/ RunOtherStep \/ CleanupStep \/ Finish)
<1>1. pc = "run" /\ Steps[pos] = "Shutdown" /\ Needs(Steps[pos]) \subseteq bag
  BY DEF SelectInv, Running
<1>2. ~CleanupStep
  BY <1>1 DEF CleanupStep, CleanupCreateBuildDir, CleanupOutputDir, CleanupCreateSwitch,
              CleanupVM, CleanupMountDvdDrive, CleanupMountGuestAdditions,
              CleanupMountSecondaryDvdImages, CleanupDrives, CleanupMountFloppydrive,
              CleanupRun, NoCleanup, CleansUp
<1> QED
  BY <1>1, <1>2, OtherStep DEF RunnerNext, Panic, Finish

\* What the user, the runner's goroutine and the guest cannot undo.
LEMMA WaitKept ==
  ASSUME TypeOK, SelectInv, UNCHANGED power, Cancel \/ MarkCancelled \/ Guest
  PROVE  SelectInv'
<1>1. UNCHANGED <<config, pc, pos>> /\ bag \subseteq bag' /\ UNCHANGED <<wait, seen, fired>>
  BY DEF Cancel, MarkCancelled, Guest, power
<1>2. Steps' = Steps
  BY <1>1 DEF Steps
<1>3. Running("Shutdown") => Running("Shutdown")'
  BY <1>1, <1>2 DEF Running, Needs
<1>4. /\ ~IsRunning => ~IsRunning'
      /\ host.vm # "running" => host'.vm # "running"
  <2>1. CASE Cancel \/ MarkCancelled
    BY <2>1 DEF Cancel, MarkCancelled, IsRunning, Ambiguous
  <2>2. CASE Guest
    BY <2>2 DEF Guest, IsRunning, Ambiguous, TypeOK, Host
  <2> QED
    BY <2>1, <2>2
<1> QED
  BY <1>1, <1>3, <1>4 DEF SelectInv, RunMayFail, GuestMayBeSlow

LEMMA PowerStep == PowerInv /\ [PowerNext]_allvars => PowerInv'
<1> SUFFICES ASSUME PowerInv, [PowerNext]_allvars PROVE WaitTypeOK' /\ SelectInv'
  BY StepMaps, TypeStep, PowerParts
<1>1. TypeOK /\ WaitTypeOK /\ SelectInv
  BY PowerParts
<1>2. CASE ShutdownCall
  <2>1. wait = "idle" /\ wait' = "select" /\ poller' = "polling" /\ UNCHANGED <<seen, fired>>
        /\ UNCHANGED <<config, pc, pos, bag>> /\ Running("Shutdown")
    BY <1>2 DEF ShutdownCall
  <2>2. WaitTypeOK'
    BY <1>1, <2>1 DEF WaitTypeOK
  <2>3. ~seen' /\ ~fired'
    BY <1>1, <2>1 DEF WaitTypeOK, SelectInv
  <2>4. Running("Shutdown")'
    BY <2>1 DEF Running, Steps, Needs
  <2>5. config'.shutdown = "stop" => host'.vm # "running"
    <3>1. ASSUME config.shutdown = "stop" PROVE host'.vm # "running"
      BY <1>1, <1>2, <3>1, StopIsGuest DEF ShutdownCall, TypeOK, Host
    <3> QED
      BY <2>1, <3>1
  <2> QED
    BY <2>1, <2>2, <2>3, <2>4, <2>5 DEF SelectInv
<1>3. CASE ShutdownCallFails
  <2>1. wait = "idle" /\ UNCHANGED power
    BY <1>3 DEF ShutdownCallFails
  <2> QED
    BY <1>1, <2>1 DEF WaitTypeOK, SelectInv, power
<1>4. CASE Select
  <2>1. wait' = "over" /\ wait = "select" /\ UNCHANGED <<poller, seen, fired>>
    BY <1>4 DEF Select
  <2> QED
    BY <1>1, <2>1 DEF WaitTypeOK, SelectInv
<1>5. CASE (RunnerNext \/ Panic \/ RunOtherStep \/ CleanupStep \/ Finish) /\ UNCHANGED power
  <2>1. wait # "select" /\ UNCHANGED power
    BY <1>1, <1>5, BuilderWaits
  <2> QED
    BY <1>1, <2>1 DEF WaitTypeOK, SelectInv, power
<1>6. CASE Poll
  <2>1. poller = "polling" /\ poller' = "returned" /\ seen' = TRUE /\ UNCHANGED <<vars, wait, fired>>
        /\ (~IsRunning \/ RunMayFail)
    BY <1>6 DEF Poll
  <2>2. WaitTypeOK'
    BY <1>1, <2>1 DEF WaitTypeOK
  <2>3. Running("Shutdown") => Running("Shutdown")'
    BY <2>1 DEF vars, Running, Steps, Needs
  <2>4. (~IsRunning \/ RunMayFail)'
    BY <2>1 DEF vars, IsRunning, Ambiguous, RunMayFail
  <2> QED
    BY <1>1, <2>1, <2>2, <2>3, <2>4 DEF SelectInv, vars, GuestMayBeSlow
<1>7. CASE Timer
  <2>1. wait # "idle" /\ fired' = TRUE /\ UNCHANGED <<vars, wait, poller, seen>>
        /\ (GuestMayBeSlow \/ wait = "over")
    BY <1>7 DEF Timer
  <2>2. WaitTypeOK'
    BY <1>1, <2>1 DEF WaitTypeOK
  <2>3. /\ Running("Shutdown") => Running("Shutdown")'
        /\ (RunMayFail \/ ~IsRunning) => (RunMayFail \/ ~IsRunning)'
    BY <2>1 DEF vars, Running, Steps, Needs, IsRunning, Ambiguous, RunMayFail
  <2> QED
    BY <1>1, <2>1, <2>2, <2>3 DEF SelectInv, vars, GuestMayBeSlow
<1>8. CASE GuestObeys
  <2>1. Guest /\ UNCHANGED power
    BY <1>8 DEF GuestObeys, Guest
  <2> QED
    BY <1>1, <2>1, WaitKept DEF WaitTypeOK, power
<1>9. CASE (Cancel \/ MarkCancelled \/ Guest) /\ UNCHANGED power
  BY <1>1, <1>9, WaitKept DEF WaitTypeOK, power
<1>10. CASE PollAgain \/ (Terminated /\ UNCHANGED power) \/ UNCHANGED allvars
  <2>1. UNCHANGED vars /\ UNCHANGED power
    BY <1>10 DEF PollAgain, Terminated, allvars
  <2>2. /\ Running("Shutdown") => Running("Shutdown")'
        /\ (RunMayFail \/ ~IsRunning) => (RunMayFail \/ ~IsRunning)'
    BY <2>1 DEF vars, Running, Steps, Needs, IsRunning, Ambiguous, RunMayFail
  <2> QED
    BY <1>1, <2>1, <2>2 DEF WaitTypeOK, SelectInv, vars, power, GuestMayBeSlow
<1> QED
  BY <1>2, <1>3, <1>4, <1>5, <1>6, <1>7, <1>8, <1>9, <1>10 DEF PowerNext, Builder

LEMMA PowerStart == PowerInit => Init /\ PowerInv
<1> SUFFICES ASSUME PowerInit PROVE TypeOK /\ WaitTypeOK /\ SelectInv
  BY PowerParts DEF PowerInit
<1>1. TypeOK
  BY InitType DEF PowerInit
<1> QED
  BY <1>1 DEF PowerInit, WaitTypeOK, SelectInv

(***************************************************************************)
(* SelectCorrect: when StepShutdown's select chooses, a report still means *)
(* that the VM is not seen running and an expired timer that the guest was *)
(* slow, in every interleaving with the goroutine, the guest and the user  *)
(* (step_shutdown.go:80-105).                                              *)
(***************************************************************************)
THEOREM SelectCorrect == PowerSpec => []SelectInv
<1>1. PowerInv => SelectInv
  BY DEF PowerInv
<1> QED
  BY <1>1, PowerStart, PowerStep, PTL DEF PowerSpec

(***************************************************************************)
(* PowerTypeCorrect: the state of StepShutdown, of its goroutine and of    *)
(* its timer is well typed and agrees: the goroutine exists once the call  *)
(* was made, the channel holds a value once it returned, and the select is *)
(* entered only in StepShutdown's Run (step_shutdown.go:71-111).           *)
(***************************************************************************)
THEOREM PowerTypeCorrect == PowerSpec => []PowerTypeOK
<1>1. PowerInv => PowerTypeOK
  BY DEF PowerInv
<1> QED
  BY <1>1, PowerStart, PowerStep, PTL DEF PowerSpec

(***************************************************************************)
(* PowerDownImplementsBuild: the concurrent StepShutdown, with a goroutine *)
(* that outlives it, is the one action of HypervBuild, whatever the set of *)
(* accepted configurations.                                                *)
(***************************************************************************)
THEOREM PowerDownImplementsBuild == PowerSpec => ImplementsBuild
BY PowerStart, PowerStep, StepMaps, PTL DEF PowerSpec, ImplementsBuild, Spec
=============================================================================
