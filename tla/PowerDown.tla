----------------------------- MODULE PowerDown -----------------------------
(***************************************************************************)
(* The end of a build's life with its guest, in detail: StepShutdown as    *)
(* the concurrent program it is (builder/hyperv/common/step_shutdown.go).  *)
(*                                                                         *)
(* Its Run asks the guest to stop, or stops the VM, arms a timer, starts a *)
(* goroutine that polls the VM's state, and then selects on the timer, the *)
(* context and the goroutine's channel.  The goroutine is not stopped when *)
(* Run returns: it may poll on while later steps and the Cleanups run.     *)
(*                                                                         *)
(* Every other step is as in HypervBuild, where StepShutdown is one        *)
(* action; ImplementsBuild says that this was right.                       *)
(***************************************************************************)
EXTENDS HypervBuild

VARIABLES
  wait,       \* "idle": no Run yet; "select": in its select loop; "over"
  poller,     \* the goroutine: "none", "polling" or "returned"
  seen,       \* the channel waitRunning holds a value
  fired       \* shutdownTimer has expired

power == <<wait, poller, seen, fired>>
allvars == <<vars, power>>

(***************************************************************************)
(* PowerTypeOK: the types, and what the program counters say together.     *)
(***************************************************************************)
PowerTypeOK ==
  /\ TypeOK
  /\ wait \in {"idle", "select", "over"}
  /\ poller \in {"none", "polling", "returned"}
  /\ seen \in BOOLEAN /\ fired \in BOOLEAN
  /\ poller = "none" <=> wait = "idle"
  /\ seen <=> poller = "returned"
  /\ wait = "select" => pc = "run" /\ Steps[pos] = "Shutdown"

PowerInit == Init /\ wait = "idle" /\ poller = "none" /\ seen = FALSE /\ fired = FALSE

\* What Stop-VM does: nothing, unless the VM is running.
Stopped == [host EXCEPT !.vm = IF @ = "running" THEN "off" ELSE @]

\* Slip: nobody watches a VM that is to shut itself down.
SlipShutdownCall ==
  /\ Running("Shutdown") /\ wait = "idle"
  /\ wait' = "select"
  /\ poller' = IF config.shutdown = "disabled" THEN "none" ELSE "polling"
  /\ host' = IF config.shutdown = "stop" THEN Stopped ELSE host
  /\ UNCHANGED <<config, pc, pos, ctxDone, bag, dvdProps, own, result, seen, fired>>

\* The shutdown command is sent, or Stop-VM is called, or neither.
ShutdownCall ==
  /\ Running("Shutdown") /\ wait = "idle"
  /\ wait' = "select" /\ poller' = "polling"
  /\ host' = IF config.shutdown = "stop" THEN Stopped ELSE host
  /\ UNCHANGED <<config, pc, pos, ctxDone, bag, dvdProps, own, result, seen, fired>>

ShutdownCallFails ==
  /\ Running("Shutdown") /\ wait = "idle"
  /\ config.shutdown # "disabled"
  /\ HaltWithError
  /\ \/ CallFails(IF config.shutdown = "stop" THEN Stopped ELSE host)
     \/ config.shutdown = "command" /\ ctxDone /\ host' = host
  /\ UNCHANGED <<dvdProps, own, power>>

\* Slip: the goroutine reports what it sees, whatever that is.
SlipPoll ==
  /\ poller = "polling" /\ poller' = "returned" /\ seen' = TRUE
  /\ UNCHANGED <<vars, wait, fired>>

\* running, _ := driver.IsRunning(vmName): an error reads as not running.
Poll ==
  /\ poller = "polling"
  /\ ~IsRunning \/ RunMayFail
  /\ poller' = "returned" /\ seen' = TRUE
  /\ UNCHANGED <<vars, wait, fired>>

\* A guest that is not slow is down before the timer expires.
Timer ==
  /\ wait # "idle" /\ ~fired
  /\ GuestMayBeSlow \/ wait = "over"
  /\ fired' = TRUE
  /\ UNCHANGED <<vars, wait, poller, seen>>

\* Slip: the timer is not looked at.
SlipSelect ==
  /\ Running("Shutdown") /\ wait = "select" /\ wait' = "over"
  /\ HaltOnCancel \/ (seen /\ Continue({}))
  /\ UNCHANGED <<dvdProps, own, host, poller, seen, fired>>

\* Any channel that is ready may be chosen.
Select ==
  /\ Running("Shutdown") /\ wait = "select" /\ wait' = "over"
  /\ (fired /\ HaltWithError) \/ HaltOnCancel \/ (seen /\ Continue({}))
  /\ UNCHANGED <<dvdProps, own, host, poller, seen, fired>>

\* StepWaitForPowerOff sleeps and asks again.
PollAgain == Running("WaitForPowerOff") /\ ~IsOff /\ UNCHANGED allvars

\* The guest does as it was asked.
GuestObeys ==
  /\ pc # "done" /\ wait # "idle" /\ ~GuestMayBeSlow /\ host.vm = "running"
  /\ host' = [host EXCEPT !.vm = "off"]
  /\ UNCHANGED <<config, pc, pos, ctxDone, bag, dvdProps, own, result, power>>

\* The builder's goroutine.
Builder ==
  \/ (RunnerNext \/ Panic \/ RunOtherStep \/ CleanupStep \/ Finish) /\ UNCHANGED power
  \/ ShutdownCall \/ ShutdownCallFails \/ Select

PowerNext ==
  \/ Builder \/ Poll \/ Timer \/ PollAgain \/ GuestObeys
  \/ (Cancel \/ MarkCancelled \/ Guest \/ Terminated) /\ UNCHANGED power

PowerSpec == PowerInit /\ [][PowerNext]_allvars

(***************************************************************************)
(* Fairness: goroutines are scheduled, timers expire, a cancelled context  *)
(* is noticed, and a guest that is not slow shuts down when asked to.      *)
(* Nothing makes a user interrupt, a call fail or a slow guest stop.       *)
(***************************************************************************)
Fairness ==
  /\ WF_allvars(Builder) /\ WF_allvars(Poll) /\ WF_allvars(Timer)
  /\ WF_allvars(GuestObeys) /\ WF_allvars(MarkCancelled /\ UNCHANGED power)

FairSpec == PowerSpec /\ Fairness

(***************************************************************************)
(* SelectInv: the wait never ends on a false report.  While StepShutdown   *)
(* is in its select, a value in the channel means that the VM is not seen  *)
(* running now, however long ago it was polled, unless polls may fail; a   *)
(* VM that was to be stopped does not run; and the timer has expired only  *)
(* over a slow guest.                                                      *)
(***************************************************************************)
SelectInv ==
  /\ wait = "idle" => ~fired
  /\ wait = "select" =>
       /\ Running("Shutdown")
       /\ seen => RunMayFail \/ ~IsRunning
       /\ config.shutdown = "stop" => host.vm # "running"
       /\ fired => GuestMayBeSlow

(***************************************************************************)
(* ImplementsBuild: seen from outside, the concurrent StepShutdown is the  *)
(* single action of HypervBuild, in every interleaving of its goroutine    *)
(* with the timer, the context, the guest and the later steps.             *)
(***************************************************************************)
ImplementsBuild == Spec

(***************************************************************************)
(* BuildEnds: every build comes to an end, in whichever of its steps it    *)
(* fails or is interrupted, provided that the VM can be seen to be off:    *)
(* the guest is not paused, no other VM has its name, and a guest that is  *)
(* slow is not taken for one that is off because a poll failed.            *)
(***************************************************************************)
OffIsSeen ==
  /\ "pause" \notin config.faults /\ ~config.nameTaken
  /\ ~(GuestMayBeSlow /\ RunMayFail)

BuildEnds == OffIsSeen => <>Done

(***************************************************************************)
(* PollerReturns: the goroutine that StepShutdown leaves behind ends too,  *)
(* because the Cleanups, if they work, stop or delete the VM it polls.     *)
(***************************************************************************)
PollerReturns ==
  ~CleanupMayFail /\ OffIsSeen => (poller = "polling" ~> poller = "returned")

(***************************************************************************)
(* TimeoutHonoured: the builder waits for the VM to shut down no longer    *)
(* than shutdown_timeout ("Packer will wait for a default of 5 minutes     *)
(* until the virtual machine is shutdown", iso/builder.go:52).             *)
(***************************************************************************)
TimeoutHonoured == fired ~> Done
=============================================================================
