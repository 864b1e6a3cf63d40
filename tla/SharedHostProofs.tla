-------------------------- MODULE SharedHostProofs --------------------------
(***************************************************************************)
(* Proofs about builds that share a host: whatever the number of builds    *)
(* and of virtual machines and whatever names they share, a build acts on  *)
(* its own virtual machine only, and keeps its switch, unless its name is  *)
(* contested.                                                              *)
(*                                                                         *)
(* The argument is OneHolder.  The check of a name and the creation of the *)
(* virtual machine are two steps, so "nobody else has the name" is not     *)
(* inductive; "nobody else acts on the name, or two checks overlapped" is. *)
(***************************************************************************)
EXTENDS SharedHost, TLAPS

USE SetupsAssumption, OthersAssumption

\* A step of the build b.
Moves(b) == Proceed(b) \/ NameUnchecked(b) \/ Halt(b)

(***************************************************************************)
(* TypeCorrect: every variable always holds a value of its kind.           *)
(***************************************************************************)
LEMMA SetupParts ==
  ASSUME TypeOK
  PROVE  /\ setup.kind \in [Builds -> {"iso", "vmcx"}]
         /\ setup.vmName \in [VM -> VMNames]
         /\ setup.switchName \in [Builds -> SwitchNames]
         /\ setup.otherSwitches \subseteq SwitchNames
         /\ setup.keepRegistered \subseteq Builds
  BY DEF TypeOK, Setup

\* What Turn leaves of the machines' states: kinds, and absence.
LEMMA TurnType ==
  ASSUME vm \in [VM -> {"absent", "off", "running"}],
         NEW S, NEW s \in {"absent", "off", "running"}, Turn(S, s)
  PROVE  /\ vm' \in [VM -> {"absent", "off", "running"}]
         /\ \A v \in VM : vm'[v] # vm[v] => v \in S /\ vm[v] # "absent"
  BY DEF Turn

LEMMA GoesType ==
  ASSUME pc \in [Builds -> Place], NEW b \in Builds, NEW f, NEW t \in Place, Goes(b, f, t)
  PROVE  /\ pc' \in [Builds -> Place] /\ pc[b] = f /\ pc'[b] = t
         /\ \A c \in Builds \ {b} : pc'[c] = pc[c]
  BY DEF Goes

(***************************************************************************)
(* Effects: what one step of a build b may change.  Nothing of the other   *)
(* builds; the state of its own machine, of one that it acts on by name,   *)
(* or of the guest it talks to; only CreateVM makes a machine, and it only *)
(* begins to act on its name at the check.                                 *)
(***************************************************************************)
Begins(b) ==
  /\ pc[b] = "check" /\ host' = host
  /\ (CheckVMName(b) /\ pc'[b] = "create") \/ NameUnchecked(b)

Effects(b) ==
  /\ setup' = setup /\ raced \subseteq raced'
  /\ \A c \in Builds \ {b} :
       pc'[c] = pc[c] /\ (c \in keep' <=> c \in keep) /\ talks'[c] = talks[c]
  /\ Holds(b)' => Holds(b) \/ Begins(b)
  /\ \A v \in VM : vm'[v] # vm[v] =>
       \/ v = b /\ pc[b] = "create"
       \/ vm[v] # "absent" /\ Holds(b) /\ v \in Namesakes(b)
       \/ vm[v] # "absent" /\ v \in talks[b]
  /\ \A v \in talks'[b] :
       v \in talks[b] \/ (v \in Present(b) /\ Holds(b))

LEMMA StepType ==
  ASSUME TypeOK, NEW b \in Builds, Moves(b)
  PROVE  TypeOK' /\ Effects(b)
<1>0. setup \in Setups /\ pc \in [Builds -> Place] /\ created \subseteq Builds
      /\ keep \subseteq Builds /\ talks \in [Builds -> SUBSET VM]
      /\ vm \in [VM -> {"absent", "off", "running"}]
      /\ found \subseteq SwitchNames /\ made \subseteq Builds
      /\ wired \subseteq Builds /\ raced \subseteq VMNames
  BY DEF TypeOK
<1>v. b \in VM /\ setup.vmName[b] \in VMNames
  BY SetupParts DEF VM
<1>1. CASE LookForSwitch(b)
  BY <1>0, <1>1 DEF LookForSwitch, Goes, host, TypeOK, Effects, Holds, Acting, Place
<1>2. CASE NewSwitch(b)
  BY <1>0, <1>2 DEF NewSwitch, Goes, TypeOK, Effects, Holds, Acting, Place
<1>3. CASE CheckVMName(b)
  <2>1. pc' \in [Builds -> Place] /\ keep' \subseteq Builds /\ raced' \subseteq VMNames
        /\ raced \subseteq raced'
        /\ \A c \in Builds \ {b} : pc'[c] = pc[c] /\ (c \in keep' <=> c \in keep)
    BY <1>0, <1>3, <1>v DEF CheckVMName, Claim, Goes, Acting, Place
  <2>2. Holds(b)' => pc[b] = "check" /\ pc'[b] = "create"
    BY <1>0, <1>3 DEF CheckVMName, Goes, Holds, Acting, Place
  <2>3. Holds(b)' => Begins(b)
    BY <1>3, <2>2 DEF CheckVMName, Begins, host
  <2> QED BY <1>0, <1>3, <2>1, <2>3 DEF CheckVMName, host, TypeOK, Effects
<1>4. CASE CreateVM(b)
  BY <1>0, <1>v, <1>4 DEF CreateVM, Goes, TypeOK, Effects, Holds, Acting, Place
<1>5. CASE Start(b)
  <2>1. /\ vm' \in [VM -> {"absent", "off", "running"}]
        /\ \A v \in VM : vm'[v] # vm[v] => v \in Namesakes(b) /\ vm[v] # "absent"
    BY <1>0, <1>5, TurnType DEF Start
  <2> QED BY <1>0, <1>5, <2>1 DEF Start, Goes, TypeOK, Effects, Holds, Acting, Place
<1>6. CASE Connect(b)
  <2>1. talks' \in [Builds -> SUBSET VM] /\ talks'[b] \subseteq Present(b)
        /\ \A c \in Builds \ {b} : talks'[c] = talks[c]
    BY <1>0, <1>6 DEF Connect, Present, Namesakes
  <2> QED BY <1>0, <1>6, <2>1 DEF Connect, Goes, host, TypeOK, Effects, Holds, Acting, Place
<1>7. CASE Shutdown(b)
  <2>1. /\ vm' \in [VM -> {"absent", "off", "running"}]
        /\ \A v \in VM : vm'[v] # vm[v] => v \in Namesakes(b) \cup talks[b] /\ vm[v] # "absent"
    BY <1>0, <1>7, TurnType DEF Shutdown
  <2> QED BY <1>0, <1>7, <2>1 DEF Shutdown, Goes, TypeOK, Effects, Holds, Acting, Place
<1>8. CASE Poll(b)
  BY <1>0, <1>8 DEF Poll, Goes, host, TypeOK, Effects, Holds, Acting, Place
<1>9. CASE WaitForPowerOff(b)
  BY <1>0, <1>9 DEF WaitForPowerOff, Goes, host, TypeOK, Effects, Holds, Acting, Place
<1>10. CASE TimeOut(b)
  BY <1>0, <1>10 DEF TimeOut, Goes, host, TypeOK, Effects, Holds, Acting, Place
<1>11. CASE CleanupRun(b)
  <2>1. /\ vm' \in [VM -> {"absent", "off", "running"}]
        /\ \A v \in VM : vm'[v] # vm[v] => v \in Namesakes(b) /\ vm[v] # "absent"
    BY <1>0, <1>11, TurnType DEF CleanupRun
  <2> QED BY <1>0, <1>11, <2>1 DEF CleanupRun, Goes, TypeOK, Effects, Holds, Acting, Place
<1>12. CASE CleanupVM(b)
  <2>1. /\ vm' \in [VM -> {"absent", "off", "running"}]
        /\ \A v \in VM : vm'[v] # vm[v] => v \in Namesakes(b) /\ vm[v] # "absent" /\ b \notin keep
    BY <1>0, <1>12, TurnType DEF CleanupVM
  <2>2. wired' \subseteq Builds
    BY <1>0, <1>12 DEF CleanupVM
  <2> QED BY <1>0, <1>12, <2>1, <2>2 DEF CleanupVM, Goes, TypeOK, Effects, Holds, Acting, Place
<1>13. CASE CleanupSwitch(b)
  BY <1>0, <1>13 DEF CleanupSwitch, Goes, TypeOK, Effects, Holds, Acting, Place
<1>14. CASE Halt(b)
  <2>1. /\ CleanupFrom(pc[b]) \in {"drop_switch", "unregister", "stop"}
        /\ CleanupFrom(pc[b]) # "drop_switch" => pc[b] \in Acting
    BY <1>14 DEF CleanupFrom, Halt, Acting
  <2> QED BY <1>0, <1>14, <2>1 DEF Halt, TypeOK, Effects, Holds, Acting, Place
<1>15. CASE NameUnchecked(b)
  <2>1. pc' \in [Builds -> Place] /\ raced' \subseteq VMNames /\ raced \subseteq raced'
        /\ pc[b] = "check" /\ \A c \in Builds \ {b} : pc'[c] = pc[c]
    BY <1>0, <1>15, <1>v DEF NameUnchecked, Claim, Goes, Acting, Place
  <2>2. Begins(b)
    BY <1>15, <2>1 DEF Begins, NameUnchecked, host
  <2> QED BY <1>0, <1>15, <2>1, <2>2 DEF NameUnchecked, host, TypeOK, Effects
<1> QED BY <1>1, <1>2, <1>3, <1>4, <1>5, <1>6, <1>7, <1>8, <1>9, <1>10, <1>11, <1>12,
           <1>13, <1>14, <1>15 DEF Moves, Proceed

LEMMA GuestType ==
  ASSUME TypeOK, NEW v \in VM, GuestHalts(v)
  PROVE  TypeOK' /\ UNCHANGED <<setup, builds, raced, found, made, wired>>
         /\ \A w \in VM : vm'[w] # vm[w] => vm[w] # "absent"
  BY TurnType DEF GuestHalts, TypeOK, builds

LEMMA InitType == Init => TypeOK
  BY DEF Init, TypeOK, Setup, Place

THEOREM TypeCorrect == Spec => []TypeOK
<1>1. TypeOK /\ [Next]_vars => TypeOK'
  <2> SUFFICES ASSUME TypeOK, [Next]_vars PROVE TypeOK'
    OBVIOUS
  <2>1. CASE UNCHANGED vars
    BY <2>1 DEF vars, builds, host, TypeOK
  <2> QED BY <2>1, StepType, GuestType DEF Next, Terminated, Moves
<1> QED BY <1>1, InitType, PTL DEF Spec

(***************************************************************************)
(* Namesake builds are contested together, and a contest never ends.       *)
(***************************************************************************)
LEMMA ContestedStays ==
  ASSUME TypeOK, setup' = setup, raced \subseteq raced', NEW b \in Builds, Contested(b)
  PROVE  Contested(b)'
  BY DEF Contested, Namesakes

LEMMA ContestedTogether ==
  ASSUME TypeOK, NEW b \in Builds, NEW c \in Builds \ {b}, c \in Namesakes(b), Contested(b)
  PROVE  Contested(c) /\ b \in Namesakes(c)
  BY DEF Contested, Namesakes, VM

(***************************************************************************)
(* HolderAlone: a build that acts on a name meets nobody there.            *)
(***************************************************************************)
LEMMA HolderAlone ==
  ASSUME TypeOK, OneHolder, NEW b \in Builds, Holds(b), ~Contested(b)
  PROVE  /\ \A v \in Namesakes(b) \ {b} : vm[v] = "absent"
         /\ \A c \in Builds \ {b} : b \in Namesakes(c) => ~Holds(c)
  BY DEF OneHolder, Namesakes, VM

\* A build that has just begun to act on a name is alone there, or contested:
\* its check saw nobody, or what it did not see is on record.
LEMMA BegunAlone ==
  ASSUME TypeOK, NEW b \in Builds, Begins(b), ~Contested(b)'
  PROVE  \A v \in Namesakes(b) \ {b} :
           /\ vm[v] = "absent" /\ vm' = vm
           /\ v \in Builds => ~Holds(v)
<1>0. setup' = setup /\ vm' = vm /\ b \in Namesakes(b) /\ Namesakes(b)' = Namesakes(b)
  BY DEF Begins, CheckVMName, NameUnchecked, Namesakes, host, VM
<1>1. ASSUME NEW others, Claim(b, others) PROVE others = {}
  BY <1>0, <1>1 DEF Claim, Contested, TypeOK
<1>2. CASE NameUnchecked(b)
  <2>1. OtherHolders(b) \cup (Present(b) \ {b}) = {}
    BY <1>1, <1>2 DEF NameUnchecked
  <2> QED BY <1>0, <2>1 DEF OtherHolders, Present
<1>3. CASE CheckVMName(b) /\ pc'[b] = "create"
  <2>1. Claim(b, OtherHolders(b)) /\ (setup.kind[b] = "vmcx" \/ Present(b) = {})
    BY <1>3 DEF CheckVMName, Goes, TypeOK
  <2>2. OtherHolders(b) = {}
    BY <1>1, <2>1
  <2>3. Present(b) = {} \/ Namesakes(b) = {b}
    BY <1>0, <2>1 DEF Contested
  <2> QED BY <1>0, <2>2, <2>3 DEF OtherHolders, Present
<1> QED BY <1>2, <1>3 DEF Begins

LEMMA OneHolderStep ==
  ASSUME TypeOK, OneHolder, NEW b \in Builds, Moves(b),
         \A c \in Builds : talks[c] \subseteq {c} \/ Contested(c)
  PROVE  OneHolder'
<1> USE DEF VM
<1>e. Effects(b)
  BY StepType
<1>s. setup' = setup /\ \A c \in Builds : Namesakes(c)' = Namesakes(c) /\ c \in Namesakes(c)
  BY <1>e DEF Effects, Namesakes
<1>c. \A c \in Builds : Contested(c) => Contested(c)'
  BY <1>e, ContestedStays DEF Effects
<1>o. \A c \in Builds \ {b} : Holds(c)' <=> Holds(c)
  BY <1>e DEF Effects, Holds
<1> SUFFICES ASSUME NEW h \in Builds, Holds(h)', ~Contested(h)',
                    NEW v \in Namesakes(h) \ {h}
             PROVE  vm'[v] = "absent" /\ (v \in Builds => ~Holds(v)')
  BY <1>s DEF OneHolder
<1>n. ~Contested(h) /\ v \in VM
  BY <1>c DEF Namesakes
<1>1. CASE h = b
  <2>1. vm[v] = "absent" /\ (v \in Builds => ~Holds(v))
    BY <1>1, <1>e, <1>n, HolderAlone, BegunAlone DEF Effects, OneHolder
  <2>2. vm'[v] = "absent"
    BY <2>1, <1>1, <1>e, <1>n DEF Effects
  <2> QED BY <2>1, <2>2, <1>1, <1>o
<1>2. CASE h # b
  <2>1. Holds(h) /\ vm[v] = "absent" /\ (v \in Builds => ~Holds(v))
    BY <1>2, <1>n, <1>o DEF OneHolder
  <2>2. CASE v # b
    BY <2>1, <2>2, <1>e, <1>n, <1>o DEF Effects
  <2>3. CASE v = b
    <3>1. h \in Namesakes(b) /\ ~Holds(b)
      BY <2>1, <2>3, <1>n DEF Namesakes
    <3>2. ~Contested(b)'
      <4>1. setup'.vmName[b] = setup'.vmName[h] /\ Namesakes(b)' = Namesakes(h)'
        BY <1>s, <3>1 DEF Namesakes
      <4>2. Namesakes(h)' # {h} /\ Namesakes(b)' # {b}
        BY <1>s, <2>3, <3>1
      <4> QED BY <4>1, <4>2 DEF Contested
    <3>3. ~Holds(b)'
      BY <1>e, <1>2, <2>1, <3>1, <3>2, BegunAlone DEF Effects
    <3>4. vm'[b] = "absent"
      BY <1>e, <2>1, <2>3, <3>1, <1>n DEF Effects, Holds, Acting
    <3> QED BY <2>3, <3>3, <3>4
  <2> QED BY <2>2, <2>3
<1> QED BY <1>1, <1>2

LEMMA ReachStep ==
  ASSUME TypeOK, OneHolder, NEW b \in Builds, Moves(b), ReachesOwnGuest
  PROVE  ReachesOwnGuest'
<1>e. Effects(b)
  BY StepType
<1>1. \A c \in Builds \ {b} : talks'[c] \subseteq {c} \/ Contested(c)'
  BY <1>e, ContestedStays DEF ReachesOwnGuest, Effects
<1>2. talks'[b] \subseteq {b} \/ Contested(b)
  BY <1>e, HolderAlone DEF ReachesOwnGuest, Effects, Present
<1>3. talks'[b] \subseteq {b} \/ Contested(b)'
  BY <1>2, <1>e, ContestedStays DEF Effects
<1> QED BY <1>1, <1>3 DEF ReachesOwnGuest

NameInv == TypeOK /\ OneHolder /\ ReachesOwnGuest

LEMMA NameInit == Init => NameInv
  BY InitType DEF Init, NameInv, OneHolder, ReachesOwnGuest, Holds, Acting

LEMMA NameStep == NameInv /\ [Next]_vars => NameInv'
<1> SUFFICES ASSUME NameInv, [Next]_vars PROVE NameInv'
  OBVIOUS
<1>1. ASSUME NEW b \in Builds, Moves(b) PROVE NameInv'
  BY <1>1, StepType, OneHolderStep, ReachStep DEF NameInv, ReachesOwnGuest
<1>2. ASSUME NEW v \in VM, GuestHalts(v) PROVE NameInv'
  <2>1. TypeOK' /\ UNCHANGED <<setup, builds, raced>>
        /\ \A w \in VM : vm'[w] # vm[w] => vm[w] # "absent"
    BY <1>2, GuestType DEF NameInv
  <2>2. OneHolder' /\ ReachesOwnGuest'
    BY <2>1 DEF NameInv, OneHolder, ReachesOwnGuest, Contested, Namesakes, Holds, builds
  <2> QED BY <2>1, <2>2 DEF NameInv
<1>3. CASE UNCHANGED vars
  BY <1>3 DEF vars, builds, host, NameInv, TypeOK, OneHolder, ReachesOwnGuest,
              Contested, Namesakes, Holds
<1> QED BY <1>1, <1>2, <1>3 DEF Next, Terminated, Moves

(***************************************************************************)
(* NamesHold: on every host a build that acts on a name is alone there,    *)
(* unless the name is contested, and reaches its own guest.                *)
(***************************************************************************)
THEOREM NamesHold == Spec => [](OneHolder /\ ReachesOwnGuest)
<1>1. NameInv => OneHolder /\ ReachesOwnGuest
  BY DEF NameInv
<1> QED BY <1>1, NameInit, NameStep, PTL DEF Spec

(***************************************************************************)
(* GuestReached: for any number of builds, the guest that a build          *)
(* provisions and shuts down is its own, unless its name is contested.     *)
(***************************************************************************)
THEOREM GuestReached == Spec => []ReachesOwnGuest
  BY NamesHold, PTL

(***************************************************************************)
(* BuildsTakeOnlyTheirOwn: no step of a build, in its run or its cleanup,  *)
(* starts, stops or removes another's virtual machine, unless the name is  *)
(* contested.                                                              *)
(***************************************************************************)
THEOREM BuildsTakeOnlyTheirOwn == Spec => TakesOnlyOwn
<1> DEFINE Takes == \A b \in Builds, v \in VM :
                      pc'[b] # pc[b] /\ vm'[v] # vm[v] => v = b \/ Contested(b)
<1>1. NameInv /\ [Next]_vars => [Takes]_vars
  <2> SUFFICES ASSUME NameInv, Next PROVE Takes
    BY DEF vars
  <2> SUFFICES ASSUME NEW b \in Builds, NEW v \in VM, pc'[b] # pc[b], vm'[v] # vm[v]
               PROVE  v = b \/ Contested(b)
    OBVIOUS
  <2>1. Moves(b)
    <3>1. ASSUME NEW c \in Builds \ {b}, Moves(c) PROVE FALSE
      BY <3>1, StepType DEF NameInv, Effects
    <3>2. ~(\E w \in VM : GuestHalts(w))
      BY DEF GuestHalts, builds
    <3> QED BY <3>1, <3>2 DEF Next, Terminated, Moves, vars, builds
  <2>2. Effects(b)
    BY <2>1, StepType DEF NameInv
  <2> QED BY <2>2, HolderAlone DEF NameInv, Effects, ReachesOwnGuest
<1> QED BY <1>1, NameInit, NameStep, PTL DEF Spec, TakesOnlyOwn

(***************************************************************************)
(* The switches: those that were there stay, since no build takes one for  *)
(* its own.  A build is connected from the creation of its machine until   *)
(* one of the makers of its switch has cleaned up, and a maker that has    *)
(* stays one: once cut off, always cut off.                                *)
(***************************************************************************)
FoundKept ==
  /\ found = setup.otherSwitches
  /\ \A b \in Builds : b \in created \/ pc[b] = "new_switch" =>
       setup.switchName[b] \notin found

Connected(b) == pc[b] \in Acting \ {"create"} /\ ~Contested(b)

SwitchInv == NameInv /\ FoundKept /\ SwitchServes

LEMMA FoundKeptStep ==
  ASSUME TypeOK, FoundKept, NEW b \in Builds, Moves(b)
  PROVE  FoundKept'
<1>e. Effects(b)
  BY StepType
<1>1. found' = found
  BY DEF FoundKept, Moves, Proceed, Halt, LookForSwitch, NewSwitch, CheckVMName,
         NameUnchecked, CreateVM, Start, Connect, Shutdown, Poll, WaitForPowerOff, TimeOut,
         CleanupRun, CleanupVM, CleanupSwitch, host
<1>2. created' \subseteq created \/ (created' = created \cup {b} /\ pc[b] = "new_switch")
  BY DEF Moves, Proceed, Halt, LookForSwitch, NewSwitch, CheckVMName, NameUnchecked,
         CreateVM, Start, Connect, Shutdown, Poll, WaitForPowerOff, TimeOut, CleanupRun,
         CleanupVM, CleanupSwitch, Goes
<1>3. pc'[b] = "new_switch" => setup.switchName[b] \notin found
  BY DEF Moves, Proceed, Halt, LookForSwitch, NewSwitch, CheckVMName, NameUnchecked,
         CreateVM, Start, Connect, Shutdown, Poll, WaitForPowerOff, TimeOut, CleanupRun,
         CleanupVM, CleanupSwitch, Goes, TypeOK, SwitchThere, CleanupFrom
<1> QED BY <1>e, <1>1, <1>2, <1>3 DEF FoundKept, Effects

\* b has just deleted the switches of the name of c's.
Deletes(b, c) ==
  b \in created /\ pc'[b] = "over" /\ setup.switchName[c] = setup.switchName[b]

\* What one step of a build may take from the switches and their users.
LEMMA SwitchEffect ==
  ASSUME TypeOK, NEW b \in Builds, Moves(b)
  PROVE  /\ created \subseteq created' /\ pc[b] # "over"
         /\ \A c \in wired \ wired' :
              \/ Deletes(b, c)
              \/ pc[b] = "unregister" /\ b \notin keep /\ c \in Namesakes(b)
         /\ \A c \in made \ made' : Deletes(b, c)
         /\ pc'[b] \in Acting \ {"create"} =>
              pc[b] \in Acting /\ (b \in wired => b \in wired') /\ made' = made
         /\ pc'[b] \in Acting \ {"create"} /\ pc[b] = "create" =>
              b \in wired' /\ SwitchThere(b)
<1> QED BY DEF Moves, Proceed, Halt, LookForSwitch, NewSwitch, CheckVMName, NameUnchecked,
         CreateVM, Start, Connect, Shutdown, Poll, WaitForPowerOff, TimeOut, CleanupRun,
         CleanupVM, CleanupSwitch, Goes, TypeOK, host, Acting, CleanupFrom, Deletes

LEMMA SwitchServesStep ==
  ASSUME SwitchInv, NEW b \in Builds, Moves(b), TypeOK'
  PROVE  SwitchServes'
<1>t. TypeOK /\ OneHolder /\ FoundKept /\ FoundKept'
  BY FoundKeptStep DEF SwitchInv, NameInv
<1>e. Effects(b)
  BY <1>t, StepType
<1> SUFFICES ASSUME NEW c \in Builds, Connected(c)'
             PROVE  (c \in wired' /\ SwitchThere(c)') \/ CutOff(c)'
  BY DEF SwitchServes, Connected
<1>1. ~Contested(c) /\ setup' = setup /\ found' = found /\ c \in Namesakes(c)
  BY <1>e, <1>t, ContestedStays DEF Effects, Connected, FoundKept, Namesakes, VM
<1>2. pc[c] \in Acting
  BY <1>e, <1>t, SwitchEffect DEF Effects, Connected
<1>3. CutOff(c) => CutOff(c)'
  <2>1. \A d \in Builds : pc[d] = "over" => pc'[d] = "over"
    BY <1>e, <1>t, SwitchEffect DEF Effects
  <2> QED BY <2>1, <1>1, <1>t, SwitchEffect DEF CutOff, TypeOK
<1>4. b # c /\ Deletes(b, c) => CutOff(c)'
  BY <1>1, <1>t, SwitchEffect DEF CutOff, Deletes, FoundKept
<1>5. CASE c = b
  <2>1. CASE pc[b] = "create"
    <3>1. c \in wired' /\ SwitchThere(c) /\ made' = made
      BY <2>1, <1>5, <1>t, SwitchEffect DEF Connected
    <3> QED BY <1>1, <3>1 DEF SwitchThere
  <2>2. CASE pc[b] # "create"
    <3>1. made' = made /\ (c \in wired => c \in wired')
      BY <2>2, <1>5, <1>t, SwitchEffect DEF Connected
    <3>2. (c \in wired /\ SwitchThere(c)) \/ CutOff(c)
      BY <2>2, <1>1, <1>2, <1>5 DEF SwitchInv, SwitchServes
    <3> QED BY <1>1, <1>3, <3>1, <3>2 DEF SwitchThere
  <2> QED BY <2>1, <2>2
<1>6. CASE c # b
  <2>1. (c \in wired /\ SwitchThere(c)) \/ CutOff(c)
    BY <1>1, <1>6, <1>e DEF Effects, Connected, SwitchInv, SwitchServes
  <2>2. ~Holds(b) \/ c \notin Namesakes(b)
    BY <1>1, <1>2, <1>6, <1>t DEF OneHolder, Holds, Namesakes, VM
  <2>3. c \in wired /\ c \notin wired' => Deletes(b, c)
    BY <2>2, <1>t, SwitchEffect DEF Holds
  <2>4. SwitchThere(c) /\ ~SwitchThere(c)' => Deletes(b, c)
    <3>1. SUFFICES ASSUME SwitchThere(c), ~Deletes(b, c) PROVE SwitchThere(c)'
      OBVIOUS
    <3>2. \A d \in made : setup.switchName[d] = setup.switchName[c] => d \in made'
      BY <3>1, <1>t, SwitchEffect DEF Deletes
    <3> QED BY <3>1, <3>2, <1>1 DEF SwitchThere
  <2> QED BY <2>1, <2>3, <2>4, <1>3, <1>4, <1>6
<1> QED BY <1>5, <1>6

(***************************************************************************)
(* SwitchesServe: a build is connected to its switch from the creation of  *)
(* its virtual machine to its cleanup, whatever the others do, until one   *)
(* made a switch of that name cleans up.                                   *)
(***************************************************************************)
THEOREM SwitchesServe == Spec => []SwitchServes
<1>1. Init => SwitchInv
  BY NameInit DEF Init, SwitchInv, FoundKept, SwitchServes, Acting
<1>2. SwitchInv /\ [Next]_vars => SwitchInv'
  <2> SUFFICES ASSUME SwitchInv, [Next]_vars PROVE SwitchInv'
    OBVIOUS
  <2>0. NameInv'
    BY NameStep DEF SwitchInv
  <2>1. ASSUME NEW b \in Builds, Moves(b) PROVE SwitchInv'
    BY <2>0, <2>1, FoundKeptStep, SwitchServesStep DEF SwitchInv, NameInv
  <2>2. ASSUME NEW v \in VM, GuestHalts(v) PROVE SwitchInv'
    BY <2>0, <2>2, GuestType DEF SwitchInv, NameInv, FoundKept, SwitchServes, SwitchThere,
       CutOff, Contested, Namesakes, builds
  <2>3. CASE UNCHANGED vars
    BY <2>0, <2>3 DEF vars, builds, host, SwitchInv, FoundKept, SwitchServes, SwitchThere,
       CutOff, Contested, Namesakes
  <2> QED BY <2>1, <2>2, <2>3 DEF Next, Terminated, Moves
<1>3. SwitchInv => SwitchServes
  BY DEF SwitchInv
<1> QED BY <1>1, <1>2, <1>3, PTL DEF Spec
=============================================================================
