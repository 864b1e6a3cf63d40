---------------------------- MODULE MCSharedHost ----------------------------
(***************************************************************************)
(* Two builds and a virtual machine that was there, sharing names or not.  *)
(***************************************************************************)
EXTENDS SharedHost

CONSTANTS b1, b2, other, vmA, vmB, swA, swB

TwoBuilds == {b1, b2}
OtherVMs == {other}
TwoNames == {vmA, vmB}
TwoSwitches == {swA, swB}

Named(n1, n2, n3) == [v \in VM |-> IF v = b1 THEN n1 ELSE IF v = b2 THEN n2 ELSE n3]
Kinds(k1, k2) == [b \in Builds |-> IF b = b1 THEN k1 ELSE k2]

\* Two iso builds of one name and one switch.
Base ==
  [kind |-> Kinds("iso", "iso"), vmName |-> Named(vmA, vmA, vmB),
   switchName |-> Kinds(swA, swA), shutdown |-> Kinds("stop", "command"),
   keepRegistered |-> {}, otherSwitches |-> {}]

\* Every sharing of the names by builds of both kinds.
Sharing ==
  {[Base EXCEPT !.kind = k, !.vmName = n] :
     k \in {Kinds("iso", "iso"), Kinds("iso", "vmcx"), Kinds("vmcx", "vmcx")},
     n \in {Named(vmA, vmA, vmB), Named(vmA, vmB, vmA), Named(vmA, vmB, vmB)}}

\* A switch that was there, one each, and a virtual machine that is kept.
AnySetup ==
  Sharing \cup
  {[Base EXCEPT !.otherSwitches = {swA}, !.keepRegistered = {b1}],
   [Base EXCEPT !.switchName = Kinds(swA, swB), !.otherSwitches = {swB},
                !.vmName = Named(vmA, vmB, vmB)],
   [Base EXCEPT !.vmName = Named(vmA, vmB, vmA), !.keepRegistered = {b2}]}
=============================================================================
