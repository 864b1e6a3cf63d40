--------------------------- MODULE MCHypervBuild ---------------------------
(***************************************************************************)
(* Small sets of builds for TLC: configurations that between them take     *)
(* every branch of every step, with the faults each question calls for.    *)
(***************************************************************************)
EXTENDS HypervBuild

AnyFault == {"fail", "late", "pause", "slow", "cleanup"}

\* A generation 1 build that uses every kind of removable medium.
Gen1 ==
  [builder |-> "iso", generation |-> 1, media |-> "iso", floppy |-> TRUE,
   guestAdditions |-> TRUE, cd |-> FALSE, secondary |-> <<"sec1">>,
   shutdown |-> "stop", keepRegistered |-> FALSE, skipExport |-> FALSE,
   skipCompaction |-> FALSE, wsl |-> FALSE, byName |-> FALSE, nameTaken |-> FALSE,
   switchExists |-> FALSE, faults |-> {}]
Gen2 == [Gen1 EXCEPT !.generation = 2, !.floppy = FALSE, !.cd = TRUE,
                     !.secondary = <<"sec1", "sec2">>, !.shutdown = "command"]
Wsl == [Gen1 EXCEPT !.wsl = TRUE, !.floppy = FALSE, !.guestAdditions = FALSE,
                    !.shutdown = "disabled"]
HardDisk == [Gen1 EXCEPT !.media = "vhd", !.skipCompaction = TRUE]
Clone(c) == [c EXCEPT !.builder = "vmcx"]
WslClone(named) == [Clone(Wsl) EXCEPT !.byName = named]
CloneBare == [Clone(Gen1) EXCEPT !.media = "none", !.guestAdditions = FALSE,
                                 !.secondary = <<>>, !.floppy = FALSE]

Keeping(c) == {[c EXCEPT !.keepRegistered = k, !.skipExport = e] : k, e \in BOOLEAN}
Under(faults, S) == {[c EXCEPT !.faults = faults] : c \in S}
Taken(c) == [c EXCEPT !.nameTaken = TRUE]
OnSwitch(c) == [c EXCEPT !.switchExists = TRUE]

\* Everything may fail, with the name free or taken, the switch there or not.
Rough ==
  Under(AnyFault, Keeping(Gen1) \cup Keeping(Clone(Gen2))
                  \cup {Taken(Gen1), Taken(OnSwitch(Clone(Gen1))), OnSwitch(Gen1),
                        Wsl, Taken(Wsl), HardDisk})
\* Driver calls of the steps fail cleanly, and the cleanup's work.
CleanFailures == Under({"fail"}, Keeping(Gen1) \cup Keeping(Clone(Gen1)) \cup {Wsl})
                 \cup Under({"fail", "miss"}, {Taken(Gen1)})
                 \cup Under({"fail", "print"}, {Gen1, WslClone(TRUE)})
\* Nothing fails.
FaultFree == UNION {Keeping(c) : c \in {Gen1, Gen2, HardDisk, Clone(Gen2), CloneBare}}
             \cup {Wsl, WslClone(FALSE), OnSwitch(Gen2), [Gen1 EXCEPT !.cd = TRUE]}

Builds == Rough \cup CleanFailures \cup FaultFree

\* The builds the findings are about.
Clones == UNION {Under(f, Keeping(Clone(c))) : f \in {{}, {"fail"}}, c \in {Gen1, Gen2}}
Kept == Keeping(Gen1)
\* The check of a name that is taken fails, or is not reached.
NameUnchecked == Under({"miss"}, {Taken(Gen1)}) \cup Under({"fail"}, {Taken(Wsl)})
WslSkipExport == Keeping(Wsl)
=============================================================================
