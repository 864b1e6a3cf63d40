---------------------------- MODULE MCPowerDown ----------------------------
(***************************************************************************)
(* Small sets of builds for PowerDown: each way of shutting down, with a   *)
(* prompt and a slow guest and with failing calls, without much media.     *)
(***************************************************************************)
EXTENDS PowerDown, MCHypervBuild

Bare == [Gen1 EXCEPT !.floppy = FALSE, !.guestAdditions = FALSE, !.secondary = <<>>]
Ways(c) == {[c EXCEPT !.shutdown = w] : w \in {"command", "stop", "disabled"}}
KeptToo(S) == S \cup {[c EXCEPT !.keepRegistered = TRUE] : c \in S}

\* Each way to shut down, with the VM kept or not, under faults of every kind
\* and under those that leave a build able to end.
Endings ==
  LET S == KeptToo(Ways(Bare))
  IN UNION {Under(F, S) : F \in {{}, {"slow"}, {"cleanup"}, {"late", "slow"}, {"fail", "late"},
                                 {"fail", "late", "pause", "slow", "cleanup"}}}
     \cup Under({"late"}, {Taken(Clone(c)) : c \in Ways(Bare)})

\* The guest is paused while it is expected to shut itself down, or it is slow
\* and a poll fails.
Waiting ==
  LET c == [Bare EXCEPT !.shutdown = "disabled"]
  IN Under({"pause", "slow"}, {c}) \cup Under({"fail", "slow"}, {c})
=============================================================================
