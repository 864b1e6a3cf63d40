----------------------------- MODULE MCVmFiles -----------------------------
(***************************************************************************)
(* Every template there is, with every kind of source.                     *)
(***************************************************************************)
EXTENDS VmFiles

\* What says something about a source says nothing without it.
AllTemplates ==
  {t \in Template :
     /\ ~t.byName => ~t.snapshot /\ ~t.all
     /\ ~t.byName /\ ~t.byPath => ~t.snapshots
     /\ t.rebuilt => t.byPath /\ ~t.snapshots
     /\ t.snapshot => t.snapshots}
=============================================================================
