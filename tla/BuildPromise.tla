---------------------------- MODULE BuildPromise ----------------------------
(***************************************************************************)
(* What any build promises Packer, whatever its steps are: it makes things *)
(* on the host, then only takes things of its own away again, and returns  *)
(* an artifact just in case nothing spoilt the build, with its image there *)
(* to the end.  HypervBuild implements it.                                 *)
(***************************************************************************)
CONSTANT Resource        \* what a build may make on the host

VARIABLES
  phase,      \* "making", "undoing" or "over"
  made,       \* what it has made and not taken away
  doomed,     \* something has gone wrong, or the user has interrupted
  image,      \* a complete image is in the output directory
  result      \* what the build returns

promise == <<phase, made, doomed, image, result>>

Init ==
  /\ phase = "making" /\ made = {} /\ doomed = FALSE /\ image = FALSE
  /\ result = "none"

\* What has gone wrong stays wrong.
Doom == doomed' \in BOOLEAN /\ (doomed => doomed')

Make ==
  /\ phase = "making" /\ phase' = "making"
  /\ made \subseteq made' /\ made' \subseteq Resource
  /\ Doom /\ image' \in BOOLEAN /\ result' = result

\* The last step made, or the one that went wrong.
Turn ==
  /\ phase = "making" /\ phase' = "undoing"
  /\ made \subseteq made' /\ made' \subseteq Resource
  /\ Doom /\ image' \in BOOLEAN /\ (image' \/ doomed')
  /\ result' \in {"none", "panic"} /\ (result' = "panic" => doomed')

Undo ==
  /\ phase = "undoing" /\ phase' = "undoing"
  /\ made' \subseteq made
  /\ Doom /\ image' \in BOOLEAN /\ (image' => image) /\ (image => image' \/ doomed)
  /\ result' = result

Return ==
  /\ phase = "undoing" /\ phase' = "over"
  /\ result' \in {"artifact", "error", "cancelled", "halted", "panic"}
  /\ result' = "artifact" <=> ~doomed
  /\ UNCHANGED <<made, doomed, image>>

Next == Make \/ Turn \/ Undo \/ Return

Spec == Init /\ [][Next]_promise
=============================================================================
