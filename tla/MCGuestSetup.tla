---------------------------- MODULE MCGuestSetup ----------------------------
(***************************************************************************)
(* Families of templates: one for each group of settings that meet.        *)
(***************************************************************************)
EXTENDS GuestSetup

Iso1 ==
  [builder |-> "iso", generation |-> 1,
   source |-> [generation |-> 1, disk |-> 1024, ide |-> 0, scsi |-> 0,
               legacyAdapter |-> FALSE, dynamicMemory |-> FALSE, macSpoofing |-> FALSE,
               tpm |-> FALSE, virtExt |-> FALSE, mac |-> FALSE, vlan |-> ""],
   media |-> "iso", memory |-> 0, diskSize |-> 0, blockSize |-> 0, additional |-> <<>>,
   fixedVHD |-> FALSE, differencing |-> FALSE, skipCompaction |-> FALSE,
   legacyAdapter |-> FALSE, dynamicMemory |-> FALSE, macSpoofing |-> FALSE,
   secureBoot |-> FALSE, tpm |-> FALSE, virtExt |-> FALSE, mac |-> FALSE,
   vlan |-> "", switchVlan |-> "", firstBoot |-> "", bootOrder |-> FALSE,
   floppy |-> FALSE, guestAdditions |-> FALSE, secondary |-> 0, cd |-> FALSE]
Iso2 == [Iso1 EXCEPT !.generation = 2]
Clone1 == [Iso1 EXCEPT !.builder = "vmcx"]
Clone2 == [Clone1 EXCEPT !.generation = 2, !.source.generation = 2,
                         !.source.dynamicMemory = TRUE, !.source.macSpoofing = TRUE]
\* The template does not say of which generation the clone is, or says it wrong.
Unsaid == [Clone2 EXCEPT !.generation = 0]
Wrong == [Clone1 EXCEPT !.generation = 2]
Bases == {Iso1, Iso2, Clone1, Clone2, Unsaid, Wrong}

Sizes ==
  {[b EXCEPT !.memory = m, !.diskSize = d, !.additional = a, !.skipCompaction = TRUE,
             !.fixedVHD = (h = "fixed"), !.media = IF h = "vhd" THEN h ELSE "iso"] :
     b \in Bases \cup {[Iso1 EXCEPT !.generation = 3]},
     m \in {31, 4100, 5000, 1024 * 1024 + 1}, d \in {0, 255, 2040 * 1024 + 1},
     a \in {<<>>, <<2048, 5000>>, <<4097>>, <<0>>}, h \in {"iso", "fixed", "vhd"}}
Adapter ==
  {[b EXCEPT !.legacyAdapter = l, !.macSpoofing = (l = m), !.mac = m, !.vlan = v,
             !.switchVlan = w] :
     b \in Bases, l, m \in BOOLEAN, v \in {"", "10"}, w \in Vlan}
Nested ==
  {[b EXCEPT !.virtExt = TRUE, !.dynamicMemory = d, !.macSpoofing = s, !.memory = m,
             !.secureBoot = e, !.tpm = ~e] :
     b \in Bases, d, s, e \in BOOLEAN, m \in {2048, 4096}}
Booting ==
  {[b EXCEPT !.firstBoot = f, !.bootOrder = o, !.media = m, !.additional = a] :
     b \in Bases, f \in {"", "IDE", "CD", "NET", "FLOPPY", "IDE:0:0", "SCSI:0:1"},
     o \in BOOLEAN, m \in {"none", "iso", "vhd"}, a \in {<<>>, <<2048>>}}
Crowded ==
  {[b EXCEPT !.additional = [i \in 1 .. n |-> 2048], !.guestAdditions = g,
             !.secondary = s, !.cd = g, !.floppy = (s = 3)] :
     b \in {Iso1, Iso2, Clone2}, n \in {0, 61, 64, 65}, g \in BOOLEAN, s \in {0, 2, 3, 17}}

\* What a clone has from its source, and what the template asks for beside it.
Sources ==
  {[b EXCEPT !.source.legacyAdapter = (b = Clone1) /\ l, !.source.mac = m,
             !.source.vlan = v, !.source.virtExt = l, !.source.tpm = l,
             !.mac = a, !.virtExt = a, !.tpm = a, !.vlan = w, !.switchVlan = w] :
     b \in {Clone1, Clone2}, l, m, a \in BOOLEAN, v \in Vlan, w \in {"", "10"}}
SourceDisks ==
  {[b EXCEPT !.source.ide = IF b = Clone1 THEN d ELSE 0, !.source.scsi = n,
             !.additional = [i \in 1 .. k |-> 2048], !.secondary = s, !.bootOrder = (b = Clone2)] :
     b \in {Clone1, Clone2}, d \in {0, 1, 3}, n \in {0, 1, 62}, k \in {0, 1, 3}, s \in {0, 2}}

SomeRequests ==
  Sizes \cup Adapter \cup Nested \cup Booting \cup Crowded \cup Sources \cup SourceDisks

\* For the run that looks for a disagreement: an iso build's templates.
VlanRequests == {c \in Adapter : c.builder = "iso"}
=============================================================================
