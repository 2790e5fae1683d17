--------------------------- MODULE MCExpertStream ---------------------------
(* Instances of ExpertStream for TLC; each .cfg picks one. *)
EXTENDS ExpertStream
Off == {FALSE}
On == {TRUE}
Both == {TRUE, FALSE}
None == {}
SpecFaults == {"spec_read", "spec_commit"}
AsyncFaults == {"read", "commit", "cancel"}
ReadFault == {"read"}
ReadAndSpec == {"read", "spec_read", "spec_commit"}
SpecReadFault == {"spec_read"}
Cancelled == {"cancel"}
One == {1}
Two == {2}
OneOrTwo == {1, 2}
=============================================================================
