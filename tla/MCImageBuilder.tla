--------------------------- MODULE MCImageBuilder ---------------------------
(* Every setting of mode and gzip. *)
EXTENDS ImageBuilder
MCConfs  == [mode : {"oci", "docker"}, gzip : BOOLEAN]
MCLayers == Tree \cup {None}
=============================================================================
