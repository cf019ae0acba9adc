------------------------- MODULE MCPublishPipeline -------------------------
(* PublishPipeline on small instances; the values are in the cfg files.     *)
EXTENDS PublishPipeline
=============================================================================
