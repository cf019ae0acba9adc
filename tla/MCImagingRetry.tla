--------------------------- MODULE MCImagingRetry ---------------------------
(* ImagingRetry on small instances; the values are in the cfg files.         *)
EXTENDS ImagingRetry
=============================================================================
