--------------------------- MODULE MCImageUpdate ----------------------------
(* A small instance of ImageUpdate.                                        *)
EXTENDS ImageUpdate

CONSTANTS g1, g2, b, r
=============================================================================
