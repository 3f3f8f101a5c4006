----------------------------- MODULE MCCatalogue -----------------------------
(* Small catalogues for TLC.                                               *)
EXTENDS Catalogue

CONSTANTS poi, guide, v1, v2, p1
=============================================================================
