---------------------------- MODULE MCCatalogueQueue ----------------------------
(* Two scans of an asset with two segments, both dispatched at a time.        *)
EXTENDS CatalogueQueue
=============================================================================
