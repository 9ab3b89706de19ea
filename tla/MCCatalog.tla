----------------------------- MODULE MCCatalog -----------------------------
(* An instance of CatalogSync for TLC, whose spec needs no bound.          *)
EXTENDS CatalogSync
=============================================================================
