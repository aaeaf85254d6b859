------------------------------ MODULE MCExport ------------------------------
(* Export on the programs of MCHart.                                       *)
EXTENDS Export, MCHart
=============================================================================
