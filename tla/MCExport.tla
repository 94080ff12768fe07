------------------------------ MODULE MCExport ------------------------------
EXTENDS Export, TLC

CONSTANTS empty, big

\* An empty file and one that takes more than a window.
Sizes == empty :> 0 @@ big :> 3
=============================================================================
