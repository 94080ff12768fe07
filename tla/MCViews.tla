------------------------------ MODULE MCViews ------------------------------
(* What the pages are shown, for TLC: the comparison of manifests and the    *)
(* history of a file, the structured views, the library with its status      *)
(* batches, and the landing of chunks.  None reads another one's state, so a *)
(* behaviour is one of one machine, chosen at the start: TLC visits the sum  *)
(* of their state spaces and not the product.                                *)
EXTENDS MCCompare, MCStructured, MCPages

VARIABLE machine

NoRequest == CHOOSE q \in CompareRequests : q.route = "diff"

Init ==
    /\ machine \in {"compare", "structured", "library", "landing"}
    /\ CompareInit(IF machine = "compare" THEN CompareRequests ELSE {NoRequest})
    /\ StructuredInit(IF machine = "structured" THEN Batches ELSE {Alone(Nobody)})
    /\ LibraryInit
    /\ LandingInit

Next ==
    /\ UNCHANGED machine
    /\ \/ /\ machine = "compare" /\ CompareNext
          /\ UNCHANGED <<structuredVars, libraryVars, landingVars>>
       \/ /\ machine = "structured" /\ StructuredNext
          /\ UNCHANGED <<allVars, libraryVars, landingVars>>
       \/ /\ machine = "library" /\ LibraryNext
          /\ UNCHANGED <<allVars, structuredVars, landingVars>>
       \/ /\ machine = "landing" /\ LandingNext
          /\ UNCHANGED <<allVars, structuredVars, libraryVars>>

Spec == Init /\ [][Next]_<<machine, allVars, structuredVars, libraryVars, landingVars>>
=============================================================================
