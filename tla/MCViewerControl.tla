-------------------------- MODULE MCViewerControl --------------------------
(* Instances of ViewerControl for TLC. *)
EXTENDS ViewerControl

BothGranted == [d \in Device |-> TRUE]

\* A host that answers and grants everything; a second OK is a line it ignores.
MCHostLines == {Ok, AccessLine(BothGranted)}

=============================================================================
