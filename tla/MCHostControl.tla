--------------------------- MODULE MCHostControl ---------------------------
(* Instances of HostControl for TLC. *)
EXTENDS HostControl, TLC

BothGranted == [d \in Device |-> TRUE]

\* A viewer that says hello, grants itself everything, types, and leaves.
MCViewerLines == {Hello, Disconnect, AccessLine(BothGranted), InputLine("keyboard")}

\* A viewer that only connects, and a user of one button.
MCHelloOnly == {Hello}
MCOneButton == {"keyboard"}

MCSymmetry == Permutations(Conn)

=============================================================================
