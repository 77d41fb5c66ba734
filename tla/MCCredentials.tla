--------------------------- MODULE MCCredentials ---------------------------
(* Credentials: a rotation alone, two saves that meet, a save among        *)
(* mishaps, and a save during a rotation.                                  *)
EXTENDS Credentials

MCBudgets ==
    { [rotations |-> 1, cancels |-> 1, saves |-> 0, mishaps |-> 2],
      [rotations |-> 0, cancels |-> 0, saves |-> 2, mishaps |-> 0],
      [rotations |-> 0, cancels |-> 0, saves |-> 1, mishaps |-> 2],
      [rotations |-> 1, cancels |-> 0, saves |-> 1, mishaps |-> 0] }

\* A second rotation while the first may still be on its way to the file.
TwoRotations == { [rotations |-> 2, cancels |-> 0, saves |-> 1, mishaps |-> 0] }
=============================================================================
