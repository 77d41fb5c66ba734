----------------------------- MODULE MCTrayGate -----------------------------
(* TrayGate: three settings changes against a poll that finds two cards,   *)
(* or against an ingest the operator starts, two against both of these,    *)
(* and two against a card and a prune.                                     *)
EXTENDS TrayGate

MCBudgets ==
    { [changes |-> 3, cards |-> 2, manuals |-> 0, others |-> 0],
      [changes |-> 3, cards |-> 0, manuals |-> 1, others |-> 0],
      [changes |-> 2, cards |-> 2, manuals |-> 1, others |-> 0],
      [changes |-> 2, cards |-> 1, manuals |-> 0, others |-> 1] }
=============================================================================
