---------------------------- MODULE MCCardOffers ----------------------------
(* Model checking CardOffers: volumes, goroutines and bounds are in the     *)
(* .cfg file.                                                               *)
EXTENDS CardOffers
=============================================================================
