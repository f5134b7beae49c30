-------------------------- MODULE MCDeliveryWorker --------------------------
(* DeliveryWorker for TLC: the symmetric sets of workers and events. *)
EXTENDS DeliveryWorker, TLC

Symmetry == Permutations(Workers) \cup Permutations(Events)
=============================================================================
