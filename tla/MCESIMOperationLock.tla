------------------------ MODULE MCESIMOperationLock ------------------------
(* Two operations that end close together, with model values for the       *)
(* goroutines and for the channels of opDone.                              *)
EXTENDS ESIMOperationLock
=============================================================================
