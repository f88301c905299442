----------------------------- MODULE MC_HookIo ------------------------------
(* Instances of HookIo for TLC.                                              *)
EXTENDS HookIo, TLC
=============================================================================
