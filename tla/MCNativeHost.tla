---------------------------- MODULE MCNativeHost ----------------------------
(* Instances of NativeHost for TLC: the bounds are in the configurations. *)
EXTENDS NativeHost
=============================================================================
