-------------------------- MODULE MCNativeRefresh --------------------------
(* Instances of NativeRefresh for TLC, with two providers. *)
EXTENDS NativeRefresh

CONSTANTS a, b
============================================================================
