---------------------------- MODULE MCDeRtcChain ----------------------------
(***************************************************************************)
(* Small rooms for TLC: two or three proposals, one or two workers, and    *)
(* one fault of any kind.                                                  *)
(***************************************************************************)
EXTENDS DeRtcChain, TLC

=============================================================================
