-------------------------- MODULE MCDetectorSession --------------------------
(***************************************************************************)
(* Instances of DetectorSession for TLC.  The calls are those of the demo: *)
(* a system call through its own stub, one through raw code, one through   *)
(* the syscall instruction of another stub.                                *)
(***************************************************************************)
EXTENDS DetectorSession, TLC

CONSTANTS stub, raw, gadget

AllCalls == {stub, raw, gadget}
Number == (stub :> 1) @@ (raw :> 2) @@ (gadget :> 2)
Owner == (stub :> 1) @@ (raw :> 0) @@ (gadget :> 1)
Known == {1, 2}

OneOrTwo == {<<>>, <<raw>>, <<stub, gadget>>}
Single == {<<raw>>}
Pair == {<<stub, raw>>}
Short == {<<>>, <<stub, gadget>>}
Exit == <<stub>>
NoCalls == <<>>
OneCall == <<stub>>
=============================================================================
