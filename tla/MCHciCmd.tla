------------------------------ MODULE MCHciCmd ------------------------------
(* Instances of HciCmd for TLC.                                            *)
EXTENDS HciCmd

(* Enough of the startup sequence to have a first command, one in the      *)
(* middle and the optional last one.                                       *)
MCStartup == <<"reset", "read_ver", "rand">>

NoFaults == [k \in Faults |-> 0]

(* What a working controller and a short pool of buffers can do.           *)
MCTolerated == [NoFaults EXCEPT !["lost"] = 1, !["refused"] = 1, !["hw"] = 1]

MCAnyFault == [NoFaults EXCEPT !["lost"] = 1, !["late"] = 1, !["garbage"] = 1, !["hw"] = 1]

MCLate == [NoFaults EXCEPT !["late"] = 1]
=============================================================================
