------------------------------- MODULE MCFleet -------------------------------
(* Instances of Fleet for TLC.                                             *)
EXTENDS Fleet

Post(build, py, plat, mode) == [build |-> build, py |-> py, plat |-> plat, auto |-> mode]

(* Sizes that are missing, negative and too wide for 4 bits (8 becomes -8),
   and a version that only the worker would take.                          *)
MCPosted ==
    {Post(7, "3.9", "linux_s390x", "on"),
     Post(-1, "3.12", "", "off"),
     Post(0, "3.x", "", "on"),
     Post(8, "", "", "unset")}
MCEnv == [build |-> 1, py |-> "3.10", plat |-> "manylinux2014_s390x"]
MCGoodPy == {"3.9", "3.10", "3.11", "3.12"}
MCLoosePy == MCGoodPy \cup {"3.x"}
MCCleanTag == {"linux_s390x", "manylinux2014_s390x"}
=============================================================================
