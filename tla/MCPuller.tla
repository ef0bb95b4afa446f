------------------------------ MODULE MCPuller ------------------------------
(* Instances of Puller for TLC: values for its constants.                   *)
EXTENDS Puller, TLC

(* For the run without liveness.                                            *)
MCSymmetry == Permutations(Devices) \cup Permutations(Frames \ Unpackable)

MCIntervals == {-1, 0}
MCNextPolls == {-1, 7}

MCLimit     == [k \in Kinds |-> IF k = "set" THEN 2 ELSE 1]
MCLiveLimit == [k \in Kinds |-> CASE k = "set"  -> 2
                                  [] k = "push" -> 0
                                  [] OTHER      -> 1]
MCSkipLimit == [k \in Kinds |-> CASE k = "change" -> 2
                                  [] k = "push"   -> 0
                                  [] OTHER        -> 1]
=============================================================================
