--------------------------- MODULE MCConsolidation ---------------------------
(***************************************************************************)
(* Two histories of consolidation: a session with two observations, and    *)
(* two sessions with one each, more than the timer's run may take.         *)
(***************************************************************************)
EXTENDS Consolidation

VARIABLE scene

MCSessionOf == [o \in Src |-> IF o = 3 THEN "s2" ELSE "s1"]
MCJobLimit == [w \in Worker |-> IF w = "timer" THEN 1 ELSE 2]

MCConsInit == scene \in {"one session", "two sessions"} /\ ConsInit

MCConsNext ==
    /\ UNCHANGED scene
    /\ ConsNext
    /\ arrived' \subseteq (IF scene = "one session" THEN {1, 2} ELSE {1, 3})

MCConsSpec == MCConsInit /\ [][MCConsNext]_<<scene, consVars>> /\ ConsFairness
==============================================================================
