-------------------------- MODULE EntityLifecycle --------------------------
(***************************************************************************)
(* What a program that builds and tears down micro-ROS entities promises    *)
(* the rcl and rclc libraries: it builds from nothing, an entity is made    *)
(* only while the entities it belongs to are there, none is given up while  *)
(* another still belongs to it, the program runs only on a complete set,    *)
(* and a new build starts only after everything was given back.             *)
(***************************************************************************)
CONSTANTS
    Entities,       \* the rcl and rclc objects of a program
    Owner           \* Owner[e]: the entities e belongs to

VARIABLES
    phase,          \* "released", "building", "live", "releasing"
    held            \* the entities that are initialised

vars == <<phase, held>>

Init == phase = "released" /\ held = {}

Begin ==
    /\ phase = "released" /\ held = {}
    /\ phase' = "building" /\ UNCHANGED held

Make(e) ==
    /\ phase = "building"
    /\ e \notin held /\ Owner[e] \subseteq held
    /\ held' = held \cup {e} /\ UNCHANGED phase

Complete ==
    /\ phase = "building" /\ held = Entities
    /\ phase' = "live" /\ UNCHANGED held

GiveUp ==
    /\ phase \in {"building", "live"}
    /\ phase' = "releasing" /\ UNCHANGED held

Free(e) ==
    /\ phase = "releasing"
    /\ e \in held
    /\ \A f \in held : e \notin Owner[f]
    /\ held' = held \ {e} /\ UNCHANGED phase

\* The last entity is freed and the release ends in the same step.
Released ==
    /\ phase = "releasing"
    /\ \E e \in Entities : held \subseteq {e}
    /\ phase' = "released" /\ held' = {}

Next ==
    \/ Begin \/ Complete \/ GiveUp \/ Released
    \/ \E e \in Entities : Make(e) \/ Free(e)

Spec == Init /\ [][Next]_vars
=============================================================================
