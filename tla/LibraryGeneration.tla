------------------------- MODULE LibraryGeneration -------------------------
(***************************************************************************)
(* extras/library_generation/library_generation.sh, which fills src/ with   *)
(* the headers of the micro-ROS packages and one libmicroros.a for each     *)
(* platform.  The script runs again and again over the same checkout, for   *)
(* all platforms or for those named by -p.  It has no set -e: a build, a    *)
(* copy, a link, an installation or a list that fails is passed over and    *)
(* the next step runs; removals, made by root, do not fail.  It can be      *)
(* killed between any two steps.  Every run starts from a new container,    *)
(* where firmware/ is empty and rsync is not installed.                     *)
(***************************************************************************)
EXTENDS Naturals, Sequences, FiniteSets

CONSTANTS
    Requests,   \* the sets of platforms -p may name; {} is a run without -p
    Packages,   \* the ROS 2 packages whose headers a build nests
    MaxRuns     \* bound: the runs of the script

ASSUME RunsAssumption ==
    MaxRuns \in Nat /\ IsFiniteSet(Requests) /\ IsFiniteSet(Packages)

\* The blocks of the script in their order, and the .meta file of each.
Blocks == <<
    [name |-> "opencr1",     meta |-> "colcon"],
    [name |-> "cortex_m0",   meta |-> "colcon_verylowmem"],
    [name |-> "cortex_m3",   meta |-> "colcon_lowmem"],
    [name |-> "cortex_m4",   meta |-> "colcon_lowmem"],
    [name |-> "teensy32",    meta |-> "colcon_lowmem"],
    [name |-> "teensy35",    meta |-> "colcon_lowmem"],
    [name |-> "teensy36",    meta |-> "colcon_lowmem"],
    [name |-> "teensy4",     meta |-> "colcon"],
    [name |-> "portenta-m7", meta |-> "colcon"],
    [name |-> "kakutef7-m7", meta |-> "colcon"],
    [name |-> "esp32",       meta |-> "colcon"],
    [name |-> "esp32s3",     meta |-> "colcon"] >>

\* Mutated: the block that reuses the build of Teensy 3.5 comes before it.
Order_teensy36_first ==
    <<1, 2, 3, 4, 5, 7, 6, 8, 9, 10, 11, 12>>

\* The order the blocks run in.
Order == [i \in 1..Len(Blocks) |-> i]

Platforms == {Blocks[i].name : i \in 1..Len(Blocks)}
DefaultPlatforms == Platforms \ {"esp32s3"}

Absent == 0     \* no headers, no library, no lists
Last == Len(Blocks)

VARIABLES
    pc,         \* "none": no run; the step of the script that is next
    block,      \* which block, while pc is "block"
    gen,        \* the number of the latest run
    asked,      \* PLATFORMS
    build,      \* firmware/build: the headers and the library in it
    headers,    \* for each package, the runs that the headers in
                \* src/<package>/<package>/ (nested), src/<package>/ (flat) are of
    INCLUDE_ROS2_PACKAGES,  \* those of its packages the loop has still to move
    libs,       \* for each platform, the run and the block its library is of
    types,      \* the run available_ros2_types and built_packages come from
    status,     \* "checkout", "running", "finished" or "killed"
    failed      \* the parts of the latest run with a step that failed (ghost)

vars == <<pc, block, gen, asked, build, headers, INCLUDE_ROS2_PACKAGES, libs,
          types, status, failed>>

NoLib == [gen |-> Absent, by |-> "none"]
NoBuild == [headers |-> Absent, lib |-> NoLib]
NoHeaders == [nested |-> Absent, flat |-> Absent]

\* The checkout: made by an earlier run, generation 1, for all platforms.  It
\* has no library for esp32, whose build then failed, and Teensy 3.6 has the
\* library of 3.5.
Init ==
    /\ pc = "none" /\ block = 1 /\ gen = 1 /\ asked = {} /\ build = NoBuild
    /\ headers = [k \in Packages |-> [nested |-> Absent, flat |-> 1]]
    /\ INCLUDE_ROS2_PACKAGES = {}
    /\ libs = [p \in Platforms |->
                 CASE p \in {"esp32", "esp32s3"} -> NoLib
                   [] p = "teensy36" -> [gen |-> 1, by |-> "teensy35"]
                   [] OTHER -> [gen |-> 1, by |-> p]]
    /\ types = 1 /\ status = "checkout" /\ failed = {}

\* The options are read and the workspace is made.
Start(req) ==
    /\ pc = "none" /\ gen <= MaxRuns
    /\ pc' = "clean" /\ gen' = gen + 1
    /\ asked' = IF req = {} THEN DefaultPlatforms ELSE req
    /\ build' = NoBuild /\ INCLUDE_ROS2_PACKAGES' = {}
    /\ status' = "running" /\ failed' = {}
    /\ UNCHANGED <<block, headers, libs, types>>

\* find /project/src/ ... -delete leaves no header of a package and no
\* library, asked for or not.
CleanSrc ==
    /\ pc = "clean" /\ pc' = "block" /\ block' = 1
    /\ headers' = [k \in Packages |-> NoHeaders]
    /\ libs' = [p \in Platforms |-> NoLib]
    /\ UNCHANGED <<gen, asked, build, INCLUDE_ROS2_PACKAGES, types, status, failed>>

\* Mutated: the former build stays.
Removed_kept == build

\* rm -rf firmware/build
Removed == NoBuild

\* build_firmware.sh makes nothing, the headers only, or all.  Of whatever is
\* in firmware/build afterwards, some or all is copied to src/.
Build(p) ==
    \E made \in {"nothing", "headers", "all"}, copied \in SUBSET Packages,
       installed \in BOOLEAN :
      LET now == [headers |-> IF made = "nothing" THEN Removed.headers ELSE gen,
                  lib |-> IF made = "all" THEN [gen |-> gen, by |-> p]
                          ELSE Removed.lib]
      IN  /\ build' = now
          /\ copied # {} => now.headers # Absent
          /\ installed => now.lib # NoLib
          /\ headers' = [k \in Packages |->
               IF k \in copied THEN [headers[k] EXCEPT !.nested = now.headers]
               ELSE headers[k]]
          /\ libs' = IF installed THEN [libs EXCEPT ![p] = now.lib] ELSE libs
          /\ failed' = IF made = "all" /\ copied = Packages /\ installed
                       THEN failed ELSE failed \cup {"build"}

\* ln .../mk64fx512/.../libmicroros.a .../mk66fx1m0/.../libmicroros.a
Reuse ==
    /\ build' = Removed
    /\ \E ok \in BOOLEAN :
         IF ok THEN /\ libs' = [libs EXCEPT !["teensy36"] = libs["teensy35"]]
                    /\ UNCHANGED failed
               ELSE failed' = failed \cup {"build"} /\ UNCHANGED libs
    /\ UNCHANGED headers

Block ==
    /\ pc = "block" /\ block \in 1..Last
    /\ block' = block + 1
    /\ pc' = IF block = Last THEN "list" ELSE "block"
    /\ LET p == Blocks[Order[block]].name
       IN  IF p \notin asked THEN UNCHANGED <<build, headers, libs, failed>>
           ELSE IF p = "teensy36" /\ "teensy35" \in asked THEN Reuse
           ELSE Build(p)
    /\ UNCHANGED <<gen, asked, INCLUDE_ROS2_PACKAGES, types, status>>

\* colcon list names the packages, or none; apt -y install rsync.
ListPackages ==
    /\ pc = "list" /\ pc' = "rsync"
    /\ \E ok \in BOOLEAN :
         /\ INCLUDE_ROS2_PACKAGES' = IF ok THEN Packages ELSE {}
         /\ failed' = IF ok THEN failed ELSE failed \cup {"includes"}
    /\ UNCHANGED <<block, gen, asked, build, headers, libs, types, status>>

\* The package the loop is at.
var == CHOOSE k \in INCLUDE_ROS2_PACKAGES : TRUE

\* rsync -r src/<package>/<package>/* src/<package>/, which fails if rsync
\* could not be installed, or for reasons of its own, and says nothing.
Rsync ==
    /\ pc = "rsync" /\ INCLUDE_ROS2_PACKAGES # {}
    /\ pc' = "rm"
    /\ \E ok \in BOOLEAN :
         LET there == headers[var].nested # Absent
         IN  /\ headers' = IF ok /\ there
                           THEN [headers EXCEPT ![var].flat = headers[var].nested]
                           ELSE headers
             /\ failed' = IF there /\ ~ok THEN failed \cup {"includes"} ELSE failed
    /\ UNCHANGED <<block, gen, asked, build, INCLUDE_ROS2_PACKAGES, libs, types, status>>

\* rm -rf src/<package>/<package>/, whether or not its headers were moved.
Rm ==
    /\ pc = "rm" /\ pc' = "rsync"
    /\ headers' = [headers EXCEPT ![var].nested = Absent]
    /\ INCLUDE_ROS2_PACKAGES' = INCLUDE_ROS2_PACKAGES \ {var}
    /\ UNCHANGED <<block, gen, asked, build, libs, types, status, failed>>

FixIncludes == ListPackages \/ Rsync \/ Rm

\* Both lists are written over, perhaps by nothing.
ExtraFiles ==
    /\ pc = "rsync" /\ INCLUDE_ROS2_PACKAGES = {}
    /\ pc' = "none" /\ status' = "finished"
    /\ \E ok \in BOOLEAN :
         /\ types' = IF ok THEN gen ELSE Absent
         /\ failed' = IF ok THEN failed ELSE failed \cup {"lists"}
    /\ UNCHANGED <<block, gen, asked, build, headers, INCLUDE_ROS2_PACKAGES, libs>>

Killed ==
    /\ pc # "none"
    /\ pc' = "none" /\ status' = "killed"
    /\ UNCHANGED <<block, gen, asked, build, headers, INCLUDE_ROS2_PACKAGES, libs,
                   types, failed>>

Next ==
    \/ \E req \in Requests : Start(req)
    \/ CleanSrc \/ Block \/ FixIncludes \/ ExtraFiles \/ Killed

Spec == Init /\ [][Next]_vars

-----------------------------------------------------------------------------

\* Types: headers nest only from a build to the loop over the packages, and
\* what src/ has is never of a run to come.
TypeOK ==
    /\ pc \in {"none", "clean", "block", "list", "rsync", "rm"}
    /\ block \in 1..(Last + 1) /\ gen \in 1..(MaxRuns + 1)
    /\ headers \in [Packages -> [nested : 0..gen, flat : 0..gen]]
    /\ INCLUDE_ROS2_PACKAGES \subseteq Packages /\ types \in 0..gen
    /\ pc \in {"block", "list"} => \A k \in Packages : headers[k].flat = Absent
    /\ \A p \in Platforms : libs[p].by \in Platforms \cup {"none"}
    /\ status \in {"checkout", "running", "finished", "killed"}
    /\ failed \subseteq {"build", "includes", "lists"}

\* No library in src/ is of another run than any header beside it, and none
\* was built for another platform (Teensy 3.6 takes the one of 3.5), however
\* many steps fail and wherever a run is killed.
LibraryIsGenuine ==
    \A p \in Platforms : libs[p] # NoLib =>
      /\ \A k \in Packages :
           {headers[k].nested, headers[k].flat} \subseteq {Absent, libs[p].gen}
      /\ libs[p].by \in {p} \cup (IF p = "teensy36" THEN {"teensy35"} ELSE {})

\* A run whose builds all succeed leaves a library for every platform asked
\* for, Teensy 3.6 with or without 3.5, whatever else fails.  Headers need
\* more, since the loop over the packages removes those it could not move: if
\* the run built any library and neither a build nor that loop has failed,
\* every package has its headers of this run, in one place.
AskedIsBuilt ==
    status = "finished" /\ "build" \notin failed =>
      /\ \A p \in asked \cap Platforms : libs[p] # NoLib
      /\ "includes" \notin failed /\ asked \cap Platforms # {} =>
           \A k \in Packages : headers[k] = [nested |-> Absent, flat |-> gen]

\* The .meta file the README gives for the boards of each platform.
Documented ==
    [p \in Platforms |->
       CASE p \in {"cortex_m0", "cortex_m3"} -> "colcon_verylowmem"
         [] p \in {"teensy32", "teensy35", "teensy36"} -> "colcon_lowmem"
         [] OTHER -> "colcon"]

\* Every library a run installs is built with the .meta file the README's tables of boards
\* give for it.
LibraryAsDocumented ==
    \A p \in Platforms : libs[p] # NoLib /\ libs[p].gen > 1 =>
      \E i \in 1..Last : Blocks[i] = [name |-> libs[p].by, meta |-> Documented[p]]
=============================================================================
