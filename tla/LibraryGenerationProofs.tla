----------------------- MODULE LibraryGenerationProofs -----------------------
(***************************************************************************)
(* Proofs about LibraryGeneration for any requests, those that name unknown  *)
(* platforms too, and any number of runs.                                   *)
(***************************************************************************)
EXTENDS LibraryGeneration, TLAPS

Name(i) == Blocks[Order[i]].name

\* The platforms whose library may be installed for p.
BuiltFor(p) == {p} \cup (IF p = "teensy36" THEN {"teensy35"} ELSE {})

\* What src/ holds, libraries and headers, is of run g.
Of(g) ==
    /\ libs \in [Platforms -> {NoLib} \cup [gen : {g}, by : Platforms]]
    /\ headers \in [Packages -> [nested : {Absent, g}, flat : {Absent, g}]]

\* What src/ holds is of one run, which is the latest once that has cleaned.
Fresh ==
    /\ \E g \in 1..gen : Of(g)
    /\ pc \in {"block", "list", "rsync", "rm"} => Of(gen)
    /\ \A p \in Platforms : libs[p] # NoLib => libs[p].by \in BuiltFor(p)

\* Where the headers of a package are: as they were copied, between rsync and
\* rm, and as they should be in the end.
Nested == [nested |-> gen, flat |-> Absent]
Both == [nested |-> gen, flat |-> gen]
Flat == [nested |-> Absent, flat |-> gen]

\* Each platform asked for among the first n blocks has its library.
Made(n) == \A i \in 1..n : Name(i) \in asked => libs[Name(i)] # NoLib

\* If a platform was asked for among them, each package has its headers.
Copied(n) ==
    \A i \in 1..n : Name(i) \in asked => \A k \in Packages : headers[k] = Nested

\* How far the loop over the packages has come.
Moved ==
    /\ pc = "rsync" => \A k \in Packages :
         headers[k] = IF k \in INCLUDE_ROS2_PACKAGES THEN Nested ELSE Flat
    /\ pc = "rm" => \A k \in Packages :
         headers[k] = IF k = var THEN Both
                      ELSE IF k \in INCLUDE_ROS2_PACKAGES THEN Nested ELSE Flat
    /\ status = "finished" => \A k \in Packages : headers[k] = Flat

\* How far the run under way, or the one that finished, has come.
Progress ==
    /\ pc # "none" <=> status = "running"
    /\ pc = "block" => block \in 1..Last
    /\ pc = "rm" => INCLUDE_ROS2_PACKAGES # {}
    /\ "build" \notin failed =>
         /\ pc = "block" => Made(block - 1) /\ Copied(block - 1)
         /\ pc = "list" => Copied(Last)
         /\ pc \in {"list", "rsync", "rm"} \/ status = "finished" => Made(Last)
         /\ "includes" \notin failed /\ asked \cap Platforms # {} => Moved

Inv == TypeOK /\ Fresh /\ Progress

-----------------------------------------------------------------------------

\* The blocks, position by position.
LEMMA Names ==
    /\ Last = 12
    /\ Name(1) = "opencr1" /\ Name(2) = "cortex_m0" /\ Name(3) = "cortex_m3"
    /\ Name(4) = "cortex_m4" /\ Name(5) = "teensy32" /\ Name(6) = "teensy35"
    /\ Name(7) = "teensy36" /\ Name(8) = "teensy4" /\ Name(9) = "portenta-m7"
    /\ Name(10) = "kakutef7-m7" /\ Name(11) = "esp32" /\ Name(12) = "esp32s3"
  BY DEF Last, Name, Blocks, Order

\* Each platform has a block, each block a platform, and the block of Teensy
\* 3.6 comes after the one whose library it takes.
LEMMA BlockOrder ==
    /\ Last \in Nat
    /\ \A i \in 1..Last : Name(i) \in Platforms
    /\ \A p \in Platforms : \E i \in 1..Last : p = Name(i)
    /\ \A i \in 1..Last : Name(i) = "teensy36" =>
         \E j \in 1..(i - 1) : Name(j) = "teensy35"
    /\ "teensy35" \in Platforms /\ "teensy36" \in Platforms
<1>1. Len(Blocks) = 12 /\ Last = 12
  BY DEF Last, Blocks
<1>2. \A i \in 1..12 : Order[i] = i
  BY <1>1 DEF Order
<1>3. Platforms = {Name(i) : i \in 1..12}
  BY <1>1, <1>2 DEF Platforms, Name
<1>4. \A i \in 1..12 : Name(i) = "teensy36" => i = 7
  BY Names
<1> QED
  BY <1>1, <1>3, <1>4, Names

\* A library is not the absence of one: no run has the number 0.
LEMMA LibIsLib ==
    ASSUME NEW g \in Nat \ {0}, NEW p
    PROVE  [gen |-> g, by |-> p] # NoLib
  BY DEF NoLib, Absent

-----------------------------------------------------------------------------

\* The checkout is whole.
LEMMA InitInv == Init => Inv
<1> SUFFICES ASSUME Init PROVE Inv
  OBVIOUS
<1>1. Of(1) /\ gen = 1
  <2>1. [gen |-> 1, by |-> "teensy35"] \in [gen : {1}, by : Platforms]
    BY BlockOrder
  <2>2. libs \in [Platforms -> {NoLib} \cup [gen : {1}, by : Platforms]]
    BY <2>1 DEF Init
  <2> QED
    BY <2>2 DEF Init, Of
<1>2. Fresh
  <2>1. \A p \in Platforms : libs[p] # NoLib => libs[p].by \in BuiltFor(p)
    BY DEF Init, BuiltFor
  <2> QED
    BY <1>1, <2>1 DEF Init, Fresh
<1>3. TypeOK
  <2>1. \A p \in Platforms : libs[p].by \in Platforms \cup {"none"}
    BY <1>1 DEF Of, NoLib
  <2>2. headers \in [Packages -> [nested : 0..1, flat : 0..1]]
    BY <1>1 DEF Of, Absent
  <2> QED
    BY <1>1, <2>1, <2>2, BlockOrder, RunsAssumption DEF Init, TypeOK, Absent
<1>4. Progress
  BY DEF Init, Progress, Moved
<1> QED
  BY <1>2, <1>3, <1>4 DEF Inv

\* A library's record says who it is of.
LEMMA LibTypes ==
    ASSUME NEW g \in Nat, NEW f \in [Platforms -> {NoLib} \cup [gen : {g}, by : Platforms]]
    PROVE  \A p \in Platforms : f[p].by \in Platforms \cup {"none"}
  BY DEF NoLib

\* A run starts beside what the one before left.
LEMMA StartInv ==
    ASSUME Inv, NEW req \in Requests, Start(req)
    PROVE  Inv'
<1>1. /\ pc' = "clean" /\ gen \in Nat \ {0} /\ gen <= MaxRuns /\ gen' = gen + 1
      /\ status' = "running" /\ failed' = {} /\ INCLUDE_ROS2_PACKAGES' = {}
      /\ UNCHANGED <<block, headers, libs, types>>
  BY DEF Inv, TypeOK, Start
<1>2. TypeOK'
  <2>1. headers' \in [Packages -> [nested : 0..gen', flat : 0..gen']]
    BY <1>1 DEF Inv, TypeOK
  <2> QED
    BY <1>1, <2>1, RunsAssumption DEF Inv, TypeOK
<1>3. Fresh'
  BY <1>1 DEF Inv, Fresh, Of
<1>4. Progress'
  BY <1>1 DEF Progress, Moved
<1> QED
  BY <1>2, <1>3, <1>4 DEF Inv

\* Cleaning leaves nothing.
LEMMA CleanSrcInv ==
    ASSUME Inv, CleanSrc
    PROVE  Inv'
<1>1. /\ pc = "clean" /\ pc' = "block" /\ block' = 1
      /\ headers' = [k \in Packages |-> NoHeaders]
      /\ libs' = [p \in Platforms |-> NoLib]
      /\ UNCHANGED <<gen, asked, INCLUDE_ROS2_PACKAGES, types, status, failed>>
  BY DEF CleanSrc
<1>2. gen \in Nat \ {0}
  BY DEF Inv, TypeOK
<1>3. Of(gen)'
  BY <1>1 DEF Of, NoHeaders
<1>4. TypeOK'
  <2>1. headers' \in [Packages -> [nested : 0..gen', flat : 0..gen']]
    BY <1>1, <1>2 DEF NoHeaders, Absent
  <2>2. \A p \in Platforms : libs'[p].by = "none"
    BY <1>1 DEF NoLib
  <2>3. \A k \in Packages : headers'[k].flat = Absent
    BY <1>1 DEF NoHeaders
  <2> QED
    BY <1>1, <2>1, <2>2, <2>3, BlockOrder DEF Inv, TypeOK
<1>5. Fresh'
  BY <1>1, <1>2, <1>3 DEF Fresh
<1>6. Progress'
  <2>1. 1..Last # {} /\ 1 \in 1..Last
    BY Names
  <2>2. status' = "running"
    BY <1>1 DEF Inv, Progress
  <2>3. Made(block - 1)' /\ Copied(block - 1)'
    BY <1>1 DEF Made, Copied
  <2> QED
    BY <1>1, <2>1, <2>2, <2>3 DEF Progress, Moved
<1> QED
  BY <1>4, <1>5, <1>6 DEF Inv

-----------------------------------------------------------------------------

\* What a build makes is of this run and for this platform, and what was there
\* stays.
LEMMA BuildKeeps ==
    ASSUME Inv, pc = "block", NEW p \in Platforms, Build(p), gen' = gen
    PROVE  /\ Of(gen)'
           /\ libs'[p] # NoLib => libs'[p].by \in {p, libs[p].by}
           /\ \A q \in Platforms \ {p} : libs'[q] = libs[q]
           /\ libs[p] # NoLib => libs'[p] # NoLib
           /\ \A k \in Packages : headers'[k].flat = Absent
           /\ \A k \in Packages : headers[k] = Nested => headers'[k] = Nested'
           /\ failed' \in {failed, failed \cup {"build"}}
           /\ "build" \notin failed' =>
                libs'[p] # NoLib /\ \A k \in Packages : headers'[k] = Nested'
<1>1. PICK made \in {"nothing", "headers", "all"}, copied \in SUBSET Packages,
           installed \in BOOLEAN :
        LET now == [headers |-> IF made = "nothing" THEN Removed.headers ELSE gen,
                    lib |-> IF made = "all" THEN [gen |-> gen, by |-> p]
                            ELSE Removed.lib]
        IN  /\ build' = now
            /\ copied # {} => now.headers # Absent
            /\ installed => now.lib # NoLib
            /\ headers' = [k \in Packages |->
                 IF k \in copied THEN [headers[k] EXCEPT !.nested = now.headers]
                 ELSE headers[k]]
            /\ libs' = IF installed THEN [libs EXCEPT ![p] = now.lib] ELSE libs
            /\ failed' = IF made = "all" /\ copied = Packages /\ installed
                         THEN failed ELSE failed \cup {"build"}
  BY DEF Build
<1>0. Removed.headers = Absent /\ Removed.lib = NoLib
  BY DEF Removed, NoBuild
<1>2. gen \in Nat \ {0} /\ gen # Absent /\ Of(gen)
      /\ \A k \in Packages : headers[k].flat = Absent
  BY DEF Inv, TypeOK, Fresh, Absent
<1> DEFINE new == [gen |-> gen, by |-> p]
<1>3. new # NoLib /\ new \in [gen : {gen}, by : Platforms] /\ new.by = p
  BY <1>2, LibIsLib
<1>4. \A k \in copied : headers'[k] = [headers[k] EXCEPT !.nested = gen]
  BY <1>0, <1>1
<1>5. \A k \in Packages \ copied : headers'[k] = headers[k]
  BY <1>1
<1>6. \A k \in Packages : headers[k] \in [nested : {Absent, gen}, flat : {Absent, gen}]
  BY <1>2 DEF Of
<1>7. \A k \in copied : headers'[k] = Nested'
  BY <1>2, <1>4, <1>6 DEF Nested
<1>8. headers' \in [Packages -> [nested : {Absent, gen'}, flat : {Absent, gen'}]]
  <2>1. \A k \in Packages : headers'[k] \in [nested : {Absent, gen}, flat : {Absent, gen}]
    BY <1>5, <1>6, <1>7 DEF Nested
  <2>2. DOMAIN headers' = Packages /\ headers' = [k \in Packages |-> headers'[k]]
    BY <1>1
  <2> QED
    BY <2>1, <2>2
<1>9. installed => libs' = [libs EXCEPT ![p] = new]
  BY <1>0, <1>1
<1>10. ~installed => libs' = libs
  BY <1>1
<1> HIDE DEF new
<1>11. libs' \in [Platforms -> {NoLib} \cup [gen : {gen'}, by : Platforms]]
  BY <1>2, <1>3, <1>9, <1>10 DEF Of
<1>12. /\ \A q \in Platforms \ {p} : libs'[q] = libs[q]
       /\ installed => libs'[p] = new
       /\ ~installed => libs'[p] = libs[p]
  BY <1>2, <1>9, <1>10 DEF Of
<1>13. \A k \in Packages : headers'[k].flat = Absent
  BY <1>2, <1>5, <1>7 DEF Nested
<1>14. \A k \in Packages : headers[k] = Nested => headers'[k] = Nested'
  BY <1>5, <1>7 DEF Nested
<1>15. /\ failed' \in {failed, failed \cup {"build"}}
       /\ "build" \notin failed' => copied = Packages /\ installed
  BY <1>1
<1> QED
  BY <1>3, <1>7, <1>8, <1>11, <1>12, <1>13, <1>14, <1>15 DEF Of

\* Teensy 3.6 gets the library of Teensy 3.5, if that one was built.
LEMMA ReuseKeeps ==
    ASSUME Inv, pc = "block", Reuse, gen' = gen
    PROVE  /\ Of(gen)' /\ headers' = headers
           /\ \A q \in Platforms \ {"teensy36"} : libs'[q] = libs[q]
           /\ libs'["teensy36"] \in {libs["teensy36"], libs["teensy35"]}
           /\ failed' \in {failed, failed \cup {"build"}}
           /\ "build" \notin failed' => libs'["teensy36"] = libs["teensy35"]
<1>1. /\ headers' = headers
      /\ \/ libs' = [libs EXCEPT !["teensy36"] = libs["teensy35"]] /\ failed' = failed
         \/ libs' = libs /\ failed' = failed \cup {"build"}
  BY DEF Reuse
<1>2. Of(gen) /\ "teensy35" \in Platforms /\ "teensy36" \in Platforms
  BY BlockOrder DEF Inv, Fresh
<1>3. libs' \in [Platforms -> {NoLib} \cup [gen : {gen'}, by : Platforms]]
  BY <1>1, <1>2 DEF Of
<1>4. Of(gen)'
  BY <1>1, <1>2, <1>3 DEF Of
<1>5. /\ \A q \in Platforms \ {"teensy36"} : libs'[q] = libs[q]
      /\ libs'["teensy36"] \in {libs["teensy36"], libs["teensy35"]}
      /\ "build" \notin failed' => libs'["teensy36"] = libs["teensy35"]
  BY <1>1, <1>2 DEF Of
<1> QED
  BY <1>1, <1>4, <1>5

\* A block of the script.
LEMMA BlockInv ==
    ASSUME Inv, Block
    PROVE  Inv'
<1> DEFINE p == Name(block)
<1>1. /\ pc = "block" /\ block \in 1..Last /\ block' = block + 1 /\ p \in Platforms
      /\ pc' = IF block = Last THEN "list" ELSE "block"
      /\ UNCHANGED <<gen, asked, INCLUDE_ROS2_PACKAGES, types, status>>
  BY BlockOrder DEF Block
<1>2. \/ p \notin asked /\ UNCHANGED <<build, headers, libs, failed>>
      \/ p \in asked /\ p = "teensy36" /\ "teensy35" \in asked /\ Reuse
      \/ p \in asked /\ Build(p)
  BY DEF Block, Name
<1>3. /\ Of(gen) /\ gen \in Nat \ {0} /\ Last \in Nat /\ Last > 0
      /\ \A k \in Packages : headers[k].flat = Absent
  BY <1>1, BlockOrder DEF Inv, TypeOK, Fresh
<1> HIDE DEF p
<1>4. /\ Of(gen)' /\ failed' \in {failed, failed \cup {"build"}}
      /\ \A k \in Packages : headers'[k].flat = Absent
      /\ \A k \in Packages : headers[k] = Nested => headers'[k] = Nested'
  <2>1. CASE UNCHANGED <<build, headers, libs, failed>>
    BY <1>1, <1>3, <2>1 DEF Of, Nested
  <2>2. CASE Reuse
    BY <1>1, <1>3, <2>2, ReuseKeeps DEF Nested
  <2>3. CASE Build(p)
    BY <1>1, <2>3, BuildKeeps
  <2> QED
    BY <1>2, <2>1, <2>2, <2>3
<1>5. \A q \in Platforms : libs'[q] # NoLib => libs'[q].by \in BuiltFor(q)
  <2> SUFFICES ASSUME NEW q \in Platforms, libs'[q] # NoLib
               PROVE  libs'[q].by \in BuiltFor(q)
    OBVIOUS
  <2>0. \A r \in Platforms : libs[r] # NoLib => libs[r].by \in BuiltFor(r)
    BY DEF Inv, Fresh
  <2>1. CASE UNCHANGED <<build, headers, libs, failed>>
    BY <2>0, <2>1
  <2>2. CASE Reuse
    <3>1. libs'[q] = libs[q] \/ (q = "teensy36" /\ libs'[q] = libs["teensy35"])
      BY <1>1, <2>2, ReuseKeeps
    <3>2. libs["teensy35"] # NoLib => libs["teensy35"].by = "teensy35"
      BY <2>0, BlockOrder DEF BuiltFor
    <3> QED
      BY <2>0, <3>1, <3>2 DEF BuiltFor
  <2>3. CASE Build(p)
    <3>1. CASE q = p
      <4>1. libs'[q].by \in {q, libs[q].by}
        BY <1>1, <2>3, <3>1, BuildKeeps
      <4>2. libs'[q].by = libs[q].by => libs[q] # NoLib
        <5>1. libs'[q].by \in Platforms
          BY <1>4 DEF Of
        <5>2. "none" \notin Platforms
          BY BlockOrder, Names
        <5> QED
          BY <5>1, <5>2 DEF NoLib
      <4> QED
        BY <2>0, <4>1, <4>2 DEF BuiltFor
    <3>2. CASE q # p
      BY <1>1, <2>0, <2>3, <3>2, BuildKeeps
    <3> QED
      BY <3>1, <3>2
  <2> QED
    BY <1>2, <2>1, <2>2, <2>3
<1>6. "build" \notin failed' => \A i \in 1..block : Name(i) \in asked =>
        libs'[Name(i)] # NoLib /\ \A k \in Packages : headers'[k] = Nested'
  <2> SUFFICES ASSUME "build" \notin failed', NEW i \in 1..block, Name(i) \in asked
               PROVE  libs'[Name(i)] # NoLib /\ \A k \in Packages : headers'[k] = Nested'
    OBVIOUS
  <2>0. /\ "build" \notin failed /\ Made(block - 1) /\ Copied(block - 1)
        /\ i \in 1..Last /\ Name(i) \in Platforms
    BY <1>1, <1>4, BlockOrder DEF Inv, Progress
  <2>1. i # block => libs[Name(i)] # NoLib /\ \A k \in Packages : headers[k] = Nested
    BY <1>1, <2>0 DEF Made, Copied
  <2>2. i = block => Name(i) = p
    BY DEF p
  <2>3. CASE p \notin asked /\ UNCHANGED <<build, headers, libs, failed>>
    BY <1>4, <2>1, <2>2, <2>3
  <2>4. CASE p = "teensy36" /\ "teensy35" \in asked /\ Reuse
    <3>1. libs["teensy35"] # NoLib /\ \A k \in Packages : headers[k] = Nested
      BY <1>1, <2>0, <2>4, BlockOrder DEF Made, Copied, p
    <3>2. libs'[Name(i)] = libs[Name(i)] \/ libs'[Name(i)] = libs["teensy35"]
      BY <1>1, <2>0, <2>4, ReuseKeeps
    <3>3. i = block => libs'[Name(i)] = libs["teensy35"]
      BY <1>1, <2>2, <2>4, ReuseKeeps
    <3> QED
      BY <1>4, <2>1, <3>1, <3>2, <3>3
  <2>5. CASE Build(p)
    <3>1. libs'[p] # NoLib /\ \A k \in Packages : headers'[k] = Nested'
      BY <1>1, <2>5, BuildKeeps
    <3>2. Name(i) # p => libs'[Name(i)] = libs[Name(i)]
      BY <1>1, <2>0, <2>5, BuildKeeps
    <3> QED
      BY <2>1, <2>2, <3>1, <3>2
  <2> QED
    BY <1>2, <2>3, <2>4, <2>5
<1>7. TypeOK'
  <2>1. \A q \in Platforms : libs'[q].by \in Platforms \cup {"none"}
    BY <1>1, <1>3, <1>4, LibTypes DEF Of
  <2>2. headers' \in [Packages -> [nested : 0..gen', flat : 0..gen']]
    BY <1>1, <1>3, <1>4 DEF Of, Absent
  <2> QED
    BY <1>1, <1>3, <1>4, <2>1, <2>2 DEF Inv, TypeOK
<1>8. Fresh'
  BY <1>1, <1>3, <1>4, <1>5 DEF Fresh
<1>9. Progress'
  <2>1. status' = "running" /\ block' - 1 = block
    BY <1>1, <1>3 DEF Inv, Progress
  <2>2. "build" \notin failed' => Made(block - 1)' /\ Copied(block - 1)'
    BY <1>1, <1>6, <2>1 DEF Made, Copied
  <2>3. "build" \notin failed' /\ pc' = "list" => Made(Last)' /\ Copied(Last)'
    BY <1>1, <1>6 DEF Made, Copied
  <2>4. pc' = "block" => block' \in 1..Last
    BY <1>1, <1>3
  <2> QED
    BY <1>1, <2>1, <2>2, <2>3, <2>4 DEF Progress, Moved
<1> QED
  BY <1>7, <1>8, <1>9 DEF Inv

-----------------------------------------------------------------------------

\* A platform that is asked for has its block, so that the headers were copied.
LEMMA CopiedIsNested ==
    ASSUME Copied(Last), asked \cap Platforms # {}
    PROVE  \A k \in Packages : headers[k] = Nested
  BY BlockOrder DEF Copied

\* What a step after the blocks has to keep for the invariant.
LEMMA AfterBlocks ==
    ASSUME Inv, pc \in {"list", "rsync", "rm"}, pc' \in {"rsync", "rm", "none"},
           UNCHANGED <<block, gen, asked, libs>>, Of(gen)',
           INCLUDE_ROS2_PACKAGES' \subseteq Packages, types' \in 0..gen,
           status' \in {"running", "finished"}, pc' # "none" <=> status' = "running",
           failed' \subseteq {"build", "includes", "lists"}, failed \subseteq failed',
           pc' = "rm" => INCLUDE_ROS2_PACKAGES' # {},
           "build" \notin failed' /\ "includes" \notin failed' /\ asked \cap Platforms # {}
             => Moved'
    PROVE  Inv'
<1>1. gen \in Nat \ {0}
  BY DEF Inv, TypeOK
<1>2. TypeOK'
  <2>1. headers' \in [Packages -> [nested : 0..gen', flat : 0..gen']]
    BY <1>1 DEF Of, Absent
  <2> QED
    BY <2>1 DEF Inv, TypeOK
<1>3. Fresh'
  BY <1>1 DEF Inv, Fresh
<1>4. "build" \notin failed' => Made(Last)'
  BY DEF Inv, Progress, Made
<1>5. Progress'
  BY <1>4 DEF Progress
<1> QED
  BY <1>2, <1>3, <1>5 DEF Inv

\* The packages are listed, or not.
LEMMA ListPackagesInv ==
    ASSUME Inv, ListPackages
    PROVE  Inv'
<1>1. /\ pc = "list" /\ pc' = "rsync" /\ status = "running"
      /\ UNCHANGED <<block, gen, asked, headers, libs, types, status>>
      /\ \/ INCLUDE_ROS2_PACKAGES' = Packages /\ failed' = failed
         \/ INCLUDE_ROS2_PACKAGES' = {} /\ failed' = failed \cup {"includes"}
  BY DEF Inv, Progress, ListPackages
<1>2. Of(gen)'
  BY <1>1 DEF Inv, Fresh, Of
<1>3. "build" \notin failed' /\ "includes" \notin failed' /\ asked \cap Platforms # {}
        => Moved'
  <2> SUFFICES ASSUME "build" \notin failed', "includes" \notin failed',
                      asked \cap Platforms # {}
               PROVE  Moved'
    OBVIOUS
  <2>1. INCLUDE_ROS2_PACKAGES' = Packages /\ Copied(Last)
    BY <1>1 DEF Inv, Progress
  <2>2. \A k \in Packages : headers'[k] = Nested'
    BY <1>1, <2>1, CopiedIsNested DEF Nested
  <2> QED
    BY <1>1, <2>1, <2>2 DEF Moved
<1>4. types' \in 0..gen /\ failed' \subseteq {"build", "includes", "lists"}
  BY <1>1 DEF Inv, TypeOK
<1> QED
  BY <1>1, <1>2, <1>3, <1>4, AfterBlocks

\* The package that the loop is at is one of those left.
LEMMA VarIsLeft == INCLUDE_ROS2_PACKAGES # {} => var \in INCLUDE_ROS2_PACKAGES
  BY DEF var

\* The headers of a package move up, or stay.
LEMMA RsyncInv ==
    ASSUME Inv, Rsync
    PROVE  Inv'
<1>1. PICK ok \in BOOLEAN :
        /\ headers' = IF ok /\ headers[var].nested # Absent
                      THEN [headers EXCEPT ![var].flat = headers[var].nested]
                      ELSE headers
        /\ failed' = IF headers[var].nested # Absent /\ ~ok
                     THEN failed \cup {"includes"} ELSE failed
  BY DEF Rsync
<1>2. /\ pc = "rsync" /\ pc' = "rm" /\ status = "running"
      /\ UNCHANGED <<block, gen, asked, INCLUDE_ROS2_PACKAGES, libs, types, status>>
      /\ INCLUDE_ROS2_PACKAGES # {} /\ var' = var
  BY DEF Inv, Progress, Rsync, var
<1>3. var \in INCLUDE_ROS2_PACKAGES /\ var \in Packages
  BY <1>2, VarIsLeft DEF Inv, TypeOK
<1>4. Of(gen) /\ gen \in Nat \ {0} /\ gen # Absent
  BY <1>2 DEF Inv, Fresh, TypeOK, Absent
<1>5. Of(gen)'
  <2>1. headers[var] \in [nested : {Absent, gen}, flat : {Absent, gen}]
    BY <1>3, <1>4 DEF Of
  <2>2. headers' \in [Packages -> [nested : {Absent, gen}, flat : {Absent, gen}]]
    <3>1. CASE headers' = headers
      BY <1>4, <3>1 DEF Of
    <3>2. CASE headers' = [headers EXCEPT ![var].flat = headers[var].nested]
      BY <1>3, <1>4, <2>1, <3>2 DEF Of
    <3> QED
      BY <1>1, <3>1, <3>2
  <2> QED
    BY <1>2, <1>4, <2>2 DEF Of
<1>6. "build" \notin failed' /\ "includes" \notin failed' /\ asked \cap Platforms # {}
        => Moved'
  <2> SUFFICES ASSUME "build" \notin failed', "includes" \notin failed',
                      asked \cap Platforms # {}
               PROVE  Moved'
    OBVIOUS
  <2>1. \A k \in Packages : headers[k] = IF k \in INCLUDE_ROS2_PACKAGES THEN Nested ELSE Flat
    BY <1>1, <1>2 DEF Inv, Progress, Moved
  <2>2. headers[var] = Nested /\ headers[var].nested = gen
    BY <1>3, <2>1 DEF Nested
  <2>3. headers' = [headers EXCEPT ![var].flat = gen]
    BY <1>1, <1>4, <2>2
  <2>4. headers'[var] = Both' /\ \A k \in Packages \ {var} : headers'[k] = headers[k]
    BY <1>2, <1>3, <1>4, <2>2, <2>3 DEF Of, Nested, Both
  <2> QED
    BY <1>2, <2>1, <2>4 DEF Moved, Nested, Flat
<1>7. /\ types' \in 0..gen /\ failed' \subseteq {"build", "includes", "lists"}
      /\ failed \subseteq failed' /\ INCLUDE_ROS2_PACKAGES' \subseteq Packages
  BY <1>1, <1>2 DEF Inv, TypeOK
<1> QED
  BY <1>2, <1>5, <1>6, <1>7, AfterBlocks

\* What is left of a package below itself is removed.
LEMMA RmInv ==
    ASSUME Inv, Rm
    PROVE  Inv'
<1>1. /\ pc = "rm" /\ pc' = "rsync" /\ status = "running"
      /\ headers' = [headers EXCEPT ![var].nested = Absent]
      /\ INCLUDE_ROS2_PACKAGES' = INCLUDE_ROS2_PACKAGES \ {var}
      /\ UNCHANGED <<block, gen, asked, libs, types, status, failed>>
  BY DEF Inv, Progress, Rm
<1>2. var \in INCLUDE_ROS2_PACKAGES /\ var \in Packages
  BY <1>1, VarIsLeft DEF Inv, TypeOK, Progress
<1>3. Of(gen) /\ gen \in Nat \ {0}
  BY <1>1 DEF Inv, Fresh, TypeOK
<1>4. Of(gen)'
  <2>1. headers[var] \in [nested : {Absent, gen}, flat : {Absent, gen}]
    BY <1>2, <1>3 DEF Of
  <2>2. headers' \in [Packages -> [nested : {Absent, gen}, flat : {Absent, gen}]]
    BY <1>1, <1>2, <1>3, <2>1 DEF Of
  <2> QED
    BY <1>1, <1>3, <2>2 DEF Of
<1>5. "build" \notin failed' /\ "includes" \notin failed' /\ asked \cap Platforms # {}
        => Moved'
  <2> SUFFICES ASSUME "build" \notin failed', "includes" \notin failed',
                      asked \cap Platforms # {}
               PROVE  Moved'
    OBVIOUS
  <2>1. \A k \in Packages :
          headers[k] = IF k = var THEN Both
                       ELSE IF k \in INCLUDE_ROS2_PACKAGES THEN Nested ELSE Flat
    BY <1>1 DEF Inv, Progress, Moved
  <2>2. headers'[var] = Flat /\ \A k \in Packages \ {var} : headers'[k] = headers[k]
    BY <1>1, <1>2, <1>3, <2>1 DEF Of, Both, Flat
  <2>3. \A k \in Packages :
          headers'[k] = IF k \in INCLUDE_ROS2_PACKAGES' THEN Nested ELSE Flat
    BY <1>1, <1>2, <2>1, <2>2
  <2> QED
    BY <1>1, <2>3 DEF Moved, Nested, Flat
<1>6. /\ types' \in 0..gen /\ failed' \subseteq {"build", "includes", "lists"}
      /\ failed \subseteq failed' /\ INCLUDE_ROS2_PACKAGES' \subseteq Packages
  BY <1>1 DEF Inv, TypeOK
<1> QED
  BY <1>1, <1>4, <1>5, <1>6, AfterBlocks

\* The lists are written, or emptied.
LEMMA ExtraFilesInv ==
    ASSUME Inv, ExtraFiles
    PROVE  Inv'
<1>1. /\ pc = "rsync" /\ pc' = "none" /\ status' = "finished"
      /\ INCLUDE_ROS2_PACKAGES = {} /\ types' \in {gen, Absent}
      /\ failed' \in {failed, failed \cup {"lists"}}
      /\ UNCHANGED <<block, gen, asked, headers, INCLUDE_ROS2_PACKAGES, libs>>
  BY DEF ExtraFiles
<1>2. Of(gen)' /\ gen \in Nat \ {0}
  BY <1>1 DEF Inv, Fresh, TypeOK, Of
<1>3. "build" \notin failed' /\ "includes" \notin failed' /\ asked \cap Platforms # {}
        => Moved'
  BY <1>1 DEF Inv, Progress, Moved, Flat
<1>4. /\ types' \in 0..gen /\ failed' \subseteq {"build", "includes", "lists"}
      /\ failed \subseteq failed' /\ INCLUDE_ROS2_PACKAGES' \subseteq Packages
  BY <1>1, <1>2 DEF Inv, TypeOK, Absent
<1> QED
  BY <1>1, <1>2, <1>3, <1>4, AfterBlocks

\* A kill leaves src/ as it is.
LEMMA KilledInv ==
    ASSUME Inv, Killed
    PROVE  Inv'
<1>1. /\ pc' = "none" /\ status' = "killed"
      /\ UNCHANGED <<block, gen, headers, INCLUDE_ROS2_PACKAGES, libs, types, failed>>
  BY DEF Killed
<1>2. TypeOK' /\ Fresh'
  BY <1>1 DEF Inv, TypeOK, Fresh, Of
<1>3. Progress'
  BY <1>1 DEF Progress, Moved
<1> QED
  BY <1>2, <1>3 DEF Inv

\* A step that changes nothing keeps the invariant.
LEMMA StutterInv ==
    ASSUME Inv, UNCHANGED vars
    PROVE  Inv'
<1>1. TypeOK' /\ Fresh'
  BY DEF vars, Inv, TypeOK, Fresh, Of
<1>2. Moved => Moved'
  BY DEF vars, Moved, Nested, Both, Flat, var
<1>3. Progress'
  BY <1>2 DEF vars, Inv, Progress, Made, Copied, Nested
<1> QED
  BY <1>1, <1>3 DEF Inv

-----------------------------------------------------------------------------

\* The invariant holds in every reachable state.
THEOREM Invariant == Spec => []Inv
<1>1. ASSUME Inv, [Next]_vars
      PROVE  Inv'
  <2>1. CASE \E req \in Requests : Start(req)
    BY <1>1, <2>1, StartInv
  <2>2. CASE CleanSrc
    BY <1>1, <2>2, CleanSrcInv
  <2>3. CASE Block
    BY <1>1, <2>3, BlockInv
  <2>4. CASE ListPackages
    BY <1>1, <2>4, ListPackagesInv
  <2>5. CASE Rsync
    BY <1>1, <2>5, RsyncInv
  <2>6. CASE Rm
    BY <1>1, <2>6, RmInv
  <2>7. CASE ExtraFiles
    BY <1>1, <2>7, ExtraFilesInv
  <2>8. CASE Killed
    BY <1>1, <2>8, KilledInv
  <2>9. CASE UNCHANGED vars
    BY <1>1, <2>9, StutterInv
  <2> QED
    BY <1>1, <2>1, <2>2, <2>3, <2>4, <2>5, <2>6, <2>7, <2>8, <2>9 DEF Next, FixIncludes
<1> QED
  BY <1>1, InitInv, PTL DEF Spec

\* Every variable of the script keeps its type.
THEOREM TypeCorrect == Spec => []TypeOK
<1>1. Inv => TypeOK
  BY DEF Inv
<1> QED
  BY <1>1, Invariant, PTL

\* A library in src/ is of the same run as every header beside it and built
\* for its platform, after any number of runs for any platforms, whatever fails.
THEOREM LibraryIsGenuineHolds == Spec => []LibraryIsGenuine
<1>1. Inv => LibraryIsGenuine
  <2> SUFFICES ASSUME Inv, NEW p \in Platforms, libs[p] # NoLib
               PROVE  /\ \A k \in Packages :
                           {headers[k].nested, headers[k].flat} \subseteq {Absent, libs[p].gen}
                      /\ libs[p].by \in BuiltFor(p)
    BY DEF LibraryIsGenuine, BuiltFor
  <2>1. PICK g \in 1..gen : Of(g)
    BY DEF Inv, Fresh
  <2>2. libs[p].gen = g
    BY <2>1 DEF Of
  <2>3. \A k \in Packages : headers[k].nested \in {Absent, g} /\ headers[k].flat \in {Absent, g}
    BY <2>1 DEF Of
  <2> QED
    BY <2>2, <2>3 DEF Inv, Fresh
<1> QED
  BY <1>1, Invariant, PTL

\* A run none of whose builds fails leaves the libraries it was asked for,
\* whatever set of platforms that is, and the headers of every package if the
\* loop that moves them did not fail either.
THEOREM AskedIsBuiltHolds == Spec => []AskedIsBuilt
<1>1. Inv => AskedIsBuilt
  <2> SUFFICES ASSUME Inv, status = "finished", "build" \notin failed
               PROVE  /\ \A p \in asked \cap Platforms : libs[p] # NoLib
                      /\ "includes" \notin failed /\ asked \cap Platforms # {} =>
                           \A k \in Packages : headers[k] = Flat
    BY DEF AskedIsBuilt, Flat
  <2>1. Made(Last)
    BY DEF Inv, Progress
  <2>2. \A p \in asked \cap Platforms : libs[p] # NoLib
    BY <2>1, BlockOrder DEF Made
  <2>3. "includes" \notin failed /\ asked \cap Platforms # {} => Moved
    BY DEF Inv, Progress
  <2> QED
    BY <2>2, <2>3 DEF Moved
<1> QED
  BY <1>1, Invariant, PTL

=============================================================================
