---------------------------- MODULE StartupProofs ----------------------------
(****************************************************************************)
(* What a start of the controller guarantees over any number of restarts,   *)
(* applications, list lengths and throttle levels.                          *)
(****************************************************************************)
EXTENDS Startup, TLAPS

\* The start of the first controller.
LEMMA InitIInv == Init => IInv
<1> SUFFICES ASSUME Init PROVE IInv
  OBVIOUS
<1>1. vector \in [Apps -> {"absent", "built", "destroyed"}]
  BY DEF Init
<1>2. pushed \in [Apps -> 0 .. ListSize]
  BY BoundsAssumption DEF Init
<1>3. mem_segments \in 0 .. ListSize
  BY BoundsAssumption DEF Init
<1>4. TypeOK
  BY <1>1, <1>2, <1>3 DEF Init, TypeOK, PCs
<1> QED
  BY <1>4 DEF Init, IInv, StartUnthrottled, LibraryInv, HandoverInv, Opened

\* The application only builds vectors that nobody has destroyed.
LEMMA AppIInv == IInv /\ App => IInv'
<1> SUFFICES ASSUME IInv, App PROVE IInv'
  OBVIOUS
<1> USE DEF IInv, TypeOK, StartUnthrottled, LibraryInv, HandoverInv, Opened,
            controller, machine, be, segment
<1>1. NoApp \notin Apps /\ (alive => app \in Apps)
  BY DEF Apps, NoApp
<1>2. CASE Launch
  <2>1. app' \in Apps
    BY <1>2, BoundsAssumption DEF Launch, Apps, NoApp
  <2> QED
    BY <1>1, <1>2, <2>1 DEF Launch
<1>3. CASE CreateSegment
  BY <1>1, <1>3 DEF CreateSegment
<1>4. CASE BuildVector
  <2>1. /\ vector' \in [Apps -> {"absent", "built", "destroyed"}]
        /\ \A a \in Apps : vector[a] # "absent" => vector'[a] = vector[a]
    BY <1>1, <1>4 DEF BuildVector
  <2>2. pc \in Opened => from \in Apps
    BY DEF Opened
  <2>3. TypeOK'
    BY <1>4, <2>1 DEF BuildVector
  <2> QED
    BY <1>1, <1>4, <2>1, <2>2, <2>3 DEF BuildVector
<1>5. CASE Append
  <2>1. pushed' \in [Apps -> 0 .. ListSize]
    BY <1>1, <1>5, BoundsAssumption DEF Append
  <2> QED
    BY <1>5, <2>1 DEF Append
<1>6. CASE Die
  BY <1>6 DEF Die
<1> QED
  BY <1>2, <1>3, <1>4, <1>5, <1>6 DEF App

\* An end past the handlers: the level stays, and the loop, if it was one, is on
\* record.
LEMMA VanishIInv ==
  ASSUME IInv, Vanish, UNCHANGED <<app, alive, pushed, vector>>,
         named' \in {named, NoApp}
  PROVE  IInv'
<1>1. /\ pc' = "down" /\ pqos' = FALSE
      /\ lastControl' = IF pc = "loop" THEN "vanished" ELSE lastControl
      /\ settings' = settings /\ from' = from /\ mem_segments' = mem_segments
      /\ mba' = mba /\ managed' = managed /\ faulty' = faulty
  BY DEF Vanish
<1>2. named' \in Apps \cup {NoApp}
  BY DEF IInv, TypeOK
<1>3. lastControl' \in {"none", "handler", "vanished"}
  BY <1>1 DEF IInv, TypeOK
<1>4. TypeOK'
  BY <1>1, <1>2, <1>3 DEF IInv, TypeOK, PCs
<1>5. StartUnthrottled'
  BY <1>1 DEF IInv, StartUnthrottled
<1>6. LibraryInv' /\ HandoverInv'
  BY <1>1 DEF IInv, LibraryInv, HandoverInv, Opened
<1> QED
  BY <1>4, <1>5, <1>6 DEF IInv

\* Every way to end.
LEMMA EndIInv == IInv /\ End => IInv'
<1> SUFFICES ASSUME IInv, End PROVE IInv'
  OBVIOUS
<1> USE DEF IInv, TypeOK, StartUnthrottled, LibraryInv, HandoverInv, Opened, PCs,
            controller, machine, be, segment
<1>1. CASE Handler
  <2>1. mba' \in {100, mba} /\ (~faulty /\ pqos => mba' = 100)
    BY <1>1 DEF Handler, ResetLevels
  <2>2. ~pqos => mba' = mba
    BY <1>1 DEF Handler, ResetLevels
  <2> QED
    BY <1>1, <2>1, <2>2 DEF Handler, destroy_shared_memory
<1>2. CASE Kill \/ ControlExits \/ ControlReturns
  <2>1. /\ Vanish
        /\ UNCHANGED <<app, alive, pushed, vector>>
        /\ named' \in {named, NoApp}
    BY <1>2 DEF Kill, ControlExits, ControlReturns, destroy_shared_memory
  <2> QED
    BY <2>1, VanishIInv
<1>3. CASE Sigint \/ MoveFails
  BY <1>1, <1>3 DEF Sigint, MoveFails
<1> QED
  BY <1>2, <1>3 DEF End

\* From the configuration to the wait for the segment.
LEMMA EarlyIInv ==
    IInv /\ (Start \/ read_config \/ initialize_mba \/ start_bw_manager) => IInv'
<1> SUFFICES ASSUME IInv,
                    Start \/ read_config \/ initialize_mba \/ start_bw_manager
             PROVE  IInv'
  OBVIOUS
<1> USE DEF IInv, TypeOK, StartUnthrottled, LibraryInv, HandoverInv, Opened, PCs,
            controller, machine, be, segment
<1>1. CASE Start
  <2>1. mem_segments' \in 0 .. ListSize
    BY <1>1, BoundsAssumption DEF Start
  <2>2. TypeOK'
    BY <1>1, <2>1 DEF Start
  <2> QED
    BY <1>1, <2>2 DEF Start
<1>2. CASE read_config
  <2>1. UNCHANGED <<app, alive, pushed, vector, named>>
    BY <1>2 DEF read_config
  <2>2. CASE Vanish
    BY <2>1, <2>2, VanishIInv
  <2>3. CASE pc' = "init" /\ UNCHANGED <<controller, machine>>
    BY <1>2, <2>1, <2>3 DEF read_config
  <2> QED
    BY <1>2, <2>2, <2>3 DEF read_config
<1>3. CASE initialize_mba
  <2>1. UNCHANGED <<app, alive, pushed, vector, named>>
    BY <1>3 DEF initialize_mba
  <2>2. CASE Vanish
    BY <2>1, <2>2, VanishIInv
  <2>3. CASE /\ pc' = "window" /\ pqos' = TRUE
             /\ UNCHANGED <<settings, from, mem_segments, machine>>
    BY <1>3, <2>1, <2>3 DEF initialize_mba
  <2> QED
    BY <1>3, <2>2, <2>3 DEF initialize_mba
<1>4. CASE start_bw_manager
  BY <1>4 DEF start_bw_manager
<1> QED
  BY <1>1, <1>2, <1>3, <1>4

\* The handshake and the loop: a list that is destroyed was built until then, so
\* nobody had managed its application.
LEMMA HandshakeIInv == IInv /\ (Handshake \/ Control) => IInv'
<1> SUFFICES ASSUME IInv, Handshake \/ Control PROVE IInv'
  OBVIOUS
<1> USE DEF IInv, TypeOK, StartUnthrottled, LibraryInv, HandoverInv, Opened, PCs,
            controller, machine, be, segment
<1>1. CASE OpenSegment
  BY <1>1 DEF OpenSegment
<1>2. CASE FindVector
  BY <1>2 DEF FindVector
<1>3. CASE CopyElement
  <2>1. pushed[from] \in 0 .. ListSize
    BY <1>3 DEF CopyElement
  <2>2. mem_segments' \in 0 .. ListSize
    BY <1>3, <2>1, BoundsAssumption DEF CopyElement
  <2> QED
    BY <1>3, <2>2 DEF CopyElement
<1>4. CASE DestroyVector
  <2>1. from \in Apps /\ from \notin managed
    BY <1>4 DEF DestroyVector
  <2>2. /\ vector' \in [Apps -> {"absent", "built", "destroyed"}]
        /\ vector'[from] = "destroyed"
        /\ \A a \in Apps : a # from => vector'[a] = vector[a]
    BY <1>4, <2>1 DEF DestroyVector
  <2> QED
    BY <1>4, <2>1, <2>2 DEF DestroyVector
<1>5. CASE NoSegments
  BY <1>5, VanishIInv DEF NoSegments, destroy_shared_memory
<1>6. CASE Dispatch
  <2>1. UNCHANGED <<app, alive, pushed, vector, named>>
    BY <1>6 DEF Dispatch
  <2>2. CASE Vanish
    BY <2>1, <2>2, VanishIInv
  <2>3. CASE /\ pc' = "loop"
             /\ managed' = managed \cup {from}
             /\ UNCHANGED <<controller, mba, faulty, lastControl>>
    BY <1>6, <2>1, <2>3 DEF Dispatch
  <2> QED
    BY <1>6, <2>2, <2>3 DEF Dispatch
<1>7. CASE Control
  BY <1>7 DEF Control
<1>8. CASE OpenFails
  BY <1>8 DEF OpenFails
<1> QED
  BY <1>1, <1>2, <1>3, <1>4, <1>5, <1>6, <1>7, <1>8 DEF Handshake

\* The invariant holds in every reachable state.
THEOREM Invariance == Spec => []IInv
<1>1. IInv /\ [Next]_vars => IInv'
  <2> SUFFICES ASSUME IInv, [Next]_vars PROVE IInv'
    OBVIOUS
  <2>1. CASE UNCHANGED vars
    BY <2>1 DEF vars, be, segment, controller, machine, IInv, TypeOK,
                StartUnthrottled, LibraryInv, HandoverInv
  <2> QED
    BY <2>1, AppIInv, EndIInv, EarlyIInv, HandshakeIInv DEF Next, StartUp
<1> QED
  BY <1>1, InitIInv, PTL DEF Spec

\* Every variable of the start keeps its type.
THEOREM TypeCorrect == Spec => []TypeOK
BY Invariance, PTL DEF IInv

\* Unless a loop ended past the handlers, a controller finds the machine
\* unthrottled.
THEOREM Unthrottled == Spec => []StartUnthrottled
<1>1. IInv => StartUnthrottled
  BY DEF IInv
<1> QED
  BY <1>1, Invariance, PTL

\* A loop has consumed the list it works with.
THEOREM Consumed == Spec => []ConsumedBeforeControl
<1>1. IInv => ConsumedBeforeControl
  BY DEF IInv, HandoverInv, ConsumedBeforeControl
<1> QED
  BY <1>1, Invariance, PTL

\* No two loops run for the same application.
THEOREM Once == Spec => HandedOverOnce
<1>1. ASSUME IInv, [Next]_vars, pc # "loop", pc' = "loop"
      PROVE  from \notin managed
  <2>1. Dispatch
    BY <1>1 DEF Next, App, Launch, CreateSegment, BuildVector, Append, Die, Start,
       StartUp, read_config, initialize_mba, start_bw_manager, Handshake,
       OpenSegment, OpenFails, FindVector, CopyElement, DestroyVector, NoSegments, Control,
       End, Kill, Sigint, MoveFails, ControlExits, ControlReturns, Vanish, Handler,
       vars
  <2> QED
    BY <1>1, <2>1 DEF Dispatch, IInv, HandoverInv
<1> QED
  BY <1>1, Invariance, PTL DEF Spec, HandedOverOnce

-----------------------------------------------------------------------------
(* The machine over all its controllers.                                    *)

Lifes == [a \in Apps |-> Life(a)]

\* Between two controllers, and until one has taken a list, lives are what the
\* segments show and nobody holds one.
LEMMA NobodyHolds ==
  ASSUME pc \notin {"dispatch", "loop"}
  PROVE  Machine!Vacant /\ \A a \in Apps : Life(a) = InSegment(vector[a])
BY DEF Life, InSegment, Machine!Vacant

\* A step that takes no list and gives none back.
LEMMA SameLives ==
  ASSUME vector' = vector,
         \/ pc' = pc /\ from' = from
         \/ pc \notin {"dispatch", "loop"} /\ pc' \notin {"dispatch", "loop"}
  PROVE  Lifes' = Lifes
BY DEF Lifes, Life, InSegment

\* A step that changes the life of one list.
LEMMA OneLife ==
  ASSUME NEW b \in Apps, NEW v, Life(b)' = v,
         \A a \in Apps : a # b => Life(a)' = Life(a)
  PROVE  Lifes' = [Lifes EXCEPT ![b] = v]
BY DEF Lifes

\* The end of a controller, by any way, ends the life of the list it holds.
LEMMA EndOfController ==
  ASSUME IInv, pc' = "down", vector' = vector, from' = from
  PROVE  /\ pc \notin {"dispatch", "loop"} => Machine!Vacant /\ Lifes' = Lifes
         /\ pc = "dispatch" => from \in Apps /\ Machine!Becomes(from, "claimed", "spent")
         /\ pc = "loop" => from \in Apps /\ Machine!Becomes(from, "managed", "spent")
<1>1. CASE pc \notin {"dispatch", "loop"}
  BY <1>1, NobodyHolds, SameLives
<1>2. CASE pc \in {"dispatch", "loop"}
  <2>1. from \in Apps /\ vector[from] = "destroyed"
    BY <1>2 DEF IInv, TypeOK, HandoverInv, Opened
  <2>2. Life(from)' = "spent"
    BY <2>1 DEF Life, InSegment
  <2>3. \A a \in Apps : a # from => Life(a)' = Life(a)
    BY DEF Life
  <2>4. Lifes' = [Lifes EXCEPT ![from] = "spent"]
    BY <2>1, <2>2, <2>3, OneLife
  <2>5. Life(from) = IF pc = "dispatch" THEN "claimed" ELSE "managed"
    BY <1>2 DEF Life
  <2> QED
    BY <1>2, <2>1, <2>4, <2>5 DEF Machine!Becomes, Lifes
<1> QED
  BY <1>1, <1>2

\* An application publishes its list.
LEMMA AppTenancy == IInv /\ App => [Machine!Next]_Machine!vars
<1> SUFFICES ASSUME IInv, App PROVE [Machine!Next]_Machine!vars
  OBVIOUS
<1>1. UNCHANGED <<pc, from, mba, lastControl, faulty>>
  BY DEF App, Launch, CreateSegment, BuildVector, Append, Die, controller, machine
<1>2. CASE BuildVector
  <2>1. app \in Apps /\ vector[app] = "absent" /\ app' = app
    BY <1>2 DEF BuildVector, be, IInv, TypeOK, HandoverInv
  <2>2. ~(pc \in {"dispatch", "loop"} /\ from = app)
    BY <2>1 DEF IInv, HandoverInv
  <2>3. vector' = [vector EXCEPT ![app] = "built"] /\ vector \in [Apps -> {"absent", "built", "destroyed"}]
    BY <1>2 DEF BuildVector, IInv, TypeOK
  <2>4. Life(app) = "unpublished" /\ Life(app)' = "published"
    BY <1>1, <2>1, <2>2, <2>3 DEF Life, InSegment
  <2>5. \A a \in Apps : a # app => Life(a)' = Life(a)
    BY <1>1, <2>3 DEF Life
  <2>6. Lifes' = [Lifes EXCEPT ![app] = "published"]
    BY <2>1, <2>4, <2>5, OneLife
  <2>7. Machine!Publish(app)
    BY <1>1, <2>1, <2>4, <2>6 DEF Machine!Publish, Machine!Becomes, Lifes
  <2> QED
    BY <2>1, <2>7 DEF Machine!Next
<1>3. CASE ~BuildVector
  <2>1. vector' = vector
    BY <1>3 DEF App, Launch, CreateSegment, Append, Die, segment
  <2> QED
    BY <1>1, <2>1, SameLives DEF Machine!vars, Lifes
<1> QED
  BY <1>2, <1>3

\* A controller on its way to its loop takes one list, or none.
LEMMA StartUpTenancy == IInv /\ (Start \/ StartUp) => [Machine!Next]_Machine!vars
<1> SUFFICES ASSUME IInv, Start \/ StartUp PROVE [Machine!Next]_Machine!vars
  OBVIOUS
<1>1. CASE Start \/ read_config \/ initialize_mba \/ start_bw_manager \/ OpenSegment
           \/ OpenFails \/ FindVector \/ CopyElement \/ NoSegments
  <2>1. /\ UNCHANGED <<vector, mba, faulty, lastControl>>
        /\ pc \notin {"dispatch", "loop"} /\ pc' \notin {"dispatch", "loop"}
    BY <1>1 DEF Start, read_config, initialize_mba, start_bw_manager, OpenSegment,
       OpenFails, FindVector, CopyElement, NoSegments, Vanish, destroy_shared_memory,
       segment, machine
  <2> QED
    BY <2>1, SameLives DEF Machine!vars, Lifes
<1>2. CASE DestroyVector
  <2>1. /\ from \in Apps /\ vector[from] = "built"
        /\ vector \in [Apps -> {"absent", "built", "destroyed"}]
    BY <1>2 DEF DestroyVector, IInv, TypeOK, HandoverInv, Opened
  <2>2. /\ vector' = [vector EXCEPT ![from] = "destroyed"]
        /\ UNCHANGED <<from, mba, faulty, lastControl>>
        /\ pc = "copy" /\ pc' \in {"noList", "dispatch"}
    BY <1>2 DEF DestroyVector, controller, machine
  <2>3. Machine!Vacant /\ Life(from) = "published"
    BY <2>1, <2>2, NobodyHolds DEF InSegment
  <2>4. \A a \in Apps : a # from => Life(a)' = Life(a)
    BY <2>1, <2>2 DEF Life
  <2>5. CASE pc' = "dispatch"
    <3>1. Life(from)' = "claimed"
      BY <2>2, <2>5 DEF Life
    <3>2. Machine!Claim(from)
      BY <2>1, <2>2, <2>3, <2>4, <3>1, OneLife DEF Machine!Claim, Machine!Becomes, Lifes
    <3> QED
      BY <2>1, <3>2 DEF Machine!Next
  <2>6. CASE pc' = "noList"
    <3>1. Life(from)' = "spent"
      BY <2>1, <2>2, <2>6 DEF Life, InSegment
    <3>2. Machine!Discard(from)
      BY <2>1, <2>2, <2>3, <2>4, <3>1, OneLife DEF Machine!Discard, Machine!Becomes, Lifes
    <3> QED
      BY <2>1, <3>2 DEF Machine!Next
  <2> QED
    BY <2>2, <2>5, <2>6
<1>3. CASE Dispatch
  <2>1. from \in Apps /\ pc = "dispatch" /\ UNCHANGED <<vector, from, mba, faulty, lastControl>>
    BY <1>3 DEF Dispatch, Vanish, IInv, TypeOK, HandoverInv, Opened, segment, controller
  <2>2. CASE pc' = "loop"
    <3>1. Life(from) = "claimed" /\ Life(from)' = "managed"
      BY <2>1, <2>2 DEF Life
    <3>2. \A a \in Apps : a # from => Life(a)' = Life(a)
      BY <2>1, <2>2 DEF Life
    <3>3. Machine!Manage(from)
      BY <2>1, <3>1, <3>2, OneLife DEF Machine!Manage, Machine!Becomes, Lifes
    <3> QED
      BY <2>1, <3>3 DEF Machine!Next
  <2>3. CASE pc' = "down"
    <3>1. Machine!Abandon(from)
      BY <2>1, <2>3, EndOfController DEF Machine!Abandon
    <3> QED
      BY <2>1, <3>1 DEF Machine!Next
  <2> QED
    BY <1>3, <2>2, <2>3 DEF Dispatch, Vanish
<1> QED
  BY <1>1, <1>2, <1>3 DEF StartUp, Handshake

\* The loop, for the application it manages.
LEMMA ControlTenancy == IInv /\ Control => [Machine!Next]_Machine!vars
<1> SUFFICES ASSUME IInv, Control PROVE [Machine!Next]_Machine!vars
  OBVIOUS
<1>1. from \in Apps /\ pc = "loop"
  BY DEF Control, IInv, TypeOK, HandoverInv, Opened
<1>2. Lifes' = Lifes /\ Life(from) = "managed"
  BY <1>1, SameLives DEF Control, segment, controller, Life
<1>3. Machine!Throttle(from)
  BY <1>1, <1>2 DEF Control, Machine!Throttle, Lifes
<1> QED
  BY <1>1, <1>3 DEF Machine!Next

\* The handlers put the level back; every other end leaves it.
LEMMA EndTenancy == IInv /\ End => [Machine!Next]_Machine!vars
<1> SUFFICES ASSUME IInv, End PROVE [Machine!Next]_Machine!vars
  OBVIOUS
<1>1. pc' = "down" /\ vector' = vector /\ from' = from /\ faulty' = faulty
  BY DEF End, Kill, Sigint, MoveFails, ControlExits, ControlReturns, Vanish, Handler,
     destroy_shared_memory, segment
<1>2. CASE Vanish
  <2>1. mba' = mba
    BY <1>2 DEF Vanish
  <2>2. CASE pc \notin {"dispatch", "loop"}
    <3>1. lastControl' = lastControl
      BY <1>2, <2>2 DEF Vanish
    <3> QED
      BY <1>1, <2>1, <2>2, <3>1, EndOfController DEF Machine!vars, Lifes
  <2>3. CASE pc = "dispatch"
    <3>1. lastControl' = lastControl
      BY <1>2, <2>3 DEF Vanish
    <3>2. from \in Apps /\ Machine!Abandon(from)
      BY <1>1, <2>1, <2>3, <3>1, EndOfController DEF Machine!Abandon
    <3> QED
      BY <3>2 DEF Machine!Next
  <2>4. CASE pc = "loop"
    <3>1. lastControl' = "vanished"
      BY <1>2, <2>4 DEF Vanish
    <3>2. from \in Apps /\ Machine!Strand(from)
      BY <1>1, <2>1, <2>4, <3>1, EndOfController DEF Machine!Strand
    <3> QED
      BY <3>2 DEF Machine!Next
  <2> QED
    BY <2>2, <2>3, <2>4
<1>3. CASE Handler
  <2>1. CASE pqos
    <3>1. Machine!PutBack
      BY <1>1, <1>3, <2>1 DEF Handler, ResetLevels, Machine!PutBack
    <3>2. CASE pc \notin {"dispatch", "loop"}
      BY <1>1, <3>1, <3>2, EndOfController DEF Machine!Next, Machine!Reset, Lifes
    <3>3. CASE pc \in {"dispatch", "loop"}
      <4>1. from \in Apps /\ Machine!Leave(from)
        BY <1>1, <3>1, <3>3, EndOfController DEF Machine!Leave
      <4> QED
        BY <4>1 DEF Machine!Next
    <3> QED
      BY <3>2, <3>3
  <2>2. CASE ~pqos
    <3>1. mba' = mba /\ lastControl' = lastControl
      BY <1>3, <2>2 DEF Handler, ResetLevels
    <3>2. pc \notin {"dispatch", "loop"}
      BY <2>2 DEF IInv, LibraryInv, Opened
    <3> QED
      BY <1>1, <3>1, <3>2, EndOfController DEF Machine!vars, Lifes
  <2> QED
    BY <2>1, <2>2
<1> QED
  BY <1>2, <1>3 DEF End, Kill, Sigint, MoveFails, ControlExits, ControlReturns

\* Over all controllers of a machine, every list has one life, in one pair of
\* hands, and the level is touched only for the application that is managed or by
\* a reset.
THEOREM TenancyRefinement == Spec => TenancySpec
<1>1. Init => Machine!Init
  BY DEF Init, Machine!Init, Life, InSegment
<1>2. UNCHANGED vars => UNCHANGED Machine!vars
  BY DEF vars, segment, controller, machine, Machine!vars, Life, InSegment
<1>3. IInv /\ [Next]_vars => [Machine!Next]_Machine!vars
  BY <1>2, AppTenancy, StartUpTenancy, ControlTenancy, EndTenancy DEF Next
<1> QED
  BY <1>1, <1>3, Invariance, PTL DEF Spec, TenancySpec, Machine!Spec
=============================================================================
