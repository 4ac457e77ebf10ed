----------------------- MODULE ResourceTeardown_proofs -----------------------
(***************************************************************************)
(* What a build creates in Docker is in its manifest, what a service uses  *)
(* outlives it, a cleanup that reports success has left nothing, nobody    *)
(* else's object is touched and services start in the order of their       *)
(* dependencies: for any services, dependencies, attempts and faults.      *)
(*                                                                         *)
(* Added are what a step works on and has planned, that only a cleanup     *)
(* marks removed and only what is gone, and that an attempt rolls back     *)
(* nothing but its own.                                                    *)
(***************************************************************************)
EXTENDS Services, TLAPS

Deploying == {"volume", "network", "get", "record", "next", "service", "save", "wait"}
Working == Deploying \cup {"rollback"}
Cleaning == {"remove", "partial_failed", "cleaned"}

ServiceOf(s) == <<"service", s>>
ImageOf(s) == <<"image", s>>

\* What a step works on, and whose attempt it is.
Position ==
    /\ rolloutPc \in {"get", "record"} => current \in {Docker!Volume, Docker!Network}
    /\ rolloutPc \in {"service", "save", "wait"} => current \in Docker!Of("service")
    /\ rolloutPc \in Working => attempt # 0

\* Volume and network are there when services are deployed, and whatever uses
\* them; somebody else's is a service or a network.
Placed ==
    /\ \/ rolloutPc \in {"network", "next", "service", "save", "wait"}
       \/ rolloutPc = "record" \/ (rolloutPc = "get" /\ current = Docker!Network)
       => Docker!Owned(Docker!Volume)
    /\ rolloutPc \in {"next", "service", "save", "wait"} \/ (rolloutPc = "record" /\ current = Docker!Network) => Docker!Owned(Docker!Network)
    /\ rolloutPc \in {"save", "wait"} => Docker!Owned(current)
    /\ Docker!UsersFirst
    /\ \A i \in Docker!Item : docker[i] = Docker!Foreign => i[1] \in {"service", "network"}

\* What exists was planned, what is about to be created is, and so is the image a
\* service will run.
Planned ==
    /\ rolloutPc \in {"get", "record", "service", "save", "wait"} => records[current].state # "none"
    /\ rolloutPc \in {"service", "save", "wait"} => records[ImageOf(current[2])].state # "none"
    /\ \A i \in Docker!Item : Docker!Owned(i) /\ i[1] # "container" => records[i].state # "none"
    /\ \A s \in Service : Docker!Owned(ServiceOf(s)) => records[ImageOf(s)].state # "none"

\* Only a cleanup marks removed, and only what is gone; an image, when no service
\* is left to run it.
Gone ==
    /\ \A i \in Docker!Item : records[i].state = "removed" =>
          rolloutPc \in Cleaning /\ (i[1] # "container" => ~Docker!Owned(i))
    /\ \A i \in Docker!Of("image") : records[i].state = "removed" => \A s \in Service : ~Docker!Owned(ServiceOf(s))
    /\ Docker!CleanedLeavesNothing

\* What the attempt rolls back, it has created; what it need not wait for, runs.
Attempted ==
    /\ \A i \in created : i[1] \notin {"container", "image"}
    /\ rolloutPc \in Working => \A i \in created : docker[i] = attempt
    /\ rolloutPc \in Deploying =>
          \A s \in Service : ServiceOf(s) \notin todo => s \in running /\ Docker!Exists(ServiceOf(s))
    /\ rolloutPc \in {"service", "save", "wait"} => Docker!DependenciesDone(current)

IInv == Docker!TypeOK /\ Position /\ Placed /\ Planned /\ Gone /\ Attempted

-----------------------------------------------------------------------------
(***************************************************************************)
(* The items, and what is written of them.                                 *)
(***************************************************************************)
LEMMA Items ==
    /\ Docker!Volume \in Docker!Item /\ Docker!Network \in Docker!Item /\ Docker!Volume # Docker!Network
    /\ Docker!Volume[1] = "volume" /\ Docker!Network[1] = "network"
    /\ \A s \in Service :
          /\ ServiceOf(s) \in Docker!Item /\ ServiceOf(s) \in Docker!Of("service")
          /\ ImageOf(s) \in Docker!Item /\ ImageOf(s) \in Docker!Of("image")
          /\ <<"container", s>> \in Docker!Item
          /\ ServiceOf(s)[1] = "service" /\ ImageOf(s)[1] = "image"
          /\ ServiceOf(s)[2] = s /\ ImageOf(s)[2] = s
    /\ \A i \in Docker!Of("service") : i \in Docker!Item /\ i[1] = "service" /\ i[2] \in Service /\ i = ServiceOf(i[2])
    /\ \A i \in Docker!Of("image") : i \in Docker!Item /\ i[1] = "image" /\ i[2] \in Service /\ i = ImageOf(i[2])
    /\ \A i \in Docker!Item : i[1] \in {"service", "container", "image", "volume", "network"}
    /\ \A i \in Docker!Item : i[1] = "service" => i \in Docker!Of("service")
    /\ \A i \in Docker!Item : i[1] = "image" => i \in Docker!Of("image")
    /\ \A i \in Docker!Item : i[1] = "volume" => i = Docker!Volume
    /\ \A i \in Docker!Item : i[1] = "network" => i = Docker!Network
  BY DEF Docker!Item, Docker!Of, Docker!Volume, Docker!Network, ServiceOf, ImageOf

LEMMA Ids ==
    ASSUME Docker!AttemptAssumption
    PROVE  /\ Docker!Foreign # 0 /\ Docker!Foreign \notin 0..MaxDeployments /\ 0..MaxDeployments \subseteq 0..Docker!Foreign
           /\ Docker!Foreign \in 0..Docker!Foreign /\ 0 \in 0..MaxDeployments /\ 1 \in 1..MaxDeployments
           /\ 1..MaxDeployments \subseteq 0..MaxDeployments
           /\ \A n \in 0..Docker!Foreign : n # Docker!Foreign => n \in 0..MaxDeployments
           /\ \A n \in 0..MaxDeployments : n # 0 => n \in 1..MaxDeployments
  BY DEF Docker!AttemptAssumption, Docker!Foreign

Resource == [state : Docker!ResourceState, id : 0..MaxDeployments]

\* What is recorded; of what is somebody else's, nothing is recorded as present.
LEMMA Recording ==
    ASSUME Docker!AttemptAssumption, Docker!TypeOK, NEW items, NEW state \in Docker!ResourceState,
           state = "present" => \A i \in items \cap Docker!Item : docker[i] # Docker!Foreign
    PROVE  /\ Docker!Recorded(items, state) \in [Docker!Item -> Resource]
           /\ \A i \in Docker!Item : i \notin items => Docker!Recorded(items, state)[i] = records[i]
           /\ \A i \in Docker!Item : i \in items => Docker!Recorded(items, state)[i].state = state
<1>1. docker \in [Docker!Item -> 0..Docker!Foreign] /\ records \in [Docker!Item -> Resource]
  BY DEF Docker!TypeOK, Resource
<1>2. ASSUME NEW i \in Docker!Item
      PROVE  /\ Docker!Recorded(items, state)[i] \in Resource
             /\ i \notin items => Docker!Recorded(items, state)[i] = records[i]
             /\ i \in items => Docker!Recorded(items, state)[i].state = state
  <2>1. CASE i \notin items
    BY <1>1, <2>1 DEF Docker!Recorded
  <2>2. CASE i \in items
    <3> DEFINE n == IF state = "present" THEN docker[i] ELSE records[i].id
    <3>1. n \in 0..MaxDeployments
      BY <1>1, <2>2, Ids DEF Resource
    <3>2. Docker!Recorded(items, state)[i] = [state |-> state, id |-> n]
      BY <2>2 DEF Docker!Recorded
    <3> HIDE DEF n
    <3> QED
      BY <2>2, <3>1, <3>2 DEF Resource
  <2> QED
    BY <2>1, <2>2
<1>3. Docker!Recorded(items, state) = [i \in Docker!Item |-> Docker!Recorded(items, state)[i]]
  BY DEF Docker!Recorded
<1> QED
  BY <1>2, <1>3

\* A new object, or one that is gone.
LEMMA Writing ==
    ASSUME docker \in [Docker!Item -> 0..Docker!Foreign], NEW i \in Docker!Item, NEW n \in 0..Docker!Foreign,
           docker' = [docker EXCEPT ![i] = n]
    PROVE  /\ docker' \in [Docker!Item -> 0..Docker!Foreign] /\ docker'[i] = n
           /\ \A j \in Docker!Item \ {i} : docker'[j] = docker[j]
  OBVIOUS

\* The outcome of a removal.
LEMMA Marking ==
    ASSUME records \in [Docker!Item -> Resource], NEW i \in Docker!Item, NEW state \in Docker!ResourceState, Docker!Outcome(i, state)
    PROVE  /\ records' \in [Docker!Item -> Resource] /\ records'[i].state = state
           /\ \A j \in Docker!Item \ {i} : records'[j] = records[j]
<1>1. records' = [records EXCEPT ![i] = [records[i] EXCEPT !.state = state]]
  BY DEF Docker!Outcome
<1>2. [records[i] EXCEPT !.state = state] \in Resource /\ [records[i] EXCEPT !.state = state].state = state
  BY DEF Resource
<1> QED
  BY <1>1, <1>2

\* A step that creates only what is planned, and forgets no record.
LEMMA PlannedKept ==
    ASSUME Planned,
           \A i \in Docker!Item : records[i].state # "none" => records'[i].state # "none",
           \A i \in Docker!Item : Docker!Owned(i)' => Docker!Owned(i) \/ records'[i].state # "none" \/ i[1] = "container",
           \A s \in Service : Docker!Owned(ServiceOf(s))' => Docker!Owned(ServiceOf(s)) \/ records'[ImageOf(s)].state # "none",
           rolloutPc' \in {"get", "record", "service", "save", "wait"} => records'[current'].state # "none",
           rolloutPc' \in {"service", "save", "wait"} => records'[ImageOf(current'[2])].state # "none"
    PROVE  Planned'
<1>1. \A i \in Docker!Item : Docker!Owned(i)' /\ i[1] # "container" => records'[i].state # "none"
  BY DEF Planned
<1>2. \A s \in Service : Docker!Owned(ServiceOf(s))' => records'[ImageOf(s)].state # "none"
  BY Items DEF Planned
<1> QED
  BY <1>1, <1>2 DEF Planned

\* A deployment marks nothing removed.
LEMMA NothingGone ==
    ASSUME Gone, rolloutPc \notin Cleaning, rolloutPc' # "cleaned",
           \A i \in Docker!Item : records'[i].state = "removed" => records[i].state = "removed"
    PROVE  Gone'
<1>1. \A i \in Docker!Item : records'[i].state # "removed"
  BY DEF Gone
<1> QED
  BY <1>1, Items DEF Gone, Docker!CleanedLeavesNothing

-----------------------------------------------------------------------------
(***************************************************************************)
(* The deployment.                                                         *)
(***************************************************************************)
LEMMA PlanSteps ==
    ASSUME Docker!ServiceAssumption, Docker!AttemptAssumption, IInv,
           Docker!Deploy \/ Docker!PlanItem \/ \E i \in Docker!Of("service") : Docker!PlanService(i)
    PROVE  IInv'
<1> USE DEF Docker!dockerVars, Docker!opVars, Docker!Goto, Deploying, Working, Cleaning
<1>1. /\ docker \in [Docker!Item -> 0..Docker!Foreign] /\ records \in [Docker!Item -> Resource]
      /\ attempt \in 0..MaxDeployments /\ MaxDeployments \in Nat \ {0}
  BY DEF IInv, Docker!TypeOK, Resource, Docker!AttemptAssumption
<1>2. CASE Docker!Deploy
  <2>1. /\ UNCHANGED <<docker, running, records, current, rolloutFaults>> /\ rolloutPc = "idle" /\ rolloutPc' = "volume"
        /\ todo' = Docker!Of("service") /\ created' = {} /\ intact' = TRUE
        /\ attempt' = attempt + 1 /\ attempt < MaxDeployments
    BY <1>2 DEF Docker!Deploy
  <2>2. attempt' \in 0..MaxDeployments /\ attempt' # 0
    BY <1>1, <2>1
  <2>3. Docker!TypeOK'
    BY <1>1, <2>1, <2>2, Items DEF IInv, Docker!TypeOK
  <2>4. Position' /\ Placed'
    BY <2>1, <2>2 DEF IInv, Position, Placed, Docker!UsersFirst, Docker!Owned, Docker!Exists
  <2>5. Planned' /\ Gone'
    BY <2>1 DEF IInv, Planned, Gone, Docker!CleanedLeavesNothing, Docker!Owned, Docker!Exists
  <2>6. Attempted'
    BY <2>1, Items DEF Attempted
  <2> QED
    BY <2>3, <2>4, <2>5, <2>6 DEF IInv
<1>3. ASSUME NEW items \in SUBSET Docker!Item, records' = Docker!Recorded(items, "planned")
      PROVE  /\ records' \in [Docker!Item -> Resource]
             /\ \A i \in Docker!Item : records'[i] = records[i] \/ records'[i].state = "planned"
             /\ \A i \in items : records'[i].state = "planned"
  BY <1>3, Recording DEF IInv, Docker!ResourceState
<1>4. CASE Docker!PlanItem
  <2>1. /\ UNCHANGED <<docker, running, todo, created, attempt, intact, rolloutFaults>> /\ rolloutPc' = "get"
        /\ records' = Docker!Recorded({current'}, "planned")
        /\ \/ rolloutPc = "volume" /\ current' = Docker!Volume
           \/ rolloutPc = "network" /\ current' = Docker!Network
    BY <1>4 DEF Docker!PlanItem, Docker!Plan
  <2>2. current' \in {Docker!Volume, Docker!Network} /\ {current'} \in SUBSET Docker!Item
    BY <2>1, Items
  <2>3. /\ records' \in [Docker!Item -> Resource] /\ records'[current'].state = "planned"
        /\ \A i \in Docker!Item : records'[i] = records[i] \/ records'[i].state = "planned"
    BY <1>3, <2>1, <2>2
  <2>4. Docker!TypeOK'
    BY <1>1, <2>1, <2>3 DEF IInv, Docker!TypeOK, Resource
  <2>5. Position' /\ Placed'
    BY <2>1, <2>2, Items DEF IInv, Position, Placed, Docker!UsersFirst, Docker!Owned, Docker!Exists
  <2>a. \A i \in Docker!Item : Docker!Owned(i)' => Docker!Owned(i)
    BY <2>1 DEF Docker!Owned, Docker!Exists
  <2>6. Planned' /\ Gone'
    BY <2>1, <2>3, <2>a, Items, PlannedKept, NothingGone DEF IInv, Planned
  <2>7. Attempted'
    BY <2>1 DEF IInv, Attempted, Docker!Exists
  <2> QED
    BY <2>4, <2>5, <2>6, <2>7 DEF IInv
<1>5. ASSUME NEW i \in Docker!Of("service"), Docker!PlanService(i)
      PROVE  IInv'
  <2>1. /\ UNCHANGED <<docker, running, todo, created, attempt, intact, rolloutFaults>>
        /\ rolloutPc = "next" /\ rolloutPc' = "service" /\ current' = i /\ Docker!DependenciesDone(i)
        /\ records' = Docker!Recorded({i, ImageOf(i[2])}, "planned")
    BY <1>5 DEF Docker!PlanService, Docker!Plan, ImageOf
  <2>2. i \in Docker!Item /\ ImageOf(i[2]) \in Docker!Item
    BY Items
  <2>3. /\ records' \in [Docker!Item -> Resource]
        /\ records'[i].state = "planned" /\ records'[ImageOf(i[2])].state = "planned"
        /\ \A j \in Docker!Item : records'[j] = records[j] \/ records'[j].state = "planned"
    BY <1>3, <2>1, <2>2
  <2>4. Docker!TypeOK'
    BY <1>1, <2>1, <2>3 DEF IInv, Docker!TypeOK, Resource
  <2>5. Position' /\ Placed'
    BY <2>1 DEF IInv, Position, Placed, Docker!UsersFirst, Docker!Owned, Docker!Exists
  <2>a. \A j \in Docker!Item : Docker!Owned(j)' => Docker!Owned(j)
    BY <2>1 DEF Docker!Owned, Docker!Exists
  <2>6. Planned' /\ Gone'
    BY <2>1, <2>3, <2>a, Items, PlannedKept, NothingGone DEF IInv, Planned
  <2>7. Attempted'
    BY <2>1 DEF IInv, Attempted, Docker!Exists, Docker!DependenciesDone
  <2> QED
    BY <2>4, <2>5, <2>6, <2>7 DEF IInv
<1> QED
  BY <1>2, <1>4, <1>5

\* The volume and the network, got or created, then recorded.
LEMMA ItemSteps ==
    ASSUME Docker!ServiceAssumption, Docker!AttemptAssumption, IInv, Docker!GetOrCreate \/ Docker!Record
    PROVE  IInv'
<1> USE DEF Docker!dockerVars, Docker!opVars, Docker!Goto, Deploying, Working, Cleaning
<1>1. /\ docker \in [Docker!Item -> 0..Docker!Foreign] /\ records \in [Docker!Item -> Resource]
      /\ attempt \in 1..MaxDeployments /\ current \in {Docker!Volume, Docker!Network} /\ current \in Docker!Item
      /\ current \notin Docker!Of("service") /\ current[1] \notin {"container", "image", "service"}
  BY Items, Ids DEF Docker!GetOrCreate, Docker!Record, IInv, Docker!TypeOK, Resource, Position
<1>2. CASE Docker!GetOrCreate
  <2>1. /\ UNCHANGED <<running, records, current, todo, attempt, intact, rolloutFaults>> /\ rolloutPc = "get"
        /\ \/ Docker!Exists(current) /\ UNCHANGED <<docker, created>>
           \/ ~Docker!Exists(current) /\ docker' = [docker EXCEPT ![current] = attempt]
              /\ created' = created \cup {current}
        /\ \/ rolloutPc' = "record" /\ (Docker!Exists(current) => Docker!Owned(current))
           \/ rolloutPc' = "failed" /\ Docker!Exists(current)
    BY <1>2 DEF Docker!GetOrCreate
  <2>2. attempt \in 0..Docker!Foreign /\ attempt # 0 /\ attempt # Docker!Foreign
    BY <1>1, Ids
  <2>3. /\ docker' \in [Docker!Item -> 0..Docker!Foreign]
        /\ \A i \in Docker!Item \ {current} : docker'[i] = docker[i]
        /\ rolloutPc' = "record" => docker'[current] # 0 /\ docker'[current] # Docker!Foreign
        /\ docker'[current] = docker[current] \/ (docker[current] = 0 /\ docker'[current] = attempt)
    BY <1>1, <2>1, <2>2, Writing DEF Docker!Exists, Docker!Owned
  <2>4. Docker!TypeOK'
    BY <1>1, <2>1, <2>3 DEF IInv, Docker!TypeOK
  <2>5. Position'
    BY <2>1 DEF IInv, Position
  <2>6. Placed'
    BY <1>1, <2>1, <2>2, <2>3, Items DEF IInv, Placed, Docker!UsersFirst, Docker!Owned, Docker!Exists
  <2>a. /\ \A i \in Docker!Item : Docker!Owned(i)' => Docker!Owned(i) \/ i = current
        /\ records[current].state # "none"
    BY <1>1, <2>1, <2>3 DEF IInv, Planned, Docker!Owned, Docker!Exists
  <2>7. Planned' /\ Gone'
    BY <1>1, <2>1, <2>a, Items, PlannedKept, NothingGone DEF IInv, Planned
  <2>b. \A i \in created : docker'[i] = attempt
    BY <1>1, <2>1, <2>2, <2>3 DEF IInv, Docker!TypeOK, Attempted, Docker!Exists
  <2>c. \A i \in created' : docker'[i] = attempt
    <3>1. CASE UNCHANGED created
      BY <2>b, <3>1
    <3>2. CASE docker' = [docker EXCEPT ![current] = attempt] /\ created' = created \cup {current}
      BY <1>1, <2>2, <2>b, <3>2, Writing
    <3> QED
      BY <2>1, <3>1, <3>2
  <2>d. \A s \in Service : docker'[ServiceOf(s)] = docker[ServiceOf(s)]
    <3>1. \A s \in Service : ServiceOf(s) \in Docker!Item \ {current}
      BY <1>1, Items
    <3> QED
      BY <2>3, <3>1
  <2>e. \A i \in created' : i[1] \notin {"container", "image"}
    BY <1>1, <2>1 DEF IInv, Attempted
  <2>8. Attempted'
    BY <2>1, <2>c, <2>d, <2>e DEF IInv, Attempted, Docker!Exists
  <2> QED
    BY <2>4, <2>5, <2>6, <2>7, <2>8 DEF IInv
<1>3. CASE Docker!Record
  <2>1. /\ UNCHANGED <<docker, running, current, todo, created, attempt, intact, rolloutFaults>> /\ rolloutPc = "record"
        /\ \/ UNCHANGED records /\ rolloutPc' = "failed"
           \/ /\ records' = Docker!Recorded({current}, "present")
              /\ \/ rolloutPc' = "network" /\ current = Docker!Volume
                 \/ rolloutPc' = "next" /\ current = Docker!Network
    BY <1>1, <1>3 DEF Docker!Record
  <2>2. docker[current] # Docker!Foreign
    BY <1>1, <2>1 DEF IInv, Placed, Docker!Owned
  <2>3. /\ records' \in [Docker!Item -> Resource]
        /\ \A i \in Docker!Item : records'[i] = records[i] \/ records'[i].state = "present"
    BY <1>1, <2>1, <2>2, Recording DEF IInv, Docker!ResourceState
  <2>4. Docker!TypeOK'
    BY <1>1, <2>1, <2>3 DEF IInv, Docker!TypeOK, Resource
  <2>5. Position' /\ Placed'
    BY <1>1, <2>1, Items DEF IInv, Position, Placed, Docker!UsersFirst, Docker!Owned, Docker!Exists
  <2>a. \A i \in Docker!Item : Docker!Owned(i)' => Docker!Owned(i)
    BY <2>1 DEF Docker!Owned, Docker!Exists
  <2>6. Planned' /\ Gone'
    BY <1>1, <2>1, <2>3, <2>a, Items, PlannedKept, NothingGone DEF IInv, Planned
  <2>7. Attempted'
    BY <2>1 DEF IInv, Attempted, Docker!Exists
  <2> QED
    BY <2>4, <2>5, <2>6, <2>7 DEF IInv
<1> QED
  BY <1>2, <1>3

\* A service, created or updated, recorded and awaited, one after the other.
LEMMA ServiceSteps ==
    ASSUME Docker!ServiceAssumption, Docker!AttemptAssumption, IInv, Docker!CreateService \/ Docker!SaveService \/ Docker!ServiceReady
    PROVE  IInv'
<1> USE DEF Docker!dockerVars, Docker!opVars, Docker!Goto, Deploying, Working, Cleaning
<1>1. /\ docker \in [Docker!Item -> 0..Docker!Foreign] /\ records \in [Docker!Item -> Resource]
      /\ attempt \in 1..MaxDeployments
      /\ current \in Docker!Of("service") /\ current \in Docker!Item /\ current[1] = "service"
      /\ current[2] \in Service /\ current = ServiceOf(current[2]) /\ ImageOf(current[2]) \in Docker!Item
  BY Items, Ids DEF Docker!CreateService, Docker!SaveService, Docker!ServiceReady, IInv, Docker!TypeOK,
     Resource, Position
<1>2. CASE Docker!CreateService
  <2>1. /\ UNCHANGED <<running, records, current, todo, created, attempt, intact, rolloutFaults>> /\ rolloutPc = "service"
        /\ \/ Docker!Exists(current) /\ UNCHANGED docker
           \/ ~Docker!Exists(current) /\ docker' = [docker EXCEPT ![current] = attempt]
        /\ \/ rolloutPc' = "save" /\ (Docker!Exists(current) => Docker!Owned(current))
           \/ rolloutPc' = "rollback" /\ Docker!Exists(current)
    BY <1>2 DEF Docker!CreateService
  <2>2. attempt \in 0..Docker!Foreign /\ attempt # 0 /\ attempt # Docker!Foreign
    BY <1>1, Ids
  <2>3. /\ docker' \in [Docker!Item -> 0..Docker!Foreign]
        /\ \A i \in Docker!Item \ {current} : docker'[i] = docker[i]
        /\ rolloutPc' = "save" => docker'[current] # 0 /\ docker'[current] # Docker!Foreign
        /\ docker'[current] = docker[current] \/ (docker[current] = 0 /\ docker'[current] = attempt)
    BY <1>1, <2>1, <2>2, Writing DEF Docker!Exists, Docker!Owned
  <2>4. Docker!TypeOK' /\ Position'
    BY <1>1, <2>1, <2>3 DEF IInv, Docker!TypeOK, Position
  <2>5. Docker!Owned(Docker!Volume) /\ Docker!Owned(Docker!Network) /\ docker'[Docker!Volume] = docker[Docker!Volume] /\ docker'[Docker!Network] = docker[Docker!Network]
    BY <1>1, <2>1, <2>3, Items DEF IInv, Placed
  <2>6. Placed'
    BY <1>1, <2>1, <2>2, <2>3, <2>5, Items DEF IInv, Placed, Docker!UsersFirst, Docker!Owned, Docker!Exists
  <2>7. /\ \A i \in Docker!Item : Docker!Owned(i)' => Docker!Owned(i) \/ i = current
        /\ records[current].state # "none" /\ records[ImageOf(current[2])].state # "none"
    BY <1>1, <2>1, <2>3 DEF IInv, Planned, Docker!Owned, Docker!Exists
  <2>a. \A s \in Service : Docker!Owned(ServiceOf(s))' => Docker!Owned(ServiceOf(s)) \/ records[ImageOf(s)].state # "none"
    <3>1. \A s \in Service : ServiceOf(s) \in Docker!Item /\ (ServiceOf(s) = current => s = current[2])
      <4>1. \A s \in Service : ServiceOf(s) \in Docker!Item /\ ServiceOf(s)[2] = s
        BY Items
      <4> QED
        BY <4>1
    <3> QED
      BY <2>7, <3>1
  <2>8. Planned' /\ Gone'
    <3>1. Planned'
      BY <1>1, <2>1, <2>7, <2>a, PlannedKept DEF IInv
    <3>2. Gone'
      BY <2>1, NothingGone DEF IInv
    <3> QED
      BY <3>1, <3>2
  <2>9. \A i \in created : i \in Docker!Item /\ docker'[i] = attempt
    BY <1>1, <2>1, <2>2, <2>3 DEF IInv, Docker!TypeOK, Attempted, Docker!Exists
  <2>10. \A s \in Service : Docker!Exists(ServiceOf(s)) => Docker!Exists(ServiceOf(s))'
    BY <1>1, <2>2, <2>3, Items DEF Docker!Exists
  <2>11. Attempted'
    BY <2>1, <2>9, <2>10 DEF IInv, Attempted, Docker!DependenciesDone
  <2> QED
    BY <2>4, <2>6, <2>8, <2>11 DEF IInv
<1>3. CASE Docker!SaveService
  <2>1. /\ UNCHANGED <<docker, running, current, todo, attempt, intact, rolloutFaults>> /\ rolloutPc = "save"
        /\ \/ UNCHANGED <<records, created>> /\ rolloutPc' = "rollback"
           \/ /\ records' = Docker!Recorded({current}, "present") /\ rolloutPc' = "wait"
              /\ \/ UNCHANGED created
                 \/ created' = created \cup {current} /\ docker[current] = attempt
    BY <1>3 DEF Docker!SaveService
  <2>2. docker[current] # Docker!Foreign
    BY <1>1, <2>1 DEF IInv, Placed, Docker!Owned
  <2>3. /\ records' \in [Docker!Item -> Resource]
        /\ \A i \in Docker!Item : records'[i] = records[i] \/ records'[i].state = "present"
    BY <1>1, <2>1, <2>2, Recording DEF IInv, Docker!ResourceState
  <2>4. Docker!TypeOK'
    BY <1>1, <2>1, <2>3 DEF IInv, Docker!TypeOK, Resource
  <2>5. Position' /\ Placed'
    BY <1>1, <2>1, Items DEF IInv, Position, Placed, Docker!UsersFirst, Docker!Owned, Docker!Exists
  <2>6. \A i \in Docker!Item : Docker!Owned(i)' => Docker!Owned(i)
    BY <2>1 DEF Docker!Owned, Docker!Exists
  <2>7. Planned' /\ Gone'
    BY <1>1, <2>1, <2>3, <2>6, Items, PlannedKept, NothingGone DEF IInv, Planned
  <2>8. Attempted'
    BY <1>1, <2>1 DEF IInv, Attempted, Docker!Exists, Docker!DependenciesDone
  <2> QED
    BY <2>4, <2>5, <2>7, <2>8 DEF IInv
<1>4. CASE Docker!ServiceReady
  <2>1. /\ UNCHANGED <<docker, running, current, created, attempt, intact, rolloutFaults>> /\ rolloutPc = "wait"
        /\ rolloutPc' = "next" /\ current[2] \in running /\ todo' = todo \ {current}
        /\ records' = Docker!Recorded({ImageOf(current[2])}, "present")
    BY <1>4 DEF Docker!ServiceReady, ImageOf
  <2>2. docker[ImageOf(current[2])] # Docker!Foreign
    BY <1>1, <2>1, Items DEF IInv, Placed
  <2>3. /\ records' \in [Docker!Item -> Resource]
        /\ \A i \in Docker!Item : records'[i] = records[i] \/ records'[i].state = "present"
    BY <1>1, <2>1, <2>2, Recording DEF IInv, Docker!ResourceState
  <2>4. Docker!TypeOK'
    BY <1>1, <2>1, <2>3 DEF IInv, Docker!TypeOK, Resource
  <2>5. Position' /\ Placed'
    BY <1>1, <2>1, Items DEF IInv, Position, Placed, Docker!UsersFirst, Docker!Owned, Docker!Exists
  <2>6. \A i \in Docker!Item : Docker!Owned(i)' => Docker!Owned(i)
    BY <2>1 DEF Docker!Owned, Docker!Exists
  <2>7. Planned' /\ Gone'
    BY <1>1, <2>1, <2>3, <2>6, Items, PlannedKept, NothingGone DEF IInv, Planned
  <2>8. Docker!Owned(ServiceOf(current[2]))
    BY <1>1, <2>1 DEF IInv, Placed
  <2>9. \A s \in Service : ServiceOf(s) = current => s = current[2]
    <3>1. \A s \in Service : ServiceOf(s)[2] = s
      BY Items
    <3> QED
      BY <3>1
  <2>10. Attempted'
    BY <1>1, <2>1, <2>8, <2>9 DEF IInv, Attempted, Docker!Exists, Docker!Owned
  <2> QED
    BY <2>4, <2>5, <2>7, <2>10 DEF IInv
<1> QED
  BY <1>2, <1>3, <1>4

\* A deployment that ends, fails or is interrupted.
LEMMA EndSteps ==
    ASSUME Docker!ServiceAssumption, Docker!AttemptAssumption, IInv, Docker!ServiceFails \/ Docker!Deployed \/ Docker!CrashDeploying
    PROVE  IInv'
<1> USE DEF Docker!dockerVars, Docker!opVars, Docker!Goto, Deploying, Working, Cleaning
<1>1. /\ UNCHANGED <<docker, running, records, current, todo, created, attempt, intact>>
      /\ rolloutFaults' \in 0..MaxRolloutFaults
      /\ \/ rolloutPc' \in {"deployed", "idle"}
         \/ rolloutPc' = "rollback" /\ rolloutPc \in {"service", "save", "wait"}
      /\ rolloutPc \notin Cleaning
  BY DEF Docker!ServiceFails, Docker!Deployed, Docker!CrashDeploying, Docker!Fault, IInv, Docker!TypeOK,
     Docker!AttemptAssumption
<1>2. Docker!TypeOK'
  BY <1>1 DEF IInv, Docker!TypeOK
<1>3. Position' /\ Placed'
  BY <1>1 DEF IInv, Position, Placed, Docker!UsersFirst, Docker!Owned, Docker!Exists
<1>4. \A i \in Docker!Item : Docker!Owned(i)' => Docker!Owned(i)
  BY <1>1 DEF Docker!Owned, Docker!Exists
<1>5. Planned' /\ Gone'
  BY <1>1, <1>4, Items, PlannedKept, NothingGone DEF IInv, Planned
<1>6. Attempted'
  BY <1>1 DEF IInv, Attempted
<1> QED
  BY <1>2, <1>3, <1>5, <1>6 DEF IInv

\* The rollback, of what the attempt has created.
LEMMA RollbackSteps ==
    ASSUME Docker!ServiceAssumption, Docker!AttemptAssumption, IInv,
           Docker!RollBackNetwork \/ \E i \in Docker!Of("service") : Docker!RollBackService(i)
    PROVE  /\ IInv'
           /\ \A i \in Docker!Item : docker'[i] = docker[i] \/ (docker'[i] = 0 /\ docker[i] = attempt)
<1> USE DEF Docker!dockerVars, Docker!opVars, Docker!Goto, Deploying, Working, Cleaning
<1>1. /\ docker \in [Docker!Item -> 0..Docker!Foreign] /\ records \in [Docker!Item -> Resource]
      /\ attempt \in 1..MaxDeployments /\ rolloutPc = "rollback" /\ 0 \in 0..Docker!Foreign
      /\ created \subseteq Docker!Item /\ \A i \in created : docker[i] = attempt
      /\ attempt # Docker!Foreign /\ Docker!Foreign # 0
  BY Ids DEF Docker!RollBackNetwork, Docker!RollBackService, IInv, Docker!TypeOK, Resource, Position,
     Attempted
\* an item of the attempt is gone, and only services may be with those that need it there
<1>2. ASSUME NEW i \in created, docker' = [docker EXCEPT ![i] = 0] \/ UNCHANGED docker,
             i \in Docker!Of("service") \/ UNCHANGED docker \/ (i = Docker!Network /\ \A j \in Docker!Of("service") : ~Docker!Owned(j)),
             UNCHANGED <<running, records, current, todo, attempt>>,
             created' = created \ {i} \/ (created' = created /\ rolloutPc' = "failed"),
             rolloutPc' \in {"rollback", "failed"}, intact' \in BOOLEAN, rolloutFaults' \in 0..MaxRolloutFaults
      PROVE  /\ IInv'
             /\ \A j \in Docker!Item : docker'[j] = docker[j] \/ (docker'[j] = 0 /\ docker[j] = attempt)
  <2>1. /\ docker' \in [Docker!Item -> 0..Docker!Foreign]
        /\ \A j \in Docker!Item \ {i} : docker'[j] = docker[j]
        /\ docker'[i] \in {0, docker[i]} /\ docker[i] = attempt
    BY <1>1, <1>2, Writing
  <2>2. Docker!TypeOK'
    BY <1>1, <1>2, <2>1 DEF IInv, Docker!TypeOK
  <2>3. \A j \in Docker!Item : Docker!Owned(j)' => Docker!Owned(j)
    BY <1>1, <2>1 DEF Docker!Owned, Docker!Exists
  <2>4. Docker!UsersFirst'
    <3>1. CASE UNCHANGED docker
      BY <3>1 DEF IInv, Placed, Docker!UsersFirst, Docker!Owned, Docker!Exists
    <3>2. CASE i = Docker!Network /\ \A j \in Docker!Of("service") : ~Docker!Owned(j)
      BY <2>3, <3>2, Items DEF Docker!UsersFirst
    <3>3. CASE i \in Docker!Of("service")
      <4>1. docker'[Docker!Volume] = docker[Docker!Volume] /\ docker'[Docker!Network] = docker[Docker!Network]
        BY <2>1, <3>3, Items
      <4> QED
        BY <2>3, <4>1, Items DEF IInv, Placed, Docker!UsersFirst, Docker!Owned, Docker!Exists
    <3> QED
      BY <1>2, <3>1, <3>2, <3>3
  <2>5. Position' /\ Placed'
    BY <1>1, <1>2, <2>1, <2>4 DEF IInv, Position, Placed
  <2>6. Planned' /\ Gone'
    BY <1>1, <1>2, <2>3, Items, PlannedKept, NothingGone DEF IInv, Planned
  <2>7. Attempted'
    BY <1>1, <1>2, <2>1 DEF IInv, Attempted
  <2> QED
    BY <1>1, <2>1, <2>2, <2>5, <2>6, <2>7 DEF IInv
<1>3. ASSUME NEW i \in Docker!Of("service"), Docker!RollBackService(i)
      PROVE  /\ IInv'
             /\ \A j \in Docker!Item : docker'[j] = docker[j] \/ (docker'[j] = 0 /\ docker[j] = attempt)
  <2>1. i \in created /\ intact' \in BOOLEAN
    BY <1>3 DEF Docker!RollBackService, Docker!ToRollBack, IInv, Docker!TypeOK
  <2>2. UNCHANGED rolloutFaults \/ (rolloutFaults < MaxRolloutFaults /\ rolloutFaults' = rolloutFaults + 1)
    BY <1>3 DEF Docker!RollBackService, Docker!Fault
  <2>3. rolloutFaults' \in 0..MaxRolloutFaults
    BY <2>2 DEF IInv, Docker!TypeOK, Docker!AttemptAssumption
  <2> QED
    BY <1>1, <1>2, <1>3, <2>1, <2>3 DEF Docker!RollBackService
<1>4. CASE Docker!RollBackNetwork
  <2>1. /\ UNCHANGED <<running, records, current, todo, created, attempt, intact, rolloutFaults>> /\ rolloutPc' = "failed"
        /\ \/ /\ Docker!Network \in created /\ docker' = [docker EXCEPT ![Docker!Network] = 0]
              /\ \A j \in Docker!Of("service") : ~Docker!Owned(j)
           \/ UNCHANGED docker
    BY <1>4 DEF Docker!RollBackNetwork
  <2>2. CASE Docker!Network \in created /\ docker' = [docker EXCEPT ![Docker!Network] = 0] /\ \A j \in Docker!Of("service") : ~Docker!Owned(j)
    BY <1>2, <2>1, <2>2 DEF IInv, Docker!TypeOK
  <2>3. CASE UNCHANGED docker
    <3>1. Docker!TypeOK' /\ Position' /\ Placed' /\ Attempted'
      BY <1>1, <2>1, <2>3 DEF IInv, Docker!TypeOK, Position, Placed, Docker!UsersFirst, Docker!Owned,
         Docker!Exists, Attempted
    <3>2. \A i \in Docker!Item : Docker!Owned(i)' => Docker!Owned(i)
      BY <2>3 DEF Docker!Owned, Docker!Exists
    <3>3. Planned' /\ Gone'
      BY <1>1, <2>1, <3>2, Items, PlannedKept, NothingGone DEF IInv, Planned
    <3> QED
      BY <2>3, <3>1, <3>3 DEF IInv
  <2> QED
    BY <2>1, <2>2, <2>3
<1> QED
  BY <1>3, <1>4

-----------------------------------------------------------------------------
(***************************************************************************)
(* Swarm, and the cleanup.                                                 *)
(***************************************************************************)

\* Only containers and images come and go, an image with a service that is there.
SwarmMoves ==
    /\ docker' \in [Docker!Item -> 0..Docker!Foreign] /\ running' \subseteq Service
    /\ UNCHANGED <<records, rolloutPc, current, todo, created, attempt, intact, rolloutFaults>>
    /\ \A i \in Docker!Item :
          \/ docker'[i] = docker[i]
          \/ i[1] = "container" /\ docker[i] # Docker!Foreign /\ docker'[i] = 0
          \/ i[1] \in {"container", "image"} /\ docker[i] # Docker!Foreign /\ docker'[i] = 1 /\ Docker!Owned(ServiceOf(i[2]))
    /\ \A s \in Service : Docker!Exists(ServiceOf(s)) /\ s \in running => s \in running'

LEMMA SwarmMovesSo ==
    ASSUME Docker!ServiceAssumption, Docker!AttemptAssumption, IInv, Docker!Swarm
    PROVE  SwarmMoves
<1> USE DEF Docker!dockerVars, Docker!opVars
<1>1. /\ docker \in [Docker!Item -> 0..Docker!Foreign] /\ 1 \in 0..Docker!Foreign /\ 0 \in 0..Docker!Foreign /\ running \subseteq Service
  BY Ids DEF IInv, Docker!TypeOK
<1>2. ASSUME NEW s \in Service, NEW i \in {<<"container", s>>, <<"image", s>>}
      PROVE  /\ i \in Docker!Item /\ i[1] \in {"container", "image"} /\ i[2] = s /\ docker[i] # Docker!Foreign
             /\ i = <<"container", s>> => i[1] = "container"
  <2>1. /\ i \in Docker!Item /\ i[1] \in {"container", "image"} /\ i[2] = s
        /\ i = <<"container", s>> => i[1] = "container"
    <3>1. CASE i = <<"container", s>>
      BY <3>1, Items
    <3>2. CASE i = <<"image", s>>
      BY <3>2, Items DEF ImageOf
    <3> QED
      BY <3>1, <3>2
  <2> QED
    BY <2>1 DEF IInv, Placed
<1>3. ASSUME NEW s \in Service, Docker!ContainerStarts(s)
      PROVE  SwarmMoves
  <2>1. /\ docker' = [docker EXCEPT ![<<"container", s>>] = 1, ![<<"image", s>>] = 1]
        /\ Docker!Owned(ServiceOf(s)) /\ running' = running \cup {s}
        /\ UNCHANGED <<records, rolloutPc, current, todo, created, attempt, intact, rolloutFaults>>
    BY <1>3 DEF Docker!ContainerStarts, ServiceOf
  <2>2. docker' \in [Docker!Item -> 0..Docker!Foreign]
    BY <1>1, <2>1
  <2>3. \A i \in Docker!Item : docker'[i] = docker[i] \/ (i \in {<<"container", s>>, <<"image", s>>} /\ docker'[i] = 1)
    BY <1>1, <2>1
  <2>4. \A i \in Docker!Item :
           \/ docker'[i] = docker[i]
           \/ i[1] \in {"container", "image"} /\ docker[i] # Docker!Foreign /\ docker'[i] = 1 /\ Docker!Owned(ServiceOf(i[2]))
    <3>1. SUFFICES ASSUME NEW i \in Docker!Item, docker'[i] # docker[i]
                   PROVE  i[1] \in {"container", "image"} /\ docker[i] # Docker!Foreign /\ docker'[i] = 1 /\ i[2] = s
      BY <2>1
    <3>2. i \in {<<"container", s>>, <<"image", s>>} /\ docker'[i] = 1
      BY <2>3, <3>1
    <3> QED
      BY <1>2, <3>2
  <2>5. running' \subseteq Service /\ \A t \in Service : t \in running => t \in running'
    BY <1>1, <2>1
  <2> QED
    BY <2>1, <2>2, <2>4, <2>5 DEF SwarmMoves
<1>4. ASSUME NEW s \in Service, Docker!ContainerStops(s)
      PROVE  SwarmMoves
  <2>1. /\ docker' = docker \/ docker' = [docker EXCEPT ![<<"container", s>>] = 0]
        /\ ~Docker!Exists(ServiceOf(s)) /\ running' = running \ {s}
        /\ UNCHANGED <<records, rolloutPc, current, todo, created, attempt, intact, rolloutFaults>>
    BY <1>4 DEF Docker!ContainerStops, ServiceOf
  <2>2. docker' \in [Docker!Item -> 0..Docker!Foreign]
    BY <1>1, <2>1
  <2>3. \A i \in Docker!Item : docker'[i] = docker[i] \/ (i = <<"container", s>> /\ docker'[i] = 0)
    BY <1>1, <2>1
  <2>4. \A i \in Docker!Item :
           docker'[i] = docker[i] \/ (i[1] = "container" /\ docker[i] # Docker!Foreign /\ docker'[i] = 0)
    <3> DEFINE c == <<"container", s>>
    <3>1. c[1] = "container" /\ docker[c] # Docker!Foreign
      BY <1>2
    <3> HIDE DEF c
    <3> QED
      BY <2>3, <3>1 DEF c
  <2>5. /\ running' \subseteq Service
        /\ \A t \in Service : Docker!Exists(ServiceOf(t)) /\ t \in running => t \in running'
    BY <1>1, <2>1
  <2> QED
    BY <2>1, <2>2, <2>4, <2>5 DEF SwarmMoves
<1> QED
  BY <1>3, <1>4 DEF Docker!Swarm

LEMMA SwarmSteps ==
    ASSUME Docker!ServiceAssumption, Docker!AttemptAssumption, IInv, SwarmMoves
    PROVE  IInv'
<1> USE DEF Deploying, Working, Cleaning
<1>1. 1 # 0 /\ 1 # Docker!Foreign /\ Docker!Foreign # 0
  BY Ids
<1>2. Docker!TypeOK' /\ Position'
  BY DEF SwarmMoves, IInv, Docker!TypeOK, Position
<1>3. \A i \in Docker!Of("service") \cup {Docker!Volume, Docker!Network} :
         i \in Docker!Item /\ docker'[i] = docker[i] /\ (Docker!Owned(i)' <=> Docker!Owned(i)) /\ (Docker!Exists(i)' <=> Docker!Exists(i))
  <2>1. \A i \in Docker!Of("service") \cup {Docker!Volume, Docker!Network} : i \in Docker!Item /\ i[1] \notin {"container", "image"}
    BY Items
  <2>2. \A i \in Docker!Of("service") \cup {Docker!Volume, Docker!Network} : docker'[i] = docker[i]
    BY <2>1 DEF SwarmMoves
  <2> QED
    BY <2>1, <2>2 DEF Docker!Owned, Docker!Exists
<1>4. \A i \in Docker!Item : docker'[i] = Docker!Foreign <=> docker[i] = Docker!Foreign
  BY <1>1 DEF SwarmMoves
<1>5. Docker!UsersFirst'
  BY <1>3 DEF IInv, Placed, Docker!UsersFirst
<1>6. rolloutPc \in {"save", "wait"} => Docker!Owned(current)'
  <2>1. rolloutPc \in {"save", "wait"} => current \in Docker!Of("service") /\ Docker!Owned(current)
    BY DEF IInv, Position, Placed
  <2> QED
    BY <1>3, <2>1 DEF SwarmMoves, Docker!Owned, Docker!Exists
<1>7. Placed'
  BY <1>3, <1>4, <1>5, <1>6 DEF IInv, Placed, SwarmMoves
<1>8. \A i \in Docker!Item :
         Docker!Owned(i)' => Docker!Owned(i) \/ i[1] = "container" \/ (i[1] = "image" /\ Docker!Owned(ServiceOf(i[2])))
  BY <1>1 DEF SwarmMoves, Docker!Owned, Docker!Exists
<1>9. \A s \in Service : /\ Docker!Owned(ServiceOf(s))' <=> Docker!Owned(ServiceOf(s))
                         /\ Docker!Exists(ServiceOf(s))' <=> Docker!Exists(ServiceOf(s))
  BY <1>3, Items
<1>10. Planned'
  <2>1. \A i \in Docker!Item : Docker!Owned(i)' => Docker!Owned(i) \/ records'[i].state # "none" \/ i[1] = "container"
    <3>1. \A i \in Docker!Item : i[1] = "image" => i[2] \in Service /\ i = ImageOf(i[2])
      BY Items
    <3> QED
      BY <1>8, <3>1 DEF IInv, Planned, SwarmMoves
  <2> QED
    BY <1>9, <2>1, PlannedKept DEF IInv, Planned, SwarmMoves
<1>11. Gone'
  <2>1. \A i \in Docker!Of("image") : records[i].state = "removed" => \A s \in Service : ~Docker!Owned(ServiceOf(s))'
    BY <1>9 DEF IInv, Gone
  <2>2. \A i \in Docker!Item : records[i].state = "removed" => rolloutPc \in Cleaning /\ (i[1] # "container" => ~Docker!Owned(i)')
    <3>1. \A i \in Docker!Item : i[1] = "image" => i \in Docker!Of("image") /\ i[2] \in Service
      BY Items
    <3> QED
      BY <1>8, <3>1 DEF IInv, Gone
  <2>3. rolloutPc = "cleaned" => \A i \in Docker!Item : ~Docker!Owned(i)'
    <3>1. \A i \in Docker!Item : i[1] \in {"container", "image"} => ServiceOf(i[2]) \in Docker!Item
      BY DEF Docker!Item, Docker!Of, Docker!Volume, Docker!Network, ServiceOf
    <3> QED
      BY <3>1 DEF IInv, Gone, Docker!CleanedLeavesNothing, SwarmMoves, Docker!Owned, Docker!Exists
  <2> QED
    BY <2>1, <2>2, <2>3 DEF Gone, Docker!CleanedLeavesNothing, SwarmMoves
<1>12. Attempted'
  <2>1. rolloutPc \in Working => \A i \in created : docker'[i] = attempt
    BY DEF IInv, Attempted, Docker!TypeOK, SwarmMoves
  <2>2. rolloutPc \in Deploying =>
          \A s \in Service : ServiceOf(s) \notin todo => s \in running' /\ Docker!Exists(ServiceOf(s))'
    BY <1>9 DEF IInv, Attempted, SwarmMoves
  <2> QED
    BY <2>1, <2>2 DEF IInv, Attempted, Docker!DependenciesDone, SwarmMoves
<1> QED
  BY <1>2, <1>7, <1>10, <1>11, <1>12 DEF IInv

\* Whatever a cleanup finds may be recorded.
LEMMA FoundOwned == Docker!Found \subseteq Docker!Item /\ \A i \in Docker!Found : Docker!Owned(i)
  BY DEF Docker!Found, Docker!Listed

LEMMA ToRemoveItems == ASSUME NEW written, NEW kind PROVE Docker!ToRemove(written, kind) \subseteq Docker!Item
  BY DEF Docker!ToRemove

\* A cleanup that looks around, reports or fails to remove.
LEMMA CleaningKept ==
    ASSUME IInv, UNCHANGED <<docker, running, created, attempt>>, rolloutPc' \in Cleaning,
           records' \in [Docker!Item -> Resource],
           \A i \in Docker!Item : records'[i] = records[i] \/ records'[i].state \in {"present", "error"},
           rolloutPc' = "cleaned" => \A i \in Docker!Item : ~Docker!Owned(i),
           todo' \subseteq Docker!Item, intact' \in BOOLEAN, rolloutFaults' \in 0..MaxRolloutFaults
    PROVE  IInv'
<1> USE DEF Deploying, Working, Cleaning
<1>1. \A i \in Docker!Item : Docker!Owned(i)' <=> Docker!Owned(i)
  BY DEF Docker!Owned, Docker!Exists
<1>2. Docker!TypeOK'
  BY DEF IInv, Docker!TypeOK, Resource
<1>3. Position' /\ Attempted'
  BY DEF IInv, Position, Attempted
<1>4. Placed'
  BY <1>1, Items DEF IInv, Placed, Docker!UsersFirst
<1>5. Planned'
  <2>1. \A i \in Docker!Item : records[i].state # "none" => records'[i].state # "none"
    OBVIOUS
  <2>2. rolloutPc' \notin {"get", "record", "service", "save", "wait"}
    OBVIOUS
  <2> QED
    BY <1>1, <2>1, <2>2, Items, PlannedKept DEF IInv
<1>6. \A i \in Docker!Item : records'[i].state = "removed" => records[i].state = "removed"
  OBVIOUS
<1>7. Gone'
  <2>1. /\ Gone /\ \A i \in Docker!Of("image") : i \in Docker!Item
        /\ \A s \in Service : ServiceOf(s) \in Docker!Item
    BY Items DEF IInv
  <2>2. \A i \in Docker!Of("image") : records'[i].state = "removed" => \A s \in Service : ~Docker!Owned(ServiceOf(s))'
    BY <1>1, <1>6, <2>1 DEF Gone
  <2>3. \A i \in Docker!Item : records'[i].state = "removed" => rolloutPc' \in Cleaning /\ (i[1] # "container" => ~Docker!Owned(i)')
    BY <1>1, <1>6, <2>1 DEF Gone
  <2> QED
    BY <1>1, <2>2, <2>3 DEF Gone, Docker!CleanedLeavesNothing
<1> QED
  BY <1>2, <1>3, <1>4, <1>5, <1>7 DEF IInv

LEMMA LookingSteps ==
    ASSUME Docker!ServiceAssumption, Docker!AttemptAssumption, IInv, Docker!StartCleanup \/ Docker!NextKind \/ Docker!Verify \/ Docker!CrashCleaning
    PROVE  IInv' /\ UNCHANGED docker
<1> USE DEF Docker!dockerVars, Docker!opVars, Docker!Goto, Cleaning
<1>1. /\ docker \in [Docker!Item -> 0..Docker!Foreign] /\ records \in [Docker!Item -> Resource] /\ rolloutFaults \in 0..MaxRolloutFaults
      /\ todo \subseteq Docker!Item /\ intact \in BOOLEAN
  BY DEF IInv, Docker!TypeOK, Resource
<1>2. ASSUME Docker!Discover
      PROVE  /\ records' \in [Docker!Item -> Resource]
             /\ \A i \in Docker!Item : records'[i] = records[i] \/ records'[i].state = "present"
             /\ \A i \in Docker!Item : records'[i] = records[i] \/ Docker!Owned(i)
  BY <1>2, FoundOwned, Recording DEF Docker!Discover, IInv, Docker!ResourceState, Docker!Owned
<1>3. CASE Docker!StartCleanup
  BY <1>1, <1>2, <1>3, ToRemoveItems, CleaningKept DEF Docker!StartCleanup
<1>4. CASE Docker!NextKind
  <2>1. /\ UNCHANGED <<docker, running, created, attempt, rolloutPc, rolloutFaults>> /\ rolloutPc = "remove"
        /\ Docker!Discover \/ UNCHANGED records
        /\ intact' \in BOOLEAN /\ todo' \subseteq Docker!Item
    BY <1>1, <1>4, ToRemoveItems DEF Docker!NextKind
  <2> QED
    BY <1>1, <1>2, <2>1, CleaningKept
<1>5. CASE Docker!Verify
  <2>1. /\ UNCHANGED <<docker, running, created, attempt, todo, intact, rolloutFaults>> /\ Docker!Discover
        /\ \/ rolloutPc' = "cleaned" /\ Docker!Remaining = {}
           \/ rolloutPc' = "partial_failed"
    BY <1>5 DEF Docker!Verify
  <2>2. Docker!Remaining = {} => \A i \in Docker!Item : ~Docker!Owned(i)
    BY DEF Docker!Remaining
  <2> QED
    BY <1>1, <1>2, <2>1, <2>2, CleaningKept
<1>6. CASE Docker!CrashCleaning
  <2>1. rolloutFaults' \in 0..MaxRolloutFaults
    BY <1>1, <1>6 DEF Docker!CrashCleaning, Docker!Fault, Docker!AttemptAssumption
  <2> QED
    BY <1>1, <1>6, <2>1, CleaningKept DEF Docker!CrashCleaning
<1> QED
  BY <1>3, <1>4, <1>5, <1>6

\* Nothing is removed under those who use it: a service that is there is on the
\* cleanup's list, and the list is empty before what services use is removed.
LEMMA RemovalSteps ==
    ASSUME Docker!ServiceAssumption, Docker!AttemptAssumption, IInv, NEW i \in Docker!Item, Docker!RemoveResource(i) \/ Docker!RemovalFails(i)
    PROVE  /\ IInv' /\ rolloutPc = "remove"
           /\ \A j \in Docker!Item : docker[j] = Docker!Foreign => docker'[j] = Docker!Foreign
<1> USE DEF Docker!dockerVars, Cleaning
<1>1. /\ docker \in [Docker!Item -> 0..Docker!Foreign] /\ records \in [Docker!Item -> Resource] /\ rolloutFaults \in 0..MaxRolloutFaults
      /\ todo \ {i} \subseteq Docker!Item /\ intact \in BOOLEAN /\ rolloutPc = "remove" /\ rolloutPc \in Cleaning
  BY DEF IInv, Docker!TypeOK, Resource, Docker!RemoveResource, Docker!RemovalFails
<1>2. CASE UNCHANGED docker /\ Docker!Outcome(i, "error")
  <2>1. /\ records' \in [Docker!Item -> Resource]
        /\ \A j \in Docker!Item : records'[j] = records[j] \/ records'[j].state = "error"
    BY <1>1, <1>2, Marking DEF Docker!ResourceState
  <2>2. /\ UNCHANGED <<docker, running, created, attempt, rolloutPc, intact>> /\ todo' = todo \ {i}
        /\ rolloutFaults' \in 0..MaxRolloutFaults
    BY <1>1, <1>2 DEF Docker!RemoveResource, Docker!RemovalFails, Docker!Fault, Docker!AttemptAssumption
  <2>3. IInv'
    BY <1>1, <2>1, <2>2, CleaningKept
  <2> QED
    BY <1>1, <1>2, <2>3
<1>3. CASE Docker!RemoveResource(i) /\ docker' = [docker EXCEPT ![i] = 0] /\ Docker!Outcome(i, "removed")
           /\ Docker!Quiet(i) /\ ~Docker!NotOurs(i) /\ (Docker!Exists(i) => ~Docker!InUse(i))
  <2>1. /\ UNCHANGED <<running, created, attempt, rolloutPc, intact, rolloutFaults, current>> /\ todo' = todo \ {i}
    BY <1>3 DEF Docker!RemoveResource
  <2>2. /\ docker' \in [Docker!Item -> 0..Docker!Foreign] /\ docker'[i] = 0
        /\ \A j \in Docker!Item \ {i} : docker'[j] = docker[j]
        /\ docker[i] # Docker!Foreign
    BY <1>1, <1>3, Ids, Writing DEF Docker!NotOurs, Docker!Exists
  <2>3. /\ records' \in [Docker!Item -> Resource] /\ records'[i].state = "removed"
        /\ \A j \in Docker!Item \ {i} : records'[j] = records[j]
    BY <1>1, <1>3, Marking DEF Docker!ResourceState
  <2>4. ~Docker!Owned(i)' /\ \A j \in Docker!Item : Docker!Owned(j)' => Docker!Owned(j)
    BY <2>2 DEF Docker!Owned, Docker!Exists
  <2>5. Docker!TypeOK'
    BY <1>1, <2>1, <2>2, <2>3 DEF IInv, Docker!TypeOK, Resource
  <2>6. Docker!UsersFirst'
    <3>1. ASSUME NEW j \in Docker!Of("service"), Docker!Owned(j)', NEW k \in {Docker!Volume, Docker!Network}
          PROVE  Docker!Owned(k)'
      <4>1. Docker!Owned(j) /\ j \in Docker!Item /\ k \in Docker!Item /\ Docker!Owned(k)
        BY <2>4, <3>1, Items DEF IInv, Placed, Docker!UsersFirst
      <4>2. k # i
        <5>1. SUFFICES ASSUME k = i PROVE FALSE
          OBVIOUS
        <5>2. ~Docker!InUse(k) /\ k[1] \in {"volume", "network"}
          BY <1>3, <4>1, <5>1, Items DEF Docker!Owned
        <5> QED
          BY <4>1, <5>2 DEF Docker!InUse
      <4> QED
        BY <2>2, <4>1, <4>2 DEF Docker!Owned, Docker!Exists
    <3> QED
      BY <3>1 DEF Docker!UsersFirst
  <2>7. Position' /\ Placed' /\ Attempted'
    BY <1>1, <2>1, <2>2, <2>6, Ids DEF Deploying, Working, IInv, Position, Placed, Attempted
  <2>8. Planned'
    BY <1>1, <2>1, <2>3, <2>4, Items, PlannedKept DEF IInv
  <2>9. i \in Docker!Of("image") => \A s \in Service : ~Docker!Owned(ServiceOf(s))
    <3>1. SUFFICES ASSUME i \in Docker!Of("image"), NEW s \in Service, Docker!Owned(ServiceOf(s)) PROVE FALSE
      OBVIOUS
    <3>2. /\ ServiceOf(s) \in Docker!Item /\ ServiceOf(s)[1] = "service" /\ i[1] = "image"
      BY <3>1, Items
    <3>3. ServiceOf(s) \notin Docker!ToRemove(records, "service")
      BY <1>3, <3>2 DEF Docker!Quiet
    <3>4. records[ServiceOf(s)].state \in {"none", "removed"}
      BY <3>2, <3>3 DEF Docker!ToRemove
    <3> QED
      BY <3>1, <3>2, <3>4 DEF IInv, Planned, Gone
  <2>10. Gone'
    <3>1. \A j \in Docker!Item : records'[j].state = "removed" => rolloutPc' \in Cleaning /\ (j[1] # "container" => ~Docker!Owned(j)')
      BY <1>1, <2>1, <2>3, <2>4 DEF IInv, Gone
    <3>2. \A j \in Docker!Of("image") : records'[j].state = "removed" => \A s \in Service : ~Docker!Owned(ServiceOf(s))'
      <4>1. SUFFICES ASSUME NEW j \in Docker!Of("image"), records'[j].state = "removed", NEW s \in Service,
                            Docker!Owned(ServiceOf(s))'
                     PROVE  FALSE
        OBVIOUS
      <4>2. j \in Docker!Item /\ ServiceOf(s) \in Docker!Item
        BY Items
      <4>3. Docker!Owned(ServiceOf(s)) /\ j # i
        BY <2>4, <2>9, <4>1, <4>2
      <4> QED
        BY <2>3, <4>1, <4>2, <4>3 DEF IInv, Gone
    <3> QED
      BY <1>1, <2>1, <3>1, <3>2 DEF Gone, Docker!CleanedLeavesNothing
  <2>11. \A j \in Docker!Item : docker[j] = Docker!Foreign => docker'[j] = Docker!Foreign
    BY <2>2
  <2> QED
    BY <1>1, <2>5, <2>7, <2>8, <2>10, <2>11 DEF IInv
<1> QED
  BY <1>2, <1>3 DEF Docker!RemoveResource, Docker!RemovalFails

-----------------------------------------------------------------------------
(***************************************************************************)
(* What holds of every behaviour.                                          *)
(***************************************************************************)
LEMMA Start == Docker!AttemptAssumption /\ Docker!Init => IInv
<1> SUFFICES ASSUME Docker!AttemptAssumption, Docker!Init PROVE IInv
  OBVIOUS
<1>1. Docker!TypeOK
  BY Ids, Items DEF Docker!Init, Docker!TypeOK, Docker!ResourceState, Docker!AttemptAssumption
<1>2. \A i \in Docker!Item : ~Docker!Owned(i) /\ records[i].state = "none"
  BY DEF Docker!Init, Docker!Owned, Docker!Exists
<1>3. Position /\ Placed /\ Planned
  BY <1>2, Items DEF Docker!Init, Position, Placed, Planned, Docker!UsersFirst, Working, Deploying
<1>4. Gone /\ Attempted
  BY <1>2, Items DEF Docker!Init, Gone, Attempted, Docker!CleanedLeavesNothing, Working, Deploying
<1> QED
  BY <1>1, <1>3, <1>4 DEF IInv

LEMMA Stutter == IInv /\ UNCHANGED rolloutVars => IInv'
  BY DEF rolloutVars, IInv, Docker!TypeOK, Position, Placed, Planned, Gone, Attempted, Docker!UsersFirst,
     Docker!CleanedLeavesNothing,
         Docker!DependenciesDone, Docker!Owned, Docker!Exists

LEMMA Step ==
    ASSUME Docker!ServiceAssumption, Docker!AttemptAssumption, IInv, [Docker!Next]_rolloutVars
    PROVE  IInv'
  BY PlanSteps, ItemSteps, ServiceSteps, EndSteps, RollbackSteps, SwarmMovesSo, SwarmSteps,
     LookingSteps, RemovalSteps, Stutter DEF Docker!Next, Docker!Rollout, Docker!Teardown

THEOREM Invariance == ASSUME Docker!ServiceAssumption, Docker!AttemptAssumption PROVE Docker!Spec => []IInv
<1>1. Docker!Init => IInv
  BY Start
<1>2. IInv /\ [Docker!Next]_rolloutVars => IInv'
  BY Step
<1> QED
  BY <1>1, <1>2, PTL DEF Docker!Spec, Docker!vars, rolloutVars

\* The types of the objects, the records and the operation.
THEOREM TypeCorrect ==
    ASSUME Docker!ServiceAssumption, Docker!AttemptAssumption
    PROVE  Docker!Spec => []Docker!TypeOK
<1>1. IInv => Docker!TypeOK
  BY DEF IInv
<1> QED
  BY <1>1, Invariance, PTL

\* plan_resources before services.create, volumes.create and networks.create
\* (docker_services.py): a cleanup after a crash at any point, of any attempt,
\* knows what to look for, and marks removed only what is gone.
THEOREM NothingLost ==
    ASSUME Docker!ServiceAssumption, Docker!AttemptAssumption
    PROVE  Docker!Spec => []Docker!NothingUnrecorded
<1>1. IInv => Docker!NothingUnrecorded
  BY DEF IInv, Planned, Gone, Docker!NothingUnrecorded
<1> QED
  BY <1>1, Invariance, PTL

\* _rollback_deployment and the order of the cleaner's kinds: no rollback and no
\* cleanup takes the volume or the network from a service that is there.
THEOREM UsersGoFirst ==
    ASSUME Docker!ServiceAssumption, Docker!AttemptAssumption
    PROVE  Docker!Spec => []Docker!UsersFirst
<1>1. IInv => Docker!UsersFirst
  BY DEF IInv, Placed
<1> QED
  BY <1>1, Invariance, PTL

\* verify_empty: a cleanup that reports success has left nothing of the build.
THEOREM NothingLeft ==
    ASSUME Docker!ServiceAssumption, Docker!AttemptAssumption
    PROVE  Docker!Spec => []Docker!CleanedLeavesNothing
<1>1. IInv => Docker!CleanedLeavesNothing
  BY DEF IInv, Gone
<1> QED
  BY <1>1, Invariance, PTL

Untouched ==
    \A i \in Docker!Item :
       /\ docker[i] = Docker!Foreign => docker'[i] = Docker!Foreign
       /\ rolloutPc \in {"rollback", "service", "get"} /\ i[1] \notin {"container", "image"} /\ docker[i] \in 1..(attempt - 1)
            => docker'[i] = docker[i]

\* The ownership checks and the list of what the attempt has created: nobody
\* replaces or removes what is not the build's own, and a deployment, its rollback
\* included, nothing that an earlier attempt has created.
THEOREM OthersKept ==
    ASSUME Docker!ServiceAssumption, Docker!AttemptAssumption
    PROVE  Docker!Spec => Docker!OthersUntouched
<1>1. ASSUME IInv, [Docker!Next]_rolloutVars PROVE Untouched
  <2> USE DEF Docker!dockerVars
  <2>1. Docker!Foreign # 0 /\ attempt \in Nat /\ attempt # Docker!Foreign /\ \A n \in 1..(attempt - 1) : n # 0 /\ n # attempt
    BY <1>1, Ids DEF IInv, Docker!TypeOK, Docker!AttemptAssumption, Docker!Foreign
  <2>2. CASE UNCHANGED docker
    BY <2>2 DEF Untouched
  <2>3. CASE \A i \in Docker!Item : docker'[i] = docker[i] \/ (docker'[i] = 0 /\ docker[i] = attempt)
    BY <2>1, <2>3 DEF Untouched
  <2>4. CASE Docker!GetOrCreate \/ Docker!CreateService
    <3>1. docker' = docker \/ (docker[current] = 0 /\ docker' = [docker EXCEPT ![current] = attempt])
      BY <2>4 DEF Docker!GetOrCreate, Docker!CreateService, Docker!Exists
    <3>2. \A i \in Docker!Item : docker'[i] = docker[i] \/ docker[i] = 0
      BY <1>1, <3>1 DEF IInv, Docker!TypeOK
    <3> QED
      BY <2>1, <3>2 DEF Untouched
  <2>5. CASE SwarmMoves
    BY <2>5 DEF Untouched, SwarmMoves
  <2>6. ASSUME NEW i \in Docker!Item, Docker!RemoveResource(i) \/ Docker!RemovalFails(i) PROVE Untouched
    BY <1>1, <2>6, RemovalSteps DEF Untouched
  <2>7. CASE Docker!Rollout
    BY <1>1, <2>2, <2>3, <2>4, <2>7, RollbackSteps
       DEF Docker!Rollout, Docker!Deploy, Docker!PlanItem, Docker!Record, Docker!SaveService, Docker!ServiceReady, Docker!ServiceFails, Docker!Deployed, Docker!CrashDeploying,
           Docker!PlanService
  <2> QED
    BY <1>1, <2>2, <2>5, <2>6, <2>7, SwarmMovesSo, LookingSteps DEF Docker!Next, Docker!Teardown, rolloutVars
<1> QED
  BY <1>1, Invariance, PTL DEF Docker!Spec, Docker!vars, rolloutVars, Docker!OthersUntouched, Untouched

Depends == rolloutPc = "service" /\ rolloutPc' = "save" => \A d \in DependsOn[current[2]] : d \in running

\* _deployment_order and _wait_for_service_ready: a service is created or updated
\* only when every service it depends on runs.
THEOREM DependenciesFirst ==
    ASSUME Docker!ServiceAssumption, Docker!AttemptAssumption
    PROVE  Docker!Spec => Docker!DependenciesRun
<1>1. ASSUME IInv, rolloutPc = "service" PROVE \A d \in DependsOn[current[2]] : d \in running
  <2>1. current[2] \in Service
    BY <1>1, Items DEF IInv, Position
  <2>2. DependsOn[current[2]] \subseteq Service
    BY <2>1 DEF Docker!ServiceAssumption
  <2> QED
    BY <1>1, <2>2 DEF IInv, Attempted, Docker!DependenciesDone, Deploying, ServiceOf
<1>2. IInv /\ [Docker!Next]_rolloutVars => [Depends]_rolloutVars
  BY <1>1 DEF Depends
<1> QED
  BY <1>2, Invariance, PTL DEF Docker!Spec, Docker!vars, rolloutVars, Docker!DependenciesRun, Depends

\* Together, what a rollout and the cleanup after it promise: deploy, _rollback_deployment
\* and DockerBuildCleaner.
THEOREM RolloutKept ==
    ASSUME Docker!ServiceAssumption, Docker!AttemptAssumption
    PROVE  Docker!Spec => RolloutSafe
  BY TypeCorrect, NothingLost, UsersGoFirst, NothingLeft, OthersKept, DependenciesFirst, PTL DEF RolloutSafe
=============================================================================
