--------------------------- MODULE ReadPathProofs ---------------------------
(***************************************************************************)
(* What a reader is shown, for any number of requests of any kind, any     *)
(* number of orders and any threshold of the health check.  The inductive  *)
(* invariant says, per request, what it has read so far: its first query   *)
(* found what it looked for where it looked, and as long as neither flag   *)
(* nor window has changed, everything it did agrees with what Reader would *)
(* still answer.                                                           *)
(*                                                                         *)
(* What the flag says, for every number of checks that trips it, comes     *)
(* first.                                                                  *)
(***************************************************************************)
EXTENDS ReadPath, SequenceTheorems, TLAPS
-----------------------------------------------------------------------------
(* The flag of ReplicaState. *)

\* The counter is the run of bad checks so far, so the flag is set exactly while
\* that run has reached TripAfter.
HealthInv == HealthTypeOK /\ CountsRun /\ DownIffRunOfBad

\* A server that starts finds nothing counted and the flag reset.
LEMMA InitHealthInv == HealthInit => HealthInv
<1> SUFFICES ASSUME HealthInit PROVE HealthInv
  OBVIOUS
<1>. USE HealthAssumption DEF HealthInit
<1>1. HealthTypeOK
  <2>1. down \in BOOLEAN
    BY Zenon
  <2>. QED
    BY <2>1 DEF HealthTypeOK
<1>2. CountsRun
  BY DEF CountsRun
<1>3. 1 \in 1..TripAfter /\ recent[1] # "bad"
  OBVIOUS
<1>4. DownIffRunOfBad
  BY <1>3 DEF DownIffRunOfBad
<1>. QED
  BY <1>1, <1>2, <1>4 DEF HealthInv

\* One more bad check lengthens the run, and trips the flag when it is full.
LEMMA CountNGHealthInv ==
    ASSUME HealthInv, CountNG
    PROVE  HealthInv'
<1>. USE HealthAssumption DEF HealthInv, CountNG, Judged
<1>1. HealthTypeOK'
  BY DEF HealthTypeOK
<1>2. CountsRun'
  BY DEF HealthTypeOK, CountsRun
<1>3. DownIffRunOfBad'
  <2>1. CASE ng + 1 >= TripAfter
    <3>1. down' = TRUE
      BY <2>1
    <3>2. ASSUME NEW i \in 1..TripAfter PROVE recent'[i] = "bad"
      BY <2>1 DEF HealthTypeOK, CountsRun
    <3>. QED
      BY <3>1, <3>2 DEF DownIffRunOfBad
  <2>2. CASE ng + 1 < TripAfter
    <3>1. ng + 1 \in 1..TripAfter /\ ng + 2 \in 1..TripAfter /\ recent[ng + 1] = "good"
      BY <2>2 DEF HealthTypeOK, CountsRun
    <3>2. recent'[ng + 2] = "good"
      BY <3>1 DEF HealthTypeOK
    <3>3. ~ down
      BY <3>1 DEF DownIffRunOfBad
    <3>4. ~ (ng + 1 >= TripAfter)
      BY <2>2 DEF HealthTypeOK
    <3>5. ~ down'
      BY <3>3, <3>4, Zenon
    <3>. QED
      BY <3>1, <3>2, <3>5 DEF DownIffRunOfBad
  <2>. QED
    BY <2>1, <2>2 DEF HealthTypeOK
<1>. QED
  BY <1>1, <1>2, <1>3

\* A good check empties the run.
LEMMA EvaluateOkHealthInv ==
    ASSUME HealthInv, EvaluateOk
    PROVE  HealthInv'
<1>. USE HealthAssumption DEF HealthInv, EvaluateOk, Judged
<1>1. HealthTypeOK'
  <2>1. down' \in BOOLEAN
    BY Zenon
  <2>. QED
    BY <2>1 DEF HealthTypeOK
<1>2. 1 \in 1..TripAfter /\ recent'[1] = "good"
  OBVIOUS
<1>3. CountsRun'
  BY <1>2 DEF CountsRun
<1>4. DownIffRunOfBad'
  BY <1>2 DEF DownIffRunOfBad
<1>. QED
  BY <1>1, <1>3, <1>4

\* Every step of the goroutine, the Replica and the server preserves HealthInv.
LEMMA NextHealthInv == HealthInv /\ [HealthNext]_health => HealthInv'
<1> SUFFICES ASSUME HealthInv, [HealthNext]_health
             PROVE  HealthInv'
  OBVIOUS
<1>1. CASE ReplicaChanges
  BY <1>1 DEF HealthInv, HealthTypeOK, CountsRun, DownIffRunOfBad, ReplicaChanges
<1>2. CASE CheckLag
  BY <1>2 DEF HealthInv, HealthTypeOK, CountsRun, DownIffRunOfBad, CheckLag, Conditions
<1>3. CASE EvaluateError \/ EvaluateLag
  BY <1>3, CountNGHealthInv DEF EvaluateError, EvaluateLag
<1>4. CASE EvaluateOk
  BY <1>4, EvaluateOkHealthInv
<1>5. CASE Restart
  <2>. USE <1>5, HealthAssumption DEF HealthInv, Restart
  <2>1. HealthTypeOK'
    <3>1. down' \in BOOLEAN
      BY Zenon
    <3>. QED
      BY <3>1 DEF HealthTypeOK
  <2>2. 1 \in 1..TripAfter /\ recent'[1] = "good"
    OBVIOUS
  <2>3. CountsRun'
    BY <2>2 DEF CountsRun
  <2>4. DownIffRunOfBad'
    BY <2>2 DEF DownIffRunOfBad
  <2>. QED
    BY <2>1, <2>3, <2>4
<1>6. CASE UNCHANGED health
  BY <1>6 DEF HealthInv, HealthTypeOK, CountsRun, DownIffRunOfBad, health
<1>. QED
  BY <1>1, <1>2, <1>3, <1>4, <1>5, <1>6 DEF HealthNext, Evaluate

\* ReplicaHealth keeps its invariant.
THEOREM HealthInvariance == HealthSpec => []HealthInv
BY InitHealthInv, NextHealthInv, PTL DEF HealthSpec

\* The flag, the counter and the history have their types.
THEOREM HealthTypeCorrect == HealthSpec => []HealthTypeOK
<1>1. HealthInv => HealthTypeOK
  BY DEF HealthInv
<1>. QED
  BY <1>1, HealthInvariance, PTL

\* ReplicaState.Down is true exactly while the last TripAfter evaluations were
\* all bad.
THEOREM FlagFollowsRun == HealthSpec => []DownIffRunOfBad
<1>1. HealthInv => DownIffRunOfBad
  BY DEF HealthInv
<1>. QED
  BY <1>1, HealthInvariance, PTL
-----------------------------------------------------------------------------
(* What a request has read. *)

Reading == Queries \cup {"gate", "render"}

\* Where a row is found, it stays: the Replica never takes back what it has
\* applied.
Held(r, db) == target[r] <= IF db = "primary" THEN committed ELSE applied

\* It has queried nothing, or one database.
Unread(r) == used[r] = <<>>
One(r) == \E db \in Pools : used[r] = <<db>>

\* What request r has done when it is where it is.
Course(r) ==
    /\ pc[r] = "idle" =>
        Unread(r) /\ modes[r] = {} /\ window[r] = "none" /\ pool[r] = "none"
    /\ pc[r] \in {"head", "admin"} => Unread(r) /\ modes[r] = {}
    /\ pc[r] = "items" => modes[r] = {} /\ \E db \in Pools : used[r] = <<db>> /\ Held(r, db)
    /\ pc[r] = "gate" => One(r) /\ modes[r] = {}
    /\ pc[r] \in {"page", "products"} => Unread(r)
    /\ pc[r] \in {"report", "render"} => One(r)
    /\ pc[r] \in Reading \ {"head", "items"} => window[r] = "none"
    /\ pc[r] \in Reading /\ r \notin switched => \A m \in modes[r] : m = Mode
    /\ pc[r] \in {"head", "items", "admin"} => target[r] <= committed
    /\ pc[r] # "done" => reply[r] = "none"

\* The databases it has chosen, while the window is open and while nothing has
\* changed.
Choices(r) ==
    /\ window[r] = "over" => r \in switched
    /\ pc[r] \in Reading /\ pool[r] # "none" =>
        /\ window[r] = "open" => pool[r] = "primary"
        /\ r \notin switched => pool[r] = Reader(r)
    /\ pc[r] \in Reading =>
        \A db \in Pools : used[r] = <<db>> =>
            /\ window[r] = "open" => db = "primary"
            /\ r \notin switched => db = Reader(r)

\* The four properties, for one request.
Fresh(r) == window[r] = "open" /\ pc[r] = "done" => reply[r] \in {"whole", "error"}

Torn(r) == reply[r] = "bare" => used[r] = <<"primary", "replica">> /\ r \in switched

Missing(r) == reply[r] = "missing" => used[r] = <<"replica">> /\ window[r] # "open"

OneWorld(r) ==
    r \notin switched =>
        /\ \A i, j \in DOMAIN used[r] : used[r][i] = used[r][j]
        /\ modes[r] # Modes
        /\ \A i \in DOMAIN used[r], m \in modes[r] :
            used[r][i] = IF m = "reduced" THEN "primary" ELSE "replica"

RInv(r) == Course(r) /\ Choices(r) /\ Fresh(r) /\ Torn(r) /\ Missing(r) /\ OneWorld(r)

IInv == TypeOK /\ \A r \in Requests : RInv(r)

\* At the start nothing has been read.
LEMMA InitIInv == Init => IInv
<1> SUFFICES ASSUME Init PROVE IInv
  OBVIOUS
<1>1. HealthTypeOK
  BY InitHealthInv DEF Init, HealthInv
<1>2. TypeOK
  BY <1>1, ReadAssumption DEF Init, TypeOK
<1>3. ASSUME NEW r \in Requests PROVE RInv(r)
  BY DEF Init, RInv, Course, Choices, Fresh, Torn, Missing, OneWorld, Reading, Queries,
         Modes, Unread
<1>. QED
  BY <1>2, <1>3 DEF IInv

\* What other requests, orders and the Replica's progress change leaves what a
\* request has read as it was.
Untouched(r) ==
    /\ pc'[r] = pc[r] /\ target'[r] = target[r] /\ window'[r] = window[r]
    /\ pool'[r] = pool[r] /\ used'[r] = used[r] /\ modes'[r] = modes[r]
    /\ reply'[r] = reply[r] /\ (r \in switched' <=> r \in switched)

Growing == committed' \in Nat /\ applied' \in Nat /\ committed <= committed' /\ applied <= applied'

\* A request keeps its invariant while only the databases grow.
LEMMA UntouchedRInv ==
    ASSUME TypeOK, NEW r \in Requests, RInv(r), Untouched(r), Growing, down' = down
    PROVE  RInv(r)'
<1>. USE DEF Untouched
<1>0. committed \in Nat /\ applied \in Nat /\ target[r] \in Nat
  BY ReadAssumption DEF TypeOK
<1>1. Course(r)'
  BY <1>0 DEF RInv, Course, Held, Growing, Mode, Unread, One
<1>2. Choices(r)'
  BY DEF RInv, Choices, Reader, ForcePrimary
<1>3. Fresh(r)' /\ Torn(r)' /\ Missing(r)'
  BY DEF RInv, Fresh, Torn, Missing
<1>4. OneWorld(r)'
  BY DEF RInv, OneWorld
<1>. QED
  BY <1>1, <1>2, <1>3, <1>4 DEF RInv

\* A step of one request leaves the others alone.
LEMMA StepOfOne ==
    ASSUME IInv, TypeOK', NEW r \in Requests, UNCHANGED health, Growing, RInv(r)',
           \A x \in Requests \ {r} : Untouched(x)
    PROVE  IInv'
<1>1. ASSUME NEW x \in Requests PROVE RInv(x)'
  <2>1. CASE x = r
    BY <2>1
  <2>2. CASE x # r
    BY <2>2, UntouchedRInv DEF IInv, health
  <2>. QED
    BY <2>1, <2>2
<1>. QED
  BY <1>1 DEF IInv

\* While nothing has switched, all it has read and decided agrees with what
\* Reader would answer now.
LEMMA ReadSoFar ==
    ASSUME TypeOK, NEW r \in Requests, RInv(r), pc[r] \in Reading \cup {"idle"},
           r \notin switched
    PROVE  /\ \A i \in DOMAIN used[r] : used[r][i] = Reader(r)
           /\ \A m \in modes[r] : m = Mode
           /\ Reader(r) \in Pools
           /\ window[r] = "none" => Reader(r) = IF Mode = "reduced" THEN "primary" ELSE "replica"
<1>1. used[r] = <<>> \/ \E db \in Pools : used[r] = <<db>> /\ db = Reader(r)
  BY DEF TypeOK, RInv, Course, Choices, Unread, One, Reading, Queries
<1>2. \A i \in DOMAIN used[r] : used[r][i] = Reader(r)
  <2>1. CASE used[r] = <<>>
    BY <2>1
  <2>2. CASE \E db \in Pools : used[r] = <<db>> /\ db = Reader(r)
    BY <2>2
  <2>. QED
    BY <1>1, <2>1, <2>2
<1>3. \A m \in modes[r] : m = Mode
  BY DEF RInv, Course, Reading, Queries
<1>4. Reader(r) \in Pools
  BY DEF Reader, Pools
<1>5. window[r] = "none" => Reader(r) = IF Mode = "reduced" THEN "primary" ELSE "replica"
  BY DEF Reader, ForcePrimary, Mode
<1>. QED
  BY <1>2, <1>3, <1>4, <1>5

\* A query adds a database that agrees, too.
LEMMA OneMoreQuery ==
    ASSUME TypeOK, NEW r \in Requests, RInv(r), pc[r] \in Queries, pool[r] # "none",
           r \notin switched
    PROVE  \A i \in DOMAIN Append(used[r], pool[r]) : Append(used[r], pool[r])[i] = Reader(r)
<1>1. \A i \in DOMAIN used[r] : used[r][i] = Reader(r)
  BY ReadSoFar DEF Reading
<1>2. pool[r] = Reader(r) /\ pool[r] \in Pools /\ used[r] \in Seq(Pools)
  BY DEF TypeOK, RInv, Choices, Reading
<1>. QED
  BY <1>1, <1>2

\* POST /orders begins to read.
LEMMA CompleteIInv ==
    ASSUME IInv, NEW r \in Requests, Complete(r)
    PROVE  IInv'
<1>. USE DEF Complete, Goto
<1>1. TypeOK'
  <2>1. HealthTypeOK'
    BY DEF IInv, TypeOK, health, HealthTypeOK
  <2>. QED
    BY <2>1, ReadAssumption DEF IInv, TypeOK, Queries
<1>2. Growing /\ \A x \in Requests \ {r} : Untouched(x)
  BY ReadAssumption DEF IInv, TypeOK, Growing, Untouched
<1>3. RInv(r) /\ TypeOK
  BY DEF IInv
<1>a. down' = down /\ Mode' = Mode
  BY DEF health, Mode
<1>4. Course(r)'
  BY <1>3, <1>a, ReadAssumption
  DEF TypeOK, RInv, Course, Held, Mode, Unread, One, Reading, Queries
<1>5. Choices(r)'
  BY <1>3, <1>a DEF TypeOK, RInv, Course, Choices, Reader, ForcePrimary, Reading, Queries,
                   Pools, Unread
<1>6. Fresh(r)' /\ Torn(r)' /\ Missing(r)'
  BY <1>3 DEF TypeOK, RInv, Course, Fresh, Torn, Missing
<1>7. OneWorld(r)'
  BY <1>3 DEF TypeOK, RInv, Course, OneWorld, Modes, Unread
<1>. QED
  BY <1>1, <1>2, <1>3, <1>4, <1>5, <1>6, <1>7, StepOfOne DEF RInv, health

\* GET /orders/{id} begins to read.
LEMMA DetailIInv ==
    ASSUME IInv, NEW r \in Requests, Detail(r)
    PROVE  IInv'
<1>. USE DEF Detail, Goto
<1>1. TypeOK'
  <2>1. HealthTypeOK'
    BY DEF IInv, TypeOK, health, HealthTypeOK
  <2>. QED
    BY <2>1, ReadAssumption DEF IInv, TypeOK, Queries
<1>2. Growing /\ \A x \in Requests \ {r} : Untouched(x)
  BY ReadAssumption DEF IInv, TypeOK, Growing, Untouched
<1>3. RInv(r) /\ TypeOK
  BY DEF IInv
<1>a. down' = down /\ Mode' = Mode
  BY DEF health, Mode
<1>4. Course(r)'
  BY <1>3, <1>a, ReadAssumption
  DEF TypeOK, RInv, Course, Held, Mode, Unread, One, Reading, Queries
<1>5. Choices(r)'
  BY <1>3, <1>a DEF TypeOK, RInv, Course, Choices, Reader, ForcePrimary, Reading, Queries,
                   Pools, Unread
<1>6. Fresh(r)' /\ Torn(r)' /\ Missing(r)'
  BY <1>3 DEF TypeOK, RInv, Course, Fresh, Torn, Missing
<1>7. OneWorld(r)'
  BY <1>3 DEF TypeOK, RInv, Course, OneWorld, Modes, Unread
<1>. QED
  BY <1>1, <1>2, <1>3, <1>4, <1>5, <1>6, <1>7, StepOfOne DEF RInv, health

\* RequireAdmin begins to read.
LEMMA AdminIInv ==
    ASSUME IInv, NEW r \in Requests, Admin(r)
    PROVE  IInv'
<1>. USE DEF Admin, Goto
<1>1. TypeOK'
  <2>1. HealthTypeOK'
    BY DEF IInv, TypeOK, health, HealthTypeOK
  <2>. QED
    BY <2>1, ReadAssumption DEF IInv, TypeOK, Queries
<1>2. Growing /\ \A x \in Requests \ {r} : Untouched(x)
  BY ReadAssumption DEF IInv, TypeOK, Growing, Untouched
<1>3. RInv(r) /\ TypeOK
  BY DEF IInv
<1>a. down' = down /\ Mode' = Mode
  BY DEF health, Mode
<1>4. Course(r)'
  BY <1>3, <1>a, ReadAssumption
  DEF TypeOK, RInv, Course, Held, Mode, Unread, One, Reading, Queries
<1>5. Choices(r)'
  BY <1>3, <1>a DEF TypeOK, RInv, Course, Choices, Reader, ForcePrimary, Reading, Queries,
                   Pools, Unread
<1>6. Fresh(r)' /\ Torn(r)' /\ Missing(r)'
  BY <1>3 DEF TypeOK, RInv, Course, Fresh, Torn, Missing
<1>7. OneWorld(r)'
  BY <1>3 DEF TypeOK, RInv, Course, OneWorld, Modes, Unread
<1>. QED
  BY <1>1, <1>2, <1>3, <1>4, <1>5, <1>6, <1>7, StepOfOne DEF RInv, health

\* A page of one query begins.
LEMMA PageIInv ==
    ASSUME IInv, NEW r \in Requests, Page(r)
    PROVE  IInv'
<1>. USE DEF Page, Goto
<1>1. TypeOK'
  <2>1. HealthTypeOK'
    BY DEF IInv, TypeOK, health, HealthTypeOK
  <2>. QED
    BY <2>1, ReadAssumption DEF IInv, TypeOK, Queries
<1>2. Growing /\ \A x \in Requests \ {r} : Untouched(x)
  BY ReadAssumption DEF IInv, TypeOK, Growing, Untouched
<1>3. RInv(r) /\ TypeOK
  BY DEF IInv
<1>a. down' = down /\ Mode' = Mode
  BY DEF health, Mode
<1>4. Course(r)'
  BY <1>3, <1>a, ReadAssumption
  DEF TypeOK, RInv, Course, Held, Mode, Unread, One, Reading, Queries
<1>5. Choices(r)'
  BY <1>3, <1>a DEF TypeOK, RInv, Course, Choices, Reader, ForcePrimary, Reading, Queries,
                   Pools, Unread
<1>6. Fresh(r)' /\ Torn(r)' /\ Missing(r)'
  BY <1>3 DEF TypeOK, RInv, Course, Fresh, Torn, Missing
<1>7. OneWorld(r)'
  BY <1>3 DEF TypeOK, RInv, Course, OneWorld, Modes, Unread
<1>. QED
  BY <1>1, <1>2, <1>3, <1>4, <1>5, <1>6, <1>7, StepOfOne DEF RInv, health

\* The product list begins.
LEMMA ChoosePageSizeIInv ==
    ASSUME IInv, NEW r \in Requests, ChoosePageSize(r)
    PROVE  IInv'
<1>. USE DEF ChoosePageSize, Goto
<1>1. TypeOK'
  <2>1. HealthTypeOK'
    BY DEF IInv, TypeOK, health, HealthTypeOK
  <2>. QED
    BY <2>1, ReadAssumption DEF IInv, TypeOK, Queries, Modes, Mode
<1>2. Growing /\ \A x \in Requests \ {r} : Untouched(x)
  BY ReadAssumption DEF IInv, TypeOK, Growing, Untouched
<1>3. RInv(r) /\ TypeOK
  BY DEF IInv
<1>a. down' = down /\ Mode' = Mode
  BY DEF health, Mode
<1>4. Course(r)'
  BY <1>3, <1>a, ReadAssumption
  DEF TypeOK, RInv, Course, Held, Mode, Unread, One, Reading, Queries
<1>5. Choices(r)'
  BY <1>3, <1>a DEF TypeOK, RInv, Course, Choices, Reader, ForcePrimary, Reading, Queries,
                   Pools, Unread
<1>6. Fresh(r)' /\ Torn(r)' /\ Missing(r)'
  BY <1>3 DEF TypeOK, RInv, Course, Fresh, Torn, Missing
<1>7. OneWorld(r)'
  <2> SUFFICES ASSUME r \notin switched
             PROVE  OneWorld(r)'
    BY DEF OneWorld
  <2>1. /\ used'[r] = used[r]
        /\ \A m \in modes'[r] : m \in modes[r] \/ m = Mode
    BY <1>3 DEF TypeOK
  <2>2. pc[r] \in Reading \cup {"idle"} /\ window[r] = "none"
    BY <1>3 DEF Queries, Reading, RInv, Course
  <2>3. \A i \in DOMAIN used'[r] : used'[r][i] = Reader(r)
    BY <1>3, <2>1, <2>2, ReadSoFar
  <2>4. /\ \A m \in modes'[r] : m = Mode
        /\ Reader(r) \in Pools
        /\ Reader(r) = IF Mode = "reduced" THEN "primary" ELSE "replica"
    BY <1>3, <2>1, <2>2, ReadSoFar
  <2>5. \A i, j \in DOMAIN used'[r] : used'[r][i] = used'[r][j]
    BY <2>3
  <2>6. modes'[r] # Modes
    BY <2>4 DEF Modes
  <2>7. \A i \in DOMAIN used'[r], m \in modes'[r] :
            used'[r][i] = IF m = "reduced" THEN "primary" ELSE "replica"
    <3> SUFFICES ASSUME NEW i \in DOMAIN used'[r], NEW m \in modes'[r]
                 PROVE  used'[r][i] = IF m = "reduced" THEN "primary" ELSE "replica"
      OBVIOUS
    <3>1. used'[r][i] = Reader(r) /\ m = Mode /\ modes'[r] # {}
      BY <2>3, <2>4
    <3>. QED
      BY <3>1, <2>4
  <2>. QED
    BY <2>5, <2>6, <2>7 DEF OneWorld
<1>. QED
  BY <1>1, <1>2, <1>3, <1>4, <1>5, <1>6, <1>7, StepOfOne DEF RInv, health

\* The suggestions are let through or not.
LEMMA SuggestIInv ==
    ASSUME IInv, NEW r \in Requests, Suggest(r)
    PROVE  IInv'
<1>. USE DEF Suggest, Gate, Goto, Answer
<1>1. TypeOK'
  <2>1. HealthTypeOK'
    BY DEF IInv, TypeOK, health, HealthTypeOK
  <2>. QED
    BY <2>1, ReadAssumption DEF IInv, TypeOK, Queries, Modes, Mode
<1>2. Growing /\ \A x \in Requests \ {r} : Untouched(x)
  BY ReadAssumption DEF IInv, TypeOK, Growing, Untouched
<1>3. RInv(r) /\ TypeOK
  BY DEF IInv
<1>a. down' = down /\ Mode' = Mode
  BY DEF health, Mode
<1>4. Course(r)'
  BY <1>3, <1>a, ReadAssumption
  DEF TypeOK, RInv, Course, Held, Mode, Unread, One, Reading, Queries
<1>5. Choices(r)'
  BY <1>3, <1>a DEF TypeOK, RInv, Course, Choices, Reader, ForcePrimary, Reading, Queries,
                   Pools, Unread
<1>6. Fresh(r)' /\ Torn(r)' /\ Missing(r)'
  <2>1. reply'[r] \in {"none", "unavailable"} /\ window'[r] = "none"
    BY <1>3 DEF TypeOK, RInv, Course, Reading, Queries
  <2>. QED
    BY <2>1 DEF Fresh, Torn, Missing
<1>7. OneWorld(r)'
  <2> SUFFICES ASSUME r \notin switched
             PROVE  OneWorld(r)'
    BY DEF OneWorld
  <2>1. /\ used'[r] = used[r]
        /\ \A m \in modes'[r] : m \in modes[r] \/ m = Mode
    BY <1>3 DEF TypeOK
  <2>2. pc[r] \in Reading \cup {"idle"} /\ window[r] = "none"
    BY <1>3 DEF Queries, Reading, RInv, Course
  <2>3. \A i \in DOMAIN used'[r] : used'[r][i] = Reader(r)
    BY <1>3, <2>1, <2>2, ReadSoFar
  <2>4. /\ \A m \in modes'[r] : m = Mode
        /\ Reader(r) \in Pools
        /\ Reader(r) = IF Mode = "reduced" THEN "primary" ELSE "replica"
    BY <1>3, <2>1, <2>2, ReadSoFar
  <2>5. \A i, j \in DOMAIN used'[r] : used'[r][i] = used'[r][j]
    BY <2>3
  <2>6. modes'[r] # Modes
    BY <2>4 DEF Modes
  <2>7. \A i \in DOMAIN used'[r], m \in modes'[r] :
            used'[r][i] = IF m = "reduced" THEN "primary" ELSE "replica"
    <3> SUFFICES ASSUME NEW i \in DOMAIN used'[r], NEW m \in modes'[r]
                 PROVE  used'[r][i] = IF m = "reduced" THEN "primary" ELSE "replica"
      OBVIOUS
    <3>1. used'[r][i] = Reader(r) /\ m = Mode /\ modes'[r] # {}
      BY <2>3, <2>4
    <3>. QED
      BY <3>1, <2>4
  <2>. QED
    BY <2>5, <2>6, <2>7 DEF OneWorld
<1>. QED
  BY <1>1, <1>2, <1>3, <1>4, <1>5, <1>6, <1>7, StepOfOne DEF RInv, health

\* An empty search is let through or not.
LEMMA EmptySearchIInv ==
    ASSUME IInv, NEW r \in Requests, EmptySearch(r)
    PROVE  IInv'
<1>. USE DEF EmptySearch, Goto, Answer
<1>1. TypeOK'
  <2>1. HealthTypeOK'
    BY DEF IInv, TypeOK, health, HealthTypeOK
  <2>. QED
    BY <2>1, ReadAssumption DEF IInv, TypeOK, Queries, Modes, Mode
<1>2. Growing /\ \A x \in Requests \ {r} : Untouched(x)
  BY ReadAssumption DEF IInv, TypeOK, Growing, Untouched
<1>3. RInv(r) /\ TypeOK
  BY DEF IInv
<1>a. down' = down /\ Mode' = Mode
  BY DEF health, Mode
<1>4. Course(r)'
  BY <1>3, <1>a, ReadAssumption
  DEF TypeOK, RInv, Course, Held, Mode, Unread, One, Reading, Queries
<1>5. Choices(r)'
  BY <1>3, <1>a DEF TypeOK, RInv, Course, Choices, Reader, ForcePrimary, Reading, Queries,
                   Pools, Unread
<1>6. Fresh(r)' /\ Torn(r)' /\ Missing(r)'
  <2>1. reply'[r] \in {"page", "unavailable"} /\ window'[r] = "none"
    BY <1>3 DEF TypeOK, RInv, Course, Reading, Queries
  <2>. QED
    BY <2>1 DEF Fresh, Torn, Missing
<1>7. OneWorld(r)'
  <2> SUFFICES ASSUME r \notin switched
             PROVE  OneWorld(r)'
    BY DEF OneWorld
  <2>1. /\ used'[r] = used[r]
        /\ \A m \in modes'[r] : m \in modes[r] \/ m = Mode
    BY <1>3 DEF TypeOK
  <2>2. pc[r] \in Reading \cup {"idle"} /\ window[r] = "none"
    BY <1>3 DEF Queries, Reading, RInv, Course
  <2>3. \A i \in DOMAIN used'[r] : used'[r][i] = Reader(r)
    BY <1>3, <2>1, <2>2, ReadSoFar
  <2>4. /\ \A m \in modes'[r] : m = Mode
        /\ Reader(r) \in Pools
        /\ Reader(r) = IF Mode = "reduced" THEN "primary" ELSE "replica"
    BY <1>3, <2>1, <2>2, ReadSoFar
  <2>5. \A i, j \in DOMAIN used'[r] : used'[r][i] = used'[r][j]
    BY <2>3
  <2>6. modes'[r] # Modes
    BY <2>4 DEF Modes
  <2>7. \A i \in DOMAIN used'[r], m \in modes'[r] :
            used'[r][i] = IF m = "reduced" THEN "primary" ELSE "replica"
    <3> SUFFICES ASSUME NEW i \in DOMAIN used'[r], NEW m \in modes'[r]
                 PROVE  used'[r][i] = IF m = "reduced" THEN "primary" ELSE "replica"
      OBVIOUS
    <3>1. used'[r][i] = Reader(r) /\ m = Mode /\ modes'[r] # {}
      BY <2>3, <2>4
    <3>. QED
      BY <3>1, <2>4
  <2>. QED
    BY <2>5, <2>6, <2>7 DEF OneWorld
<1>. QED
  BY <1>1, <1>2, <1>3, <1>4, <1>5, <1>6, <1>7, StepOfOne DEF RInv, health

\* The report is let through or not.
LEMMA ReportIInv ==
    ASSUME IInv, NEW r \in Requests, Report(r)
    PROVE  IInv'
<1>. USE DEF Report, Gate, Goto, Answer
<1>1. TypeOK'
  <2>1. HealthTypeOK'
    BY DEF IInv, TypeOK, health, HealthTypeOK
  <2>. QED
    BY <2>1, ReadAssumption DEF IInv, TypeOK, Queries, Modes, Mode
<1>2. Growing /\ \A x \in Requests \ {r} : Untouched(x)
  BY ReadAssumption DEF IInv, TypeOK, Growing, Untouched
<1>3. RInv(r) /\ TypeOK
  BY DEF IInv
<1>a. down' = down /\ Mode' = Mode
  BY DEF health, Mode
<1>4. Course(r)'
  BY <1>3, <1>a, ReadAssumption
  DEF TypeOK, RInv, Course, Held, Mode, Unread, One, Reading, Queries
<1>5. Choices(r)'
  BY <1>3, <1>a DEF TypeOK, RInv, Course, Choices, Reader, ForcePrimary, Reading, Queries,
                   Pools, Unread
<1>6. Fresh(r)' /\ Torn(r)' /\ Missing(r)'
  <2>1. reply'[r] \in {"none", "unavailable"} /\ window'[r] = "none"
    BY <1>3 DEF TypeOK, RInv, Course, Reading, Queries
  <2>. QED
    BY <2>1 DEF Fresh, Torn, Missing
<1>7. OneWorld(r)'
  <2> SUFFICES ASSUME r \notin switched
             PROVE  OneWorld(r)'
    BY DEF OneWorld
  <2>1. /\ used'[r] = used[r]
        /\ \A m \in modes'[r] : m \in modes[r] \/ m = Mode
    BY <1>3 DEF TypeOK
  <2>2. pc[r] \in Reading \cup {"idle"} /\ window[r] = "none"
    BY <1>3 DEF Queries, Reading, RInv, Course
  <2>3. \A i \in DOMAIN used'[r] : used'[r][i] = Reader(r)
    BY <1>3, <2>1, <2>2, ReadSoFar
  <2>4. /\ \A m \in modes'[r] : m = Mode
        /\ Reader(r) \in Pools
        /\ Reader(r) = IF Mode = "reduced" THEN "primary" ELSE "replica"
    BY <1>3, <2>1, <2>2, ReadSoFar
  <2>5. \A i, j \in DOMAIN used'[r] : used'[r][i] = used'[r][j]
    BY <2>3
  <2>6. modes'[r] # Modes
    BY <2>4 DEF Modes
  <2>7. \A i \in DOMAIN used'[r], m \in modes'[r] :
            used'[r][i] = IF m = "reduced" THEN "primary" ELSE "replica"
    <3> SUFFICES ASSUME NEW i \in DOMAIN used'[r], NEW m \in modes'[r]
                 PROVE  used'[r][i] = IF m = "reduced" THEN "primary" ELSE "replica"
      OBVIOUS
    <3>1. used'[r][i] = Reader(r) /\ m = Mode /\ modes'[r] # {}
      BY <2>3, <2>4
    <3>. QED
      BY <3>1, <2>4
  <2>. QED
    BY <2>5, <2>6, <2>7 DEF OneWorld
<1>. QED
  BY <1>1, <1>2, <1>3, <1>4, <1>5, <1>6, <1>7, StepOfOne DEF RInv, health

\* A database is chosen.
LEMMA RouteIInv ==
    ASSUME IInv, NEW r \in Requests, Route(r)
    PROVE  IInv'
<1>. USE DEF Route
<1>1. TypeOK'
  <2>1. HealthTypeOK'
    BY DEF IInv, TypeOK, health, HealthTypeOK
  <2>. QED
    BY <2>1, ReadAssumption DEF IInv, TypeOK, Queries, Reader, Pools
<1>2. Growing /\ \A x \in Requests \ {r} : Untouched(x)
  BY ReadAssumption DEF IInv, TypeOK, Growing, Untouched
<1>3. RInv(r) /\ TypeOK
  BY DEF IInv
<1>a. down' = down /\ Mode' = Mode
  BY DEF health, Mode
<1>4. Course(r)'
  BY <1>3, <1>a, ReadAssumption
  DEF TypeOK, RInv, Course, Held, Mode, Unread, One, Reading, Queries
<1>5. Choices(r)'
  BY <1>3, <1>a DEF TypeOK, RInv, Course, Choices, Reader, ForcePrimary, Reading, Queries,
                   Pools, Unread
<1>6. Fresh(r)' /\ Torn(r)' /\ Missing(r)'
  BY <1>3 DEF TypeOK, RInv, Course, Fresh, Torn, Missing
<1>7. OneWorld(r)'
  BY <1>3 DEF TypeOK, RInv, Course, OneWorld, Modes, Unread
<1>. QED
  BY <1>1, <1>2, <1>3, <1>4, <1>5, <1>6, <1>7, StepOfOne DEF RInv, health

\* What a second query leaves in used.
LEMMA TwoQueries ==
    ASSUME NEW S, NEW a \in S, NEW b \in S
    PROVE  Append(<<a>>, b) = <<a, b>>
<1>1. <<a>> \in Seq(S) /\ <<a, b>> \in Seq(S) /\ Len(<<a, b>>) = 2
  OBVIOUS
<1>2. Append(<<a>>, b) \in Seq(S) /\ Len(Append(<<a>>, b)) = 2
  BY <1>1
<1>3. \A i \in 1..2 : Append(<<a>>, b)[i] = <<a, b>>[i]
  BY <1>1
<1>. QED
  BY <1>1, <1>2, <1>3, SeqEqual

\* The row of orders is read.
LEMMA FindHeadIInv ==
    ASSUME IInv, NEW r \in Requests, FindHead(r)
    PROVE  IInv'
<1>. USE DEF FindHead, Query, Goto, Answer
<1>1. TypeOK'
  <2>1. HealthTypeOK'
    BY DEF IInv, TypeOK, health, HealthTypeOK
  <2>2. \E next \in {"items", "done"} : pc' = [pc EXCEPT ![r] = next]
    BY Zenon
  <2>3. reply'[r] \in {reply[r], "missing"} /\ reply' = [reply EXCEPT ![r] = reply'[r]]
    BY DEF IInv, TypeOK
  <2>4. pc' \in [Requests -> {"idle", "gate", "render", "done"} \cup Queries]
    BY <2>2 DEF IInv, TypeOK, Queries
  <2>5. reply' \in [Requests -> {"none", "whole", "bare", "missing", "report", "page",
                                "unavailable", "error"}]
    BY <2>3 DEF IInv, TypeOK
  <2>6. used' \in [Requests -> Seq(Pools)] /\ pool' \in [Requests -> Pools \cup {"none"}]
    BY DEF IInv, TypeOK, Pools
  <2>. QED
    BY <2>1, <2>4, <2>5, <2>6, ReadAssumption DEF IInv, TypeOK
<1>2. Growing /\ \A x \in Requests \ {r} : Untouched(x)
  BY ReadAssumption DEF IInv, TypeOK, Growing, Untouched
<1>3. RInv(r) /\ TypeOK
  BY DEF IInv
<1>a. down' = down /\ Mode' = Mode
  BY DEF health, Mode
<1>b. used'[r] = <<pool[r]>> /\ pool[r] \in Pools /\ window'[r] = window[r]
      /\ modes'[r] = {} /\ target'[r] = target[r] /\ target[r] <= committed
      /\ committed' = committed /\ applied' = applied /\ reply[r] = "none"
  BY <1>3 DEF TypeOK, RInv, Course, Unread
<1>c. Visible(r) => pc'[r] = "items" /\ reply'[r] = "none" /\ Held(r, pool[r])
  BY <1>3, <1>b DEF TypeOK, Visible, Held
<1>d. ~Visible(r) => pc'[r] = "done" /\ reply'[r] = "missing" /\ pool[r] = "replica"
  BY <1>3, <1>b DEF TypeOK, Visible, Pools
<1>e. window[r] = "open" => pool[r] = "primary"
  BY <1>3 DEF RInv, Choices, Reading, Queries
<1>4. Course(r)'
  BY <1>b, <1>c, <1>d DEF Course, Held, One, Reading, Queries
<1>5. Choices(r)'
  BY <1>3, <1>a DEF TypeOK, RInv, Course, Choices, Reader, ForcePrimary, Reading, Queries,
                   Pools, Unread
<1>6. Fresh(r)' /\ Torn(r)' /\ Missing(r)'
  <2>1. CASE Visible(r)
    BY <1>c, <2>1 DEF Fresh, Torn, Missing
  <2>2. CASE ~Visible(r)
    BY <1>b, <1>d, <1>e, <2>2 DEF Fresh, Torn, Missing
  <2>. QED
    BY <2>1, <2>2
<1>7. OneWorld(r)'
  BY <1>3 DEF TypeOK, RInv, Course, OneWorld, Modes, Unread
<1>. QED
  BY <1>1, <1>2, <1>3, <1>4, <1>5, <1>6, <1>7, StepOfOne DEF RInv, health

\* The order_items are read.
LEMMA FindItemsIInv ==
    ASSUME IInv, NEW r \in Requests, FindItems(r)
    PROVE  IInv'
<1>. USE DEF FindItems, Query, Goto, Answer
<1>1. TypeOK'
  <2>1. HealthTypeOK'
    BY DEF IInv, TypeOK, health, HealthTypeOK
  <2>. QED
    BY <2>1, ReadAssumption DEF IInv, TypeOK, Queries, Pools
<1>2. Growing /\ \A x \in Requests \ {r} : Untouched(x)
  BY ReadAssumption DEF IInv, TypeOK, Growing, Untouched
<1>3. RInv(r) /\ TypeOK
  BY DEF IInv
<1>a. down' = down /\ Mode' = Mode
  BY DEF health, Mode
<1>b. PICK db \in Pools : used[r] = <<db>> /\ Held(r, db)
  BY <1>3 DEF RInv, Course
<1>c. used'[r] = <<db, pool[r]>> /\ pool[r] \in Pools
  <2>1. used'[r] = Append(used[r], pool[r]) /\ pool[r] \in Pools
    BY <1>3 DEF TypeOK
  <2>2. Append(<<db>>, pool[r]) = <<db, pool[r]>>
    BY <2>1, TwoQueries
  <2>. QED
    BY <1>b, <2>1, <2>2, Zenon
<1>d. /\ window[r] = "open" => pool[r] = "primary"
      /\ r \notin switched => pool[r] = db
  BY <1>3, <1>b DEF RInv, Choices, Reading, Queries
<1>e. target[r] <= committed /\ applied <= committed /\ committed \in Nat /\ applied \in Nat
      /\ target[r] \in Nat
  BY <1>3, ReadAssumption DEF TypeOK, RInv, Course
<1>f. ~Visible(r) => db = "primary" /\ pool[r] = "replica"
  BY <1>b, <1>c, <1>e DEF Visible, Held, Pools
<1>g. reply'[r] = IF Visible(r) THEN "whole" ELSE "bare"
  BY <1>3 DEF TypeOK
<1>4. Course(r)'
  BY <1>3, <1>a, ReadAssumption
  DEF TypeOK, RInv, Course, Held, Mode, Unread, One, Reading, Queries
<1>5. Choices(r)'
  BY <1>3, <1>a DEF TypeOK, RInv, Course, Choices, Reader, ForcePrimary, Reading, Queries,
                   Pools, Unread
<1>6. Fresh(r)' /\ Torn(r)' /\ Missing(r)'
  BY <1>c, <1>d, <1>f, <1>g DEF Fresh, Torn, Missing
<1>7. OneWorld(r)'
  <2> SUFFICES ASSUME r \notin switched
             PROVE  OneWorld(r)'
    BY DEF OneWorld
  <2>1. used'[r] = Append(used[r], pool[r]) /\ modes'[r] = modes[r]
    BY <1>3 DEF TypeOK
  <2>2. pc[r] \in Queries /\ pool[r] # "none" /\ (modes[r] # {} => window[r] = "none")
    BY <1>3 DEF Queries, Reading, RInv, Course
  <2>3. \A i \in DOMAIN used'[r] : used'[r][i] = Reader(r)
    BY <1>3, <2>1, <2>2, OneMoreQuery
  <2>4. /\ \A m \in modes'[r] : m = Mode
        /\ Reader(r) \in Pools
        /\ modes'[r] # {} => Reader(r) = IF Mode = "reduced" THEN "primary" ELSE "replica"
    BY <1>3, <2>1, <2>2, ReadSoFar DEF Reading
  <2>5. \A i, j \in DOMAIN used'[r] : used'[r][i] = used'[r][j]
    BY <2>3
  <2>6. modes'[r] # Modes
    BY <2>4 DEF Modes
  <2>7. \A i \in DOMAIN used'[r], m \in modes'[r] :
            used'[r][i] = IF m = "reduced" THEN "primary" ELSE "replica"
    <3> SUFFICES ASSUME NEW i \in DOMAIN used'[r], NEW m \in modes'[r]
                 PROVE  used'[r][i] = IF m = "reduced" THEN "primary" ELSE "replica"
      OBVIOUS
    <3>1. used'[r][i] = Reader(r) /\ m = Mode /\ modes'[r] # {}
      BY <2>3, <2>4
    <3>. QED
      BY <3>1, <2>4
  <2>. QED
    BY <2>5, <2>6, <2>7 DEF OneWorld
<1>. QED
  BY <1>1, <1>2, <1>3, <1>4, <1>5, <1>6, <1>7, StepOfOne DEF RInv, health

\* The account of the administrator is read.
LEMMA FindAdminIInv ==
    ASSUME IInv, NEW r \in Requests, FindAdmin(r)
    PROVE  IInv'
<1>. USE DEF FindAdmin, Query, Goto, Answer
<1>1. TypeOK'
  <2>1. HealthTypeOK'
    BY DEF IInv, TypeOK, health, HealthTypeOK
  <2>2. \E next \in {"gate", "done"} : pc' = [pc EXCEPT ![r] = next]
    BY Zenon
  <2>3. reply'[r] \in {reply[r], "missing"} /\ reply' = [reply EXCEPT ![r] = reply'[r]]
    BY DEF IInv, TypeOK
  <2>4. pc' \in [Requests -> {"idle", "gate", "render", "done"} \cup Queries]
    BY <2>2 DEF IInv, TypeOK, Queries
  <2>5. reply' \in [Requests -> {"none", "whole", "bare", "missing", "report", "page",
                                "unavailable", "error"}]
    BY <2>3 DEF IInv, TypeOK
  <2>6. used' \in [Requests -> Seq(Pools)] /\ pool' \in [Requests -> Pools \cup {"none"}]
    BY DEF IInv, TypeOK, Pools
  <2>. QED
    BY <2>1, <2>4, <2>5, <2>6, ReadAssumption DEF IInv, TypeOK
<1>2. Growing /\ \A x \in Requests \ {r} : Untouched(x)
  BY ReadAssumption DEF IInv, TypeOK, Growing, Untouched
<1>3. RInv(r) /\ TypeOK
  BY DEF IInv
<1>a. down' = down /\ Mode' = Mode
  BY DEF health, Mode
<1>b. used'[r] = <<pool[r]>> /\ pool[r] \in Pools /\ window'[r] = window[r]
      /\ modes'[r] = {} /\ target'[r] = target[r] /\ target[r] <= committed
      /\ committed' = committed /\ applied' = applied /\ reply[r] = "none"
  BY <1>3 DEF TypeOK, RInv, Course, Unread
<1>c. Visible(r) => pc'[r] = "gate" /\ reply'[r] = "none" /\ Held(r, pool[r])
  BY <1>3, <1>b DEF TypeOK, Visible, Held
<1>d. ~Visible(r) => pc'[r] = "done" /\ reply'[r] = "missing" /\ pool[r] = "replica"
  BY <1>3, <1>b DEF TypeOK, Visible, Pools
<1>e. window[r] = "open" => pool[r] = "primary"
  BY <1>3 DEF RInv, Choices, Reading, Queries
<1>4. Course(r)'
  <2>1. window[r] = "none"
    BY <1>3 DEF RInv, Course, Reading, Queries
  <2>. QED
    BY <1>b, <1>c, <1>d, <2>1 DEF Course, Held, One, Reading, Queries
<1>5. Choices(r)'
  BY <1>3, <1>a DEF TypeOK, RInv, Course, Choices, Reader, ForcePrimary, Reading, Queries,
                   Pools, Unread
<1>6. Fresh(r)' /\ Torn(r)' /\ Missing(r)'
  <2>1. CASE Visible(r)
    BY <1>c, <2>1 DEF Fresh, Torn, Missing
  <2>2. CASE ~Visible(r)
    BY <1>b, <1>d, <1>e, <2>2 DEF Fresh, Torn, Missing
  <2>. QED
    BY <2>1, <2>2
<1>7. OneWorld(r)'
  BY <1>3 DEF TypeOK, RInv, Course, OneWorld, Modes, Unread
<1>. QED
  BY <1>1, <1>2, <1>3, <1>4, <1>5, <1>6, <1>7, StepOfOne DEF RInv, health

\* The report is read.
LEMMA FetchReportIInv ==
    ASSUME IInv, NEW r \in Requests, FetchReport(r)
    PROVE  IInv'
<1>. USE DEF FetchReport, Query, Goto, Answer
<1>1. TypeOK'
  <2>1. HealthTypeOK'
    BY DEF IInv, TypeOK, health, HealthTypeOK
  <2>. QED
    BY <2>1, ReadAssumption DEF IInv, TypeOK, Queries, Pools
<1>2. Growing /\ \A x \in Requests \ {r} : Untouched(x)
  BY ReadAssumption DEF IInv, TypeOK, Growing, Untouched
<1>3. RInv(r) /\ TypeOK
  BY DEF IInv
<1>a. down' = down /\ Mode' = Mode
  BY DEF health, Mode
<1>4. Course(r)'
  BY <1>3, <1>a, ReadAssumption
  DEF TypeOK, RInv, Course, Held, Mode, Unread, One, Reading, Queries
<1>5. Choices(r)'
  BY <1>3, <1>a DEF TypeOK, RInv, Course, Choices, Reader, ForcePrimary, Reading, Queries,
                   Pools, Unread
<1>6. Fresh(r)' /\ Torn(r)' /\ Missing(r)'
  <2>1. reply'[r] \in {"report"} /\ window'[r] = "none"
    BY <1>3 DEF TypeOK, RInv, Course, Reading, Queries
  <2>. QED
    BY <2>1 DEF Fresh, Torn, Missing
<1>7. OneWorld(r)'
  <2> SUFFICES ASSUME r \notin switched
             PROVE  OneWorld(r)'
    BY DEF OneWorld
  <2>1. used'[r] = Append(used[r], pool[r]) /\ modes'[r] = modes[r]
    BY <1>3 DEF TypeOK
  <2>2. pc[r] \in Queries /\ pool[r] # "none" /\ (modes[r] # {} => window[r] = "none")
    BY <1>3 DEF Queries, Reading, RInv, Course
  <2>3. \A i \in DOMAIN used'[r] : used'[r][i] = Reader(r)
    BY <1>3, <2>1, <2>2, OneMoreQuery
  <2>4. /\ \A m \in modes'[r] : m = Mode
        /\ Reader(r) \in Pools
        /\ modes'[r] # {} => Reader(r) = IF Mode = "reduced" THEN "primary" ELSE "replica"
    BY <1>3, <2>1, <2>2, ReadSoFar DEF Reading
  <2>5. \A i, j \in DOMAIN used'[r] : used'[r][i] = used'[r][j]
    BY <2>3
  <2>6. modes'[r] # Modes
    BY <2>4 DEF Modes
  <2>7. \A i \in DOMAIN used'[r], m \in modes'[r] :
            used'[r][i] = IF m = "reduced" THEN "primary" ELSE "replica"
    <3> SUFFICES ASSUME NEW i \in DOMAIN used'[r], NEW m \in modes'[r]
                 PROVE  used'[r][i] = IF m = "reduced" THEN "primary" ELSE "replica"
      OBVIOUS
    <3>1. used'[r][i] = Reader(r) /\ m = Mode /\ modes'[r] # {}
      BY <2>3, <2>4
    <3>. QED
      BY <3>1, <2>4
  <2>. QED
    BY <2>5, <2>6, <2>7 DEF OneWorld
<1>. QED
  BY <1>1, <1>2, <1>3, <1>4, <1>5, <1>6, <1>7, StepOfOne DEF RInv, health

\* The suggestions, a product or the history are read.
LEMMA FetchPageIInv ==
    ASSUME IInv, NEW r \in Requests, FetchPage(r)
    PROVE  IInv'
<1>. USE DEF FetchPage, Query, Goto, Answer
<1>1. TypeOK'
  <2>1. HealthTypeOK'
    BY DEF IInv, TypeOK, health, HealthTypeOK
  <2>. QED
    BY <2>1, ReadAssumption DEF IInv, TypeOK, Queries, Pools
<1>2. Growing /\ \A x \in Requests \ {r} : Untouched(x)
  BY ReadAssumption DEF IInv, TypeOK, Growing, Untouched
<1>3. RInv(r) /\ TypeOK
  BY DEF IInv
<1>a. down' = down /\ Mode' = Mode
  BY DEF health, Mode
<1>4. Course(r)'
  BY <1>3, <1>a, ReadAssumption
  DEF TypeOK, RInv, Course, Held, Mode, Unread, One, Reading, Queries
<1>5. Choices(r)'
  BY <1>3, <1>a DEF TypeOK, RInv, Course, Choices, Reader, ForcePrimary, Reading, Queries,
                   Pools, Unread
<1>6. Fresh(r)' /\ Torn(r)' /\ Missing(r)'
  <2>1. reply'[r] \in {"page"} /\ window'[r] = "none"
    BY <1>3 DEF TypeOK, RInv, Course, Reading, Queries
  <2>. QED
    BY <2>1 DEF Fresh, Torn, Missing
<1>7. OneWorld(r)'
  <2> SUFFICES ASSUME r \notin switched
             PROVE  OneWorld(r)'
    BY DEF OneWorld
  <2>1. used'[r] = Append(used[r], pool[r]) /\ modes'[r] = modes[r]
    BY <1>3 DEF TypeOK
  <2>2. pc[r] \in Queries /\ pool[r] # "none" /\ (modes[r] # {} => window[r] = "none")
    BY <1>3 DEF Queries, Reading, RInv, Course
  <2>3. \A i \in DOMAIN used'[r] : used'[r][i] = Reader(r)
    BY <1>3, <2>1, <2>2, OneMoreQuery
  <2>4. /\ \A m \in modes'[r] : m = Mode
        /\ Reader(r) \in Pools
        /\ modes'[r] # {} => Reader(r) = IF Mode = "reduced" THEN "primary" ELSE "replica"
    BY <1>3, <2>1, <2>2, ReadSoFar DEF Reading
  <2>5. \A i, j \in DOMAIN used'[r] : used'[r][i] = used'[r][j]
    BY <2>3
  <2>6. modes'[r] # Modes
    BY <2>4 DEF Modes
  <2>7. \A i \in DOMAIN used'[r], m \in modes'[r] :
            used'[r][i] = IF m = "reduced" THEN "primary" ELSE "replica"
    <3> SUFFICES ASSUME NEW i \in DOMAIN used'[r], NEW m \in modes'[r]
                 PROVE  used'[r][i] = IF m = "reduced" THEN "primary" ELSE "replica"
      OBVIOUS
    <3>1. used'[r][i] = Reader(r) /\ m = Mode /\ modes'[r] # {}
      BY <2>3, <2>4
    <3>. QED
      BY <3>1, <2>4
  <2>. QED
    BY <2>5, <2>6, <2>7 DEF OneWorld
<1>. QED
  BY <1>1, <1>2, <1>3, <1>4, <1>5, <1>6, <1>7, StepOfOne DEF RInv, health

\* The product list is read.
LEMMA FetchProductsIInv ==
    ASSUME IInv, NEW r \in Requests, FetchProducts(r)
    PROVE  IInv'
<1>. USE DEF FetchProducts, Query, Goto
<1>1. TypeOK'
  <2>1. HealthTypeOK'
    BY DEF IInv, TypeOK, health, HealthTypeOK
  <2>. QED
    BY <2>1, ReadAssumption DEF IInv, TypeOK, Queries, Pools
<1>2. Growing /\ \A x \in Requests \ {r} : Untouched(x)
  BY ReadAssumption DEF IInv, TypeOK, Growing, Untouched
<1>3. RInv(r) /\ TypeOK
  BY DEF IInv
<1>a. down' = down /\ Mode' = Mode
  BY DEF health, Mode
<1>4. Course(r)'
  BY <1>3, <1>a, ReadAssumption
  DEF TypeOK, RInv, Course, Held, Mode, Unread, One, Reading, Queries
<1>5. Choices(r)'
  BY <1>3, <1>a DEF TypeOK, RInv, Course, Choices, Reader, ForcePrimary, Reading, Queries,
                   Pools, Unread
<1>6. Fresh(r)' /\ Torn(r)' /\ Missing(r)'
  BY <1>3 DEF TypeOK, RInv, Course, Fresh, Torn, Missing
<1>7. OneWorld(r)'
  <2> SUFFICES ASSUME r \notin switched
             PROVE  OneWorld(r)'
    BY DEF OneWorld
  <2>1. used'[r] = Append(used[r], pool[r]) /\ modes'[r] = modes[r]
    BY <1>3 DEF TypeOK
  <2>2. pc[r] \in Queries /\ pool[r] # "none" /\ (modes[r] # {} => window[r] = "none")
    BY <1>3 DEF Queries, Reading, RInv, Course
  <2>3. \A i \in DOMAIN used'[r] : used'[r][i] = Reader(r)
    BY <1>3, <2>1, <2>2, OneMoreQuery
  <2>4. /\ \A m \in modes'[r] : m = Mode
        /\ Reader(r) \in Pools
        /\ modes'[r] # {} => Reader(r) = IF Mode = "reduced" THEN "primary" ELSE "replica"
    BY <1>3, <2>1, <2>2, ReadSoFar DEF Reading
  <2>5. \A i, j \in DOMAIN used'[r] : used'[r][i] = used'[r][j]
    BY <2>3
  <2>6. modes'[r] # Modes
    BY <2>4 DEF Modes
  <2>7. \A i \in DOMAIN used'[r], m \in modes'[r] :
            used'[r][i] = IF m = "reduced" THEN "primary" ELSE "replica"
    <3> SUFFICES ASSUME NEW i \in DOMAIN used'[r], NEW m \in modes'[r]
                 PROVE  used'[r][i] = IF m = "reduced" THEN "primary" ELSE "replica"
      OBVIOUS
    <3>1. used'[r][i] = Reader(r) /\ m = Mode /\ modes'[r] # {}
      BY <2>3, <2>4
    <3>. QED
      BY <3>1, <2>4
  <2>. QED
    BY <2>5, <2>6, <2>7 DEF OneWorld
<1>. QED
  BY <1>1, <1>2, <1>3, <1>4, <1>5, <1>6, <1>7, StepOfOne DEF RInv, health

\* The product list is rendered.
LEMMA RenderHomeIInv ==
    ASSUME IInv, NEW r \in Requests, RenderHome(r)
    PROVE  IInv'
<1>. USE DEF RenderHome, Goto, Answer
<1>1. TypeOK'
  <2>1. HealthTypeOK'
    BY DEF IInv, TypeOK, health, HealthTypeOK
  <2>. QED
    BY <2>1, ReadAssumption DEF IInv, TypeOK, Queries, Modes, Mode
<1>2. Growing /\ \A x \in Requests \ {r} : Untouched(x)
  BY ReadAssumption DEF IInv, TypeOK, Growing, Untouched
<1>3. RInv(r) /\ TypeOK
  BY DEF IInv
<1>a. down' = down /\ Mode' = Mode
  BY DEF health, Mode
<1>4. Course(r)'
  BY <1>3, <1>a, ReadAssumption
  DEF TypeOK, RInv, Course, Held, Mode, Unread, One, Reading, Queries
<1>5. Choices(r)'
  BY <1>3, <1>a DEF TypeOK, RInv, Course, Choices, Reader, ForcePrimary, Reading, Queries,
                   Pools, Unread
<1>6. Fresh(r)' /\ Torn(r)' /\ Missing(r)'
  <2>1. reply'[r] \in {"page"} /\ window'[r] = "none"
    BY <1>3 DEF TypeOK, RInv, Course, Reading, Queries
  <2>. QED
    BY <2>1 DEF Fresh, Torn, Missing
<1>7. OneWorld(r)'
  <2> SUFFICES ASSUME r \notin switched
             PROVE  OneWorld(r)'
    BY DEF OneWorld
  <2>1. /\ used'[r] = used[r]
        /\ \A m \in modes'[r] : m \in modes[r] \/ m = Mode
    BY <1>3 DEF TypeOK
  <2>2. pc[r] \in Reading \cup {"idle"} /\ window[r] = "none"
    BY <1>3 DEF Queries, Reading, RInv, Course
  <2>3. \A i \in DOMAIN used'[r] : used'[r][i] = Reader(r)
    BY <1>3, <2>1, <2>2, ReadSoFar
  <2>4. /\ \A m \in modes'[r] : m = Mode
        /\ Reader(r) \in Pools
        /\ Reader(r) = IF Mode = "reduced" THEN "primary" ELSE "replica"
    BY <1>3, <2>1, <2>2, ReadSoFar
  <2>5. \A i, j \in DOMAIN used'[r] : used'[r][i] = used'[r][j]
    BY <2>3
  <2>6. modes'[r] # Modes
    BY <2>4 DEF Modes
  <2>7. \A i \in DOMAIN used'[r], m \in modes'[r] :
            used'[r][i] = IF m = "reduced" THEN "primary" ELSE "replica"
    <3> SUFFICES ASSUME NEW i \in DOMAIN used'[r], NEW m \in modes'[r]
                 PROVE  used'[r][i] = IF m = "reduced" THEN "primary" ELSE "replica"
      OBVIOUS
    <3>1. used'[r][i] = Reader(r) /\ m = Mode /\ modes'[r] # {}
      BY <2>3, <2>4
    <3>. QED
      BY <3>1, <2>4
  <2>. QED
    BY <2>5, <2>6, <2>7 DEF OneWorld
<1>. QED
  BY <1>1, <1>2, <1>3, <1>4, <1>5, <1>6, <1>7, StepOfOne DEF RInv, health

\* A query fails.
LEMMA QueryFailsIInv ==
    ASSUME IInv, NEW r \in Requests, QueryFails(r)
    PROVE  IInv'
<1>. USE DEF QueryFails, Goto, Answer
<1>1. TypeOK'
  <2>1. HealthTypeOK'
    BY DEF IInv, TypeOK, health, HealthTypeOK
  <2>. QED
    BY <2>1, ReadAssumption DEF IInv, TypeOK, Queries
<1>2. Growing /\ \A x \in Requests \ {r} : Untouched(x)
  BY ReadAssumption DEF IInv, TypeOK, Growing, Untouched
<1>3. RInv(r) /\ TypeOK
  BY DEF IInv
<1>a. down' = down /\ Mode' = Mode
  BY DEF health, Mode
<1>4. Course(r)'
  BY <1>3, <1>a, ReadAssumption
  DEF TypeOK, RInv, Course, Held, Mode, Unread, One, Reading, Queries
<1>5. Choices(r)'
  BY <1>3, <1>a DEF TypeOK, RInv, Course, Choices, Reader, ForcePrimary, Reading, Queries,
                   Pools, Unread
<1>6. Fresh(r)' /\ Torn(r)' /\ Missing(r)'
  BY <1>3 DEF TypeOK, RInv, Course, Fresh, Torn, Missing
<1>7. OneWorld(r)'
  BY <1>3 DEF TypeOK, RInv, Course, OneWorld, Modes, Unread
<1>. QED
  BY <1>1, <1>2, <1>3, <1>4, <1>5, <1>6, <1>7, StepOfOne DEF RInv, health

\* A window runs out.
LEMMA WindowEndsIInv ==
    ASSUME IInv, NEW r \in Requests, WindowEnds(r)
    PROVE  IInv'
<1>. USE DEF WindowEnds, InFlight
<1>1. TypeOK'
  <2>1. HealthTypeOK'
    BY DEF IInv, TypeOK, health, HealthTypeOK
  <2>. QED
    BY <2>1, ReadAssumption DEF IInv, TypeOK, Queries
<1>2. Growing /\ \A x \in Requests \ {r} : Untouched(x)
  BY ReadAssumption DEF IInv, TypeOK, Growing, Untouched
<1>3. RInv(r) /\ TypeOK
  BY DEF IInv
<1>a. down' = down /\ Mode' = Mode
  BY DEF health, Mode
<1>4. Course(r)'
  BY <1>3, <1>a, ReadAssumption
  DEF TypeOK, RInv, Course, Held, Mode, Unread, One, Reading, Queries
<1>5. Choices(r)'
  BY <1>3, <1>a DEF TypeOK, RInv, Course, Choices, Reader, ForcePrimary, Reading, Queries,
                   Pools, Unread
<1>6. Fresh(r)' /\ Torn(r)' /\ Missing(r)'
  BY <1>3 DEF TypeOK, RInv, Course, Fresh, Torn, Missing
<1>7. OneWorld(r)'
  BY <1>3 DEF TypeOK, RInv, Course, OneWorld, Modes, Unread
<1>. QED
  BY <1>1, <1>2, <1>3, <1>4, <1>5, <1>6, <1>7, StepOfOne DEF RInv, health

\* Transactions are committed, and the Replica applies them.
LEMMA ProgressIInv ==
    ASSUME IInv, Commit \/ Apply
    PROVE  IInv'
<1>1. UNCHANGED health /\ Growing /\ committed' \in 0..MaxCommits /\ applied' \in 0..committed'
  BY ReadAssumption DEF IInv, TypeOK, Commit, Apply, Growing
<1>2. UNCHANGED requests
  BY DEF Commit, Apply
<1>3. TypeOK'
  BY <1>1, <1>2 DEF IInv, TypeOK, HealthTypeOK, health, requests
<1>4. \A r \in Requests : Untouched(r)
  BY <1>2 DEF requests, Untouched
<1>. QED
  BY <1>1, <1>3, <1>4, UntouchedRInv DEF IInv, health

\* The flag may change: then every request in flight is marked as switched.
LEMMA HealthIInv ==
    ASSUME IInv, HealthTypeOK', Health
    PROVE  IInv'
<1>. USE DEF Health
<1>1. TypeOK'
  BY DEF IInv, TypeOK
<1>2. Growing
  BY ReadAssumption DEF IInv, TypeOK, Growing
<1>3. ASSUME NEW r \in Requests PROVE RInv(r)'
  <2>1. RInv(r) /\ TypeOK
    BY DEF IInv
  <2>2. CASE down' = down
    <3>1. switched' = switched
      BY <2>2, <2>1 DEF TypeOK
    <3>. QED
      BY <1>2, <2>1, <2>2, <3>1, UntouchedRInv DEF Untouched
  <2>3. CASE down' # down
    <3>1. InFlight(r) => r \in switched'
      BY <2>3
    <3>2. r \in switched => r \in switched'
      OBVIOUS
    <3>3. ~InFlight(r) => (r \in switched' <=> r \in switched)
      OBVIOUS
    <3>4. Course(r)'
      BY <2>1, <3>1, <3>2 DEF RInv, Course, Held, InFlight, Unread, One, Reading, Queries
    <3>5. Choices(r)'
      BY <2>1, <3>1, <3>2, <3>3 DEF RInv, Choices, Reading, Queries, InFlight
    <3>6. Fresh(r)' /\ Torn(r)' /\ Missing(r)'
      BY <2>1, <3>2 DEF RInv, Fresh, Torn, Missing
    <3>7. OneWorld(r)'
      BY <2>1, <3>2 DEF RInv, OneWorld
    <3>. QED
      BY <3>4, <3>5, <3>6, <3>7 DEF RInv
  <2>. QED
    BY <2>2, <2>3
<1>. QED
  BY <1>1, <1>3 DEF IInv

\* A restart of the server answers every request in flight with an error.
LEMMA RestartServerIInv ==
    ASSUME IInv, HealthTypeOK', RestartServer
    PROVE  IInv'
<1>. USE DEF RestartServer
<1>1. TypeOK'
  BY DEF IInv, TypeOK
<1>2. ASSUME NEW r \in Requests PROVE RInv(r)'
  <2>1. RInv(r) /\ TypeOK
    BY DEF IInv
  <2>2. CASE InFlight(r)
    <3>1. pc'[r] = "done" /\ reply'[r] = "error"
      BY <2>2, <2>1
    <3>2. Course(r)'
      BY <3>1 DEF Course, Reading, Queries
    <3>3. Choices(r)'
      BY <2>1, <3>1 DEF RInv, Choices, Reading, Queries
    <3>4. Fresh(r)' /\ Torn(r)' /\ Missing(r)'
      BY <3>1 DEF Fresh, Torn, Missing
    <3>5. OneWorld(r)'
      BY <2>1 DEF RInv, OneWorld
    <3>. QED
      BY <3>2, <3>3, <3>4, <3>5 DEF RInv
  <2>3. CASE ~InFlight(r)
    <3>1. pc'[r] = pc[r] /\ reply'[r] = reply[r] /\ pc[r] \in {"idle", "done"}
      BY <2>3, <2>1 DEF InFlight
    <3>2. Course(r)'
      BY <2>1, <3>1 DEF RInv, Course, Unread, Reading, Queries
    <3>3. Choices(r)'
      BY <2>1, <3>1 DEF RInv, Choices, Reading, Queries
    <3>4. Fresh(r)' /\ Torn(r)' /\ Missing(r)'
      BY <2>1, <3>1 DEF RInv, Fresh, Torn, Missing
    <3>5. OneWorld(r)'
      BY <2>1 DEF RInv, OneWorld
    <3>. QED
      BY <3>2, <3>3, <3>4, <3>5 DEF RInv
  <2>. QED
    BY <2>2, <2>3
<1>. QED
  BY <1>1, <1>2 DEF IInv

\* Every step of ReadPath is a step of ReplicaHealth or leaves its variables
\* alone, so the flag keeps what is proved of it there.
LEMMA NextHealth == [Next]_vars => [HealthNext]_health
<1> SUFFICES ASSUME [Next]_vars PROVE [HealthNext]_health
  OBVIOUS
<1>1. ASSUME NEW r \in Requests, Step(r) PROVE UNCHANGED health
  BY <1>1 DEF Step, Complete, Detail, Admin, Suggest, EmptySearch, Report, Gate, Page,
              ChoosePageSize, Route, FindHead, FindItems, FindAdmin, FetchReport, FetchPage, FetchProducts,
              RenderHome, QueryFails, WindowEnds, Query
<1>2. CASE Commit \/ Apply
  BY <1>2 DEF Commit, Apply
<1>3. CASE Health
  BY <1>3 DEF Health, HealthNext
<1>4. CASE RestartServer
  BY <1>4 DEF RestartServer, HealthNext
<1>5. CASE UNCHANGED vars
  BY <1>5 DEF vars
<1>. QED
  BY <1>1, <1>2, <1>3, <1>4, <1>5 DEF Next

\* Every step preserves the invariant.
LEMMA NextIInv == IInv /\ HealthInv /\ [Next]_vars => IInv'
<1> SUFFICES ASSUME IInv, HealthInv, [Next]_vars PROVE IInv'
  OBVIOUS
<1>0. HealthTypeOK'
  BY NextHealth, NextHealthInv DEF HealthInv
<1>1. ASSUME NEW r \in Requests, Step(r) PROVE IInv'
  BY <1>1, CompleteIInv, DetailIInv, AdminIInv, SuggestIInv, EmptySearchIInv, ReportIInv,
     PageIInv, ChoosePageSizeIInv, RouteIInv, FindHeadIInv, FindItemsIInv, FindAdminIInv,
     FetchReportIInv, FetchPageIInv, FetchProductsIInv, RenderHomeIInv, QueryFailsIInv,
     WindowEndsIInv DEF Step
<1>2. CASE Commit \/ Apply
  BY <1>2, ProgressIInv
<1>3. CASE Health
  BY <1>0, <1>3, HealthIInv
<1>4. CASE RestartServer
  BY <1>0, <1>4, RestartServerIInv
<1>5. CASE UNCHANGED vars
  <2>1. TypeOK'
    BY <1>0, <1>5 DEF IInv, TypeOK, vars, requests
  <2>2. Growing /\ down' = down /\ \A r \in Requests : Untouched(r)
    BY <1>5, ReadAssumption
    DEF IInv, TypeOK, Growing, Untouched, vars, requests, health
  <2>. QED
    BY <2>1, <2>2, UntouchedRInv DEF IInv
<1>. QED
  BY <1>1, <1>2, <1>3, <1>4, <1>5 DEF Next

\* ReadPath keeps both invariants.
THEOREM ReadInvariance == Spec => [](IInv /\ HealthInv)
<1>1. Init => IInv /\ HealthInv
  BY InitIInv, InitHealthInv DEF Init
<1>2. IInv /\ HealthInv /\ [Next]_vars => (IInv /\ HealthInv)'
  BY NextIInv, NextHealth, NextHealthInv
<1>. QED
  BY <1>1, <1>2, PTL DEF Spec

\* All variables have their types.
THEOREM ReadTypeCorrect == Spec => []TypeOK
<1>1. IInv => TypeOK
  BY DEF IInv
<1>. QED
  BY <1>1, ReadInvariance, PTL

\* An order page asked for with an open window shows the order, and shows it
\* whole, however far behind the Replica is.
THEOREM ReadAfterWrite == Spec => []FreshOrderIsWhole
<1>1. IInv => FreshOrderIsWhole
  BY DEF IInv, RInv, Fresh, FreshOrderIsWhole
<1>. QED
  BY <1>1, ReadInvariance, PTL

\* FindOrder returns an order without its items only when the flag changed or
\* the window ended between its two queries.
THEOREM TearsNeedASwitch == Spec => []TornOnlyAcrossSwitch
<1>1. IInv => TornOnlyAcrossSwitch
  BY DEF IInv, RInv, Torn, TornOnlyAcrossSwitch
<1>. QED
  BY <1>1, ReadInvariance, PTL

\* An order that was placed and an administrator who has logged in are missing
\* on a Replica that is behind, and nowhere else.
THEOREM MissingNeedsReplica == Spec => []MissingOnlyOnReplica
<1>1. IInv => MissingOnlyOnReplica
  BY DEF IInv, RInv, Missing, MissingOnlyOnReplica
<1>. QED
  BY <1>1, ReadInvariance, PTL

\* A request during which nothing switches uses one database and one mode, and
\* the two agree.
THEOREM OneWorldPerRequest == Spec => []OneWorldUnlessSwitched
<1>1. IInv => OneWorldUnlessSwitched
  BY DEF IInv, RInv, OneWorld, OneWorldUnlessSwitched
<1>. QED
  BY <1>1, ReadInvariance, PTL

\* A report that has been answered was allowed when the flag was reset, and made
\* two queries: RequireAdmin's and its own.
ReportCourse(r) ==
    /\ pc[r] = "report" => modes[r] = {"full"}
    /\ reply[r] = "report" =>
        modes[r] = {"full"} /\ \E a, b \in Pools : used[r] = <<a, b>>

\* degrade.ReportEnabled keeps the report off the Primary as long as the flag stays
\* as it found it.
ReportsOnReplicaUnlessSwitched ==
    \A r \in Requests :
        reply[r] = "report" /\ r \notin switched => used[r] = <<"replica", "replica">>

\* A request that stays where it is, or neither goes on to the report nor answers
\* with one, keeps ReportCourse.
LEMMA StepOfOther ==
    ASSUME NEW r \in Requests, ReportCourse(r),
           \/ UNCHANGED <<pc[r], modes[r], used[r], reply[r]>>
           \/ pc'[r] # "report" /\ reply'[r] # "report"
    PROVE  ReportCourse(r)'
BY DEF ReportCourse

\* Every step preserves ReportCourse.
LEMMA NextReportCourse ==
    ASSUME IInv, NEW r \in Requests, ReportCourse(r), [Next]_vars
    PROVE  ReportCourse(r)'
<1>. USE DEF IInv, TypeOK, Goto, Answer
<1>1. ASSUME NEW x \in Requests, Step(x), x # r PROVE ReportCourse(r)'
  <2>1. UNCHANGED <<pc[r], modes[r], used[r], reply[r]>>
    BY <1>1 DEF Step, Complete, Detail, Admin, Suggest, EmptySearch, Page, ChoosePageSize, Route,
       FindHead, FindItems, FindAdmin, FetchPage, FetchProducts, Report, FetchReport,
       RenderHome, QueryFails, WindowEnds, Gate, Query
  <2>. QED
    BY <2>1, StepOfOther
<1>2. CASE Report(r)
  BY <1>2 DEF Report, Gate, Mode, ReportCourse, RInv, Course
<1>3. CASE FetchReport(r)
  <2>1. PICK a \in Pools : used[r] = <<a>>
    BY <1>3 DEF FetchReport, Query, RInv, Course, One
  <2>2. pool[r] \in Pools /\ used'[r] = Append(used[r], pool[r])
    BY <1>3 DEF FetchReport, Query
  <2>3. used'[r] = <<a, pool[r]>>
    BY <2>1, <2>2, TwoQueries
  <2>4. modes'[r] = {"full"} /\ pc'[r] = "done"
    BY <1>3 DEF FetchReport, Query, ReportCourse
  <2>. QED
    BY <2>2, <2>3, <2>4 DEF ReportCourse
<1>4. ASSUME Step(r), ~Report(r), ~FetchReport(r) PROVE ReportCourse(r)'
  <2>1. pc[r] # "done" => reply[r] = "none"
    BY DEF RInv, Course
  <2>2. CASE Complete(r) \/ Detail(r) \/ Admin(r) \/ Page(r) \/ ChoosePageSize(r)
    <3>1. pc'[r] # "report" /\ reply'[r] # "report"
      BY <2>1, <2>2 DEF Complete, Detail, Admin, Page, ChoosePageSize
    <3>. QED
      BY <3>1, StepOfOther
  <2>3. CASE Suggest(r) \/ EmptySearch(r) \/ RenderHome(r) \/ QueryFails(r)
    <3>1. pc'[r] # "report" /\ reply'[r] # "report"
      BY <2>1, <2>3 DEF Suggest, EmptySearch, RenderHome, QueryFails, Gate, Queries
    <3>. QED
      BY <3>1, StepOfOther
  <2>4. CASE FindHead(r) \/ FindItems(r) \/ FindAdmin(r) \/ FetchPage(r) \/ FetchProducts(r)
    <3>1. pc'[r] # "report" /\ reply'[r] # "report"
      BY <2>1, <2>4 DEF FindHead, FindItems, FindAdmin, FetchPage, FetchProducts, Query
    <3>. QED
      BY <3>1, StepOfOther
  <2>5. CASE Route(r) \/ WindowEnds(r)
    <3>1. UNCHANGED <<pc[r], modes[r], used[r], reply[r]>>
      BY <2>5 DEF Route, WindowEnds
    <3>. QED
      BY <3>1, StepOfOther
  <2>. QED
    BY <1>4, <2>2, <2>3, <2>4, <2>5 DEF Step
<1>5. CASE Commit \/ Apply \/ Health \/ UNCHANGED vars
  <2>1. UNCHANGED <<pc[r], modes[r], used[r], reply[r]>>
    BY <1>5 DEF Commit, Apply, Health, vars, requests
  <2>. QED
    BY <2>1, StepOfOther
<1>6. CASE RestartServer
  <2>1. \/ UNCHANGED <<pc[r], modes[r], used[r], reply[r]>>
        \/ pc'[r] # "report" /\ reply'[r] # "report"
    BY <1>6 DEF RestartServer, InFlight
  <2>. QED
    BY <2>1, StepOfOther
<1>. QED
  BY <1>1, <1>2, <1>3, <1>4, <1>5, <1>6 DEF Next

\* What ReportEnabled's comment promises holds for every report during which the
\* flag does not change, so nothing but that change between two looks breaks it.
THEOREM ReportsNeedASwitch == Spec => []ReportsOnReplicaUnlessSwitched
<1>. DEFINE Courses == \A r \in Requests : ReportCourse(r)
<1>1. Init => Courses
  BY DEF Init, ReportCourse
<1>2. IInv /\ Courses /\ [Next]_vars => Courses'
  BY NextReportCourse
<1>3. IInv /\ Courses => ReportsOnReplicaUnlessSwitched
  <2> SUFFICES ASSUME IInv, Courses, NEW r \in Requests, reply[r] = "report", r \notin switched
               PROVE  used[r] = <<"replica", "replica">>
    BY DEF ReportsOnReplicaUnlessSwitched
  <2>1. PICK a, b \in Pools : used[r] = <<a, b>>
    BY DEF ReportCourse
  <2>2. "full" \in modes[r] /\ 1 \in DOMAIN used[r] /\ 2 \in DOMAIN used[r]
    BY <2>1 DEF ReportCourse
  <2>3. used[r][1] = "replica" /\ used[r][2] = "replica"
    BY <2>2 DEF IInv, RInv, OneWorld
  <2>. QED
    BY <2>1, <2>3
<1>. QED
  BY <1>1, <1>2, <1>3, ReadInvariance, PTL DEF Spec
=============================================================================
