------------------------- MODULE SharedLocks_proofs -------------------------
(***************************************************************************)
(* Proofs about SharedLocks: without remove_rule there is an order of the  *)
(* mutexes in which every task takes them, hence no circular wait.         *)
(***************************************************************************)
EXTENDS SharedLocks, TLAPS, SequenceTheorems, WellFoundedInduction

\* An order of the mutexes: what is asked for ranks above what is held.
Rank == [engine |-> 1, metrics |-> 2, talkers |-> 3, enforced |-> 4,
         settings |-> 5, session |-> 5, blocks |-> 5, handles |-> 5, program |-> 6,
         profiles |-> 7, notifications |-> 8, pending |-> 8, known |-> 8, filters |-> 8]

\* remove_rule keeps to no order: it takes the session rules under the
\* remembered ones, and the lookup the other way round.
Above(n, m) == RemovesRules \/ Rank[m] < Rank[n]

\* From a place of a task on, a mutex is let go of, and all that is asked for
\* until then ranks above it.
LetsGo(q, m, from) ==
  \E j \in DOMAIN q :
    /\ j >= from
    /\ q[j] = [do |-> "unlock", mutex |-> m]
    /\ \A i \in DOMAIN q : i >= from /\ i < j /\ q[i].do # "unlock" => Above(q[i].mutex, m)

Orderly(q) ==
  /\ q \in Seq(Op)
  /\ \A i \in DOMAIN q : q[i].do = "lock" => LetsGo(q, q[i].mutex, i + 1)

\* What a task asks for.
Asks(q) == {q[i].mutex : i \in {j \in DOMAIN q : q[j].do # "unlock"}}

\* The inductive invariant.
InOrder ==
  /\ owner \in [Mutexes -> Threads \cup {"nobody"}]
  /\ todo \in [Threads -> Seq(Op)]
  /\ \A t \in Threads : Orderly(todo[t])
  /\ \A m \in Mutexes : owner[m] # "nobody" => LetsGo(todo[owner[m]], m, 1)

-----------------------------------------------------------------------------
(* Tasks are put together from orderly parts. *)

\* A critical section that asks for nothing more.
LEMMA UseOrderly ==
  ASSUME NEW m \in Mutexes
  PROVE  Orderly(Use(m)) /\ Asks(Use(m)) = {m}
  <1> DEFINE u == [do |-> "use", mutex |-> m]
  <1>1. u \in Op /\ u.do = "use" /\ u.mutex = m
    BY DEF Op
  <1> HIDE DEF u
  <1>2. <<u>> \in Seq(Op) /\ DOMAIN <<u>> = {1} /\ <<u>>[1] = u
    BY <1>1
  <1>3. Use(m) = <<u>>
    BY DEF Use, u
  <1> QED BY <1>1, <1>2, <1>3 DEF Orderly, Asks

\* One part after another.
LEMMA ConcatOrderly ==
  ASSUME NEW a, Orderly(a), NEW b, Orderly(b)
  PROVE  Orderly(a \o b) /\ Asks(a \o b) = Asks(a) \cup Asks(b)
  <1> DEFINE q == a \o b
  <1>1. a \in Seq(Op) /\ b \in Seq(Op)
    BY DEF Orderly
  <1>2. /\ DOMAIN a = 1 .. Len(a) /\ DOMAIN b = 1 .. Len(b) /\ Len(a) \in Nat /\ Len(b) \in Nat
        /\ q \in Seq(Op) /\ DOMAIN q = 1 .. Len(a) + Len(b)
        /\ \A i \in 1 .. Len(a) : q[i] = a[i]
        /\ \A i \in 1 .. Len(b) : q[Len(a) + i] = b[i]
    <2>1. /\ q \in Seq(Op) /\ Len(q) = Len(a) + Len(b)
          /\ \A i \in 1 .. Len(a) + Len(b) : q[i] = IF i <= Len(a) THEN a[i] ELSE b[i - Len(a)]
      BY <1>1, ConcatProperties
    <2> HIDE DEF q
    <2>2. Len(a) \in Nat /\ Len(b) \in Nat /\ DOMAIN a = 1 .. Len(a) /\ DOMAIN b = 1 .. Len(b)
      BY <1>1, LenProperties
    <2>3. DOMAIN q = 1 .. Len(a) + Len(b)
      BY <2>1, LenProperties
    <2>4. \A i \in 1 .. Len(b) : q[Len(a) + i] = b[i]
      BY <2>1, <2>2
    <2> QED BY <2>1, <2>2, <2>3, <2>4
  <1> HIDE DEF q
  <1>3. ASSUME NEW i \in DOMAIN q, q[i].do = "lock" PROVE LetsGo(q, q[i].mutex, i + 1)
    <2>1. CASE i \in DOMAIN a
      <3>1. LetsGo(a, q[i].mutex, i + 1)
        BY <1>2, <1>3, <2>1 DEF Orderly
      <3>2. PICK j \in DOMAIN a :
              /\ j >= i + 1 /\ a[j] = [do |-> "unlock", mutex |-> q[i].mutex]
              /\ \A l \in DOMAIN a : l >= i + 1 /\ l < j /\ a[l].do # "unlock"
                                       => Above(a[l].mutex, q[i].mutex)
        BY <3>1 DEF LetsGo
      <3>3. j \in DOMAIN q /\ q[j] = a[j]
        BY <1>2
      <3>4. \A l \in DOMAIN q : l < j => l \in DOMAIN a /\ q[l] = a[l]
        BY <1>2
      <3> QED BY <3>2, <3>3, <3>4 DEF LetsGo
    <2>2. CASE i \notin DOMAIN a
      <3>1. PICK k \in DOMAIN b : i = Len(a) + k
        <4>1. i - Len(a) \in 1 .. Len(b) /\ i = Len(a) + (i - Len(a))
          BY <1>2, <2>2
        <4> QED BY <1>2, <4>1
      <3>2. LetsGo(b, q[i].mutex, k + 1)
        BY <1>2, <1>3, <3>1 DEF Orderly
      <3>3. PICK j \in DOMAIN b :
              /\ j >= k + 1 /\ b[j] = [do |-> "unlock", mutex |-> q[i].mutex]
              /\ \A l \in DOMAIN b : l >= k + 1 /\ l < j /\ b[l].do # "unlock"
                                       => Above(b[l].mutex, q[i].mutex)
        BY <3>2 DEF LetsGo
      <3>4. Len(a) + j \in DOMAIN q /\ Len(a) + j >= i + 1 /\ q[Len(a) + j] = b[j]
        BY <1>2, <3>1, <3>3
      <3>5. ASSUME NEW l \in DOMAIN q, l >= i + 1, l < Len(a) + j, q[l].do # "unlock"
            PROVE  Above(q[l].mutex, q[i].mutex)
        <4>1. /\ l - Len(a) \in DOMAIN b /\ l - Len(a) >= k + 1 /\ l - Len(a) < j
              /\ q[l] = b[l - Len(a)]
          BY <1>2, <3>1, <3>3, <3>5
        <4> QED BY <3>3, <3>5, <4>1
      <3> QED BY <3>3, <3>4, <3>5 DEF LetsGo
    <2> QED BY <2>1, <2>2
  <1>4. Asks(q) = Asks(a) \cup Asks(b)
    <2>1. ASSUME NEW m \in Asks(q) PROVE m \in Asks(a) \cup Asks(b)
      <3>1. PICK i \in DOMAIN q : q[i].do # "unlock" /\ m = q[i].mutex
        BY DEF Asks
      <3>2. i \in DOMAIN a \/ (i - Len(a) \in DOMAIN b /\ q[i] = b[i - Len(a)])
        BY <1>2
      <3> QED BY <1>2, <3>1, <3>2 DEF Asks
    <2>2. \A m \in Asks(a) : m \in Asks(q)
      BY <1>2 DEF Asks
    <2>3. ASSUME NEW m \in Asks(b) PROVE m \in Asks(q)
      <3>1. PICK i \in DOMAIN b : b[i].do # "unlock" /\ m = b[i].mutex
        BY DEF Asks
      <3>2. Len(a) + i \in DOMAIN q /\ q[Len(a) + i] = b[i]
        BY <1>2
      <3> QED BY <3>1, <3>2 DEF Asks
    <2> QED BY <2>1, <2>2, <2>3
  <1> QED BY <1>2, <1>3, <1>4 DEF Orderly, q

\* A mutex held around what ranks above it.
LEMMA HoldOrderly ==
  ASSUME NEW m \in Mutexes, NEW inner, Orderly(inner), \A n \in Asks(inner) : Above(n, m)
  PROVE  Orderly(Hold(m, inner)) /\ Asks(Hold(m, inner)) = {m} \cup Asks(inner)
  <1> DEFINE l == [do |-> "lock", mutex |-> m]
             u == [do |-> "unlock", mutex |-> m]
             n == Len(inner)
             q == (<<l>> \o inner) \o <<u>>
  <1>1. l \in Op /\ u \in Op /\ l.do = "lock" /\ u.do = "unlock" /\ l.mutex = m
    BY DEF Op
  <1>2. inner \in Seq(Op) /\ n \in Nat /\ DOMAIN inner = 1 .. n
    BY LenProperties DEF Orderly
  <1> HIDE DEF l
  <1>3. u = [do |-> "unlock", mutex |-> m]
    OBVIOUS
  <1> HIDE DEF u, n
  <1>4. /\ q \in Seq(Op) /\ DOMAIN q = 1 .. n + 2 /\ q[1] = l /\ q[n + 2] = u
        /\ \A i \in 1 .. n : q[i + 1] = inner[i]
    <2>1. <<l>> \in Seq(Op) /\ Len(<<l>>) = 1 /\ <<l>>[1] = l
      BY <1>1
    <2>2. <<u>> \in Seq(Op) /\ Len(<<u>>) = 1 /\ <<u>>[1] = u
      BY <1>1
    <2> DEFINE a == <<l>> \o inner
    <2>3. /\ a \in Seq(Op) /\ Len(a) = n + 1
          /\ \A i \in 1 .. n + 1 : a[i] = IF i <= 1 THEN l ELSE inner[i - 1]
      BY <1>2, <2>1, ConcatProperties DEF n
    <2> HIDE DEF a
    <2>4. /\ a \o <<u>> \in Seq(Op) /\ Len(a \o <<u>>) = n + 2
          /\ \A i \in 1 .. n + 2 : (a \o <<u>>)[i] = IF i <= n + 1 THEN a[i] ELSE <<u>>[i - (n + 1)]
      BY <1>2, <2>2, <2>3, ConcatProperties
    <2>5. q = a \o <<u>>
      BY DEF a
    <2> HIDE DEF q
    <2>6. DOMAIN q = 1 .. n + 2
      BY <2>4, <2>5, LenProperties
    <2>7. q[1] = l
      BY <1>2, <2>3, <2>4, <2>5
    <2>8. q[n + 2] = u
      BY <1>2, <2>2, <2>4, <2>5
    <2>9. \A i \in 1 .. n : q[i + 1] = inner[i]
      BY <1>2, <2>3, <2>4, <2>5
    <2> QED BY <2>4, <2>5, <2>6, <2>7, <2>8, <2>9
  <1>5. Hold(m, inner) = q
    BY DEF Hold, l, u
  <1> HIDE DEF q
  <1>6. \A i \in DOMAIN q : i = 1 \/ i = n + 2 \/ (i - 1 \in DOMAIN inner /\ q[i] = inner[i - 1])
    BY <1>2, <1>4
  <1>7. ASSUME NEW i \in DOMAIN q, q[i].do # "unlock", i # 1 PROVE q[i].mutex \in Asks(inner)
    BY <1>1, <1>4, <1>6, <1>7 DEF Asks
  <1>8. LetsGo(q, m, 2)
    BY <1>2, <1>3, <1>4, <1>7 DEF LetsGo
  <1>9. ASSUME NEW i \in DOMAIN q, q[i].do = "lock", i # 1 PROVE LetsGo(q, q[i].mutex, i + 1)
    <2>1. i - 1 \in DOMAIN inner /\ q[i] = inner[i - 1]
      BY <1>1, <1>4, <1>6, <1>9
    <2>2. LetsGo(inner, q[i].mutex, (i - 1) + 1)
      BY <1>9, <2>1 DEF Orderly
    <2>3. PICK j \in DOMAIN inner :
            /\ j >= (i - 1) + 1 /\ inner[j] = [do |-> "unlock", mutex |-> q[i].mutex]
            /\ \A k \in DOMAIN inner : k >= (i - 1) + 1 /\ k < j /\ inner[k].do # "unlock"
                                         => Above(inner[k].mutex, q[i].mutex)
      BY <2>2 DEF LetsGo
    <2>4. j + 1 \in DOMAIN q /\ j + 1 >= i + 1 /\ q[j + 1] = inner[j]
      BY <1>2, <1>4, <2>3
    <2>5. ASSUME NEW k \in DOMAIN q, k >= i + 1, k < j + 1, q[k].do # "unlock"
          PROVE  Above(q[k].mutex, q[i].mutex)
      <3>1. k - 1 \in DOMAIN inner /\ q[k] = inner[k - 1] /\ k - 1 >= (i - 1) + 1 /\ k - 1 < j
        BY <1>2, <1>4, <1>6, <2>5
      <3> QED BY <2>3, <2>5, <3>1
    <2> QED BY <2>3, <2>4, <2>5 DEF LetsGo
  <1>10. Orderly(q)
    BY <1>1, <1>4, <1>8, <1>9 DEF Orderly
  <1>11. Asks(q) = {m} \cup Asks(inner)
    <2>1. m \in Asks(q)
      BY <1>1, <1>2, <1>4 DEF Asks
    <2>2. \A k \in Asks(q) : k = m \/ k \in Asks(inner)
      BY <1>1, <1>4, <1>7 DEF Asks
    <2>3. ASSUME NEW k \in Asks(inner) PROVE k \in Asks(q)
      <3>1. PICK i \in DOMAIN inner : inner[i].do # "unlock" /\ k = inner[i].mutex
        BY DEF Asks
      <3>2. i + 1 \in DOMAIN q /\ q[i + 1] = inner[i]
        BY <1>2, <1>4
      <3> QED BY <3>1, <3>2 DEF Asks
    <2> QED BY <2>1, <2>2, <2>3
  <1> QED BY <1>5, <1>10, <1>11

-----------------------------------------------------------------------------
(* The tasks. *)

\* Which mutexes are held while which others are asked for.
LEMMA Nestings ==
  /\ Above("notifications", "profiles") /\ Above("profiles", "program")
  /\ Above("notifications", "program") /\ Above("program", "settings")
  /\ Above("profiles", "settings") /\ Above("notifications", "settings")
  /\ Above("program", "session") /\ Above("program", "blocks")
  /\ Above("filters", "handles") /\ Above("filters", "blocks")
  /\ Above("handles", "enforced") /\ Above("filters", "enforced")
  /\ Above("talkers", "metrics")
  /\ \A m \in Mutexes \ {"engine"} : Above(m, "engine")
  /\ RemovesRules => Above("session", "program")
  BY DEF Above, Rank, Mutexes

\* Orderly, and all it asks for is among some mutexes.
Within(q, M) == Orderly(q) /\ Asks(q) \subseteq M

LEMMA UseWithin == ASSUME NEW m \in Mutexes PROVE Within(Use(m), {m})
  BY UseOrderly DEF Within

LEMMA ConcatWithin ==
  ASSUME NEW a, NEW b, NEW M, Within(a, M), NEW N, Within(b, N)
  PROVE  Within(a \o b, M \cup N)
  BY ConcatOrderly DEF Within

LEMMA HoldWithin ==
  ASSUME NEW m \in Mutexes, NEW inner, NEW M, Within(inner, M), \A n \in M : Above(n, m)
  PROVE  Within(Hold(m, inner), {m} \cup M)
  BY HoldOrderly DEF Within

\* The saves, the lookup and the firewall calls.
LEMMA PartsWithin ==
  /\ Within(Save, Mutexes) /\ Within(PushNotification, Mutexes)
  /\ Within(Find, Mutexes)
  /\ Within(FwAdd, {"handles", "filters"}) /\ Within(FwRemove, {"filters"})
  /\ Within(FreeBlock, {"blocks", "filters"}) /\ Within(InstallBlock, Mutexes)
  <1>1. \A m \in Mutexes : Within(Use(m), {m})
    BY UseWithin
  <1>2. Within(Save, {"settings", "program", "profiles", "notifications"})
    <2> DEFINE a == Use("notifications")  b == Hold("profiles", a)  c == Hold("program", b)
    <2>1. Within(a, {"notifications"})
      BY <1>1 DEF Mutexes
    <2> HIDE DEF a
    <2>2. Within(b, {"profiles"} \cup {"notifications"})
      BY <2>1, HoldWithin, Nestings DEF Mutexes
    <2> HIDE DEF b
    <2>3. Within(c, {"program"} \cup ({"profiles"} \cup {"notifications"}))
      BY <2>2, HoldWithin, Nestings DEF Mutexes
    <2> HIDE DEF c
    <2>4. Within(Hold("settings", c),
                 {"settings"} \cup ({"program"} \cup ({"profiles"} \cup {"notifications"})))
      BY <2>3, HoldWithin, Nestings DEF Mutexes
    <2> QED BY <2>4 DEF Save, a, b, c, Within
  <1>3. Within(PushNotification, Mutexes)
    BY <1>1, <1>2, ConcatWithin DEF PushNotification, Within, Mutexes
  <1>4. Within(Find, Mutexes)
    <2>1. Within(Hold("session", Use("program")), {"session"} \cup {"program"})
      BY <1>1, HoldWithin, Nestings DEF Mutexes
    <2>2. Within(Find, {"settings"} \cup ({"session"} \cup {"program"}))
      BY <1>1, <2>1, ConcatWithin DEF Find, Mutexes
    <2> QED BY <2>2 DEF Within, Mutexes
  <1>5. Within(FwAdd, {"handles", "filters"})
    <2>1. Within(Hold("handles", Use("filters")), {"handles"} \cup {"filters"})
      BY <1>1, HoldWithin, Nestings DEF Mutexes
    <2> QED BY <2>1 DEF FwAdd, Within
  <1>6. Within(FwRemove, {"filters"})
    BY <1>1 DEF FwRemove, Mutexes
  <1>7. Within(FreeBlock, {"blocks", "filters"})
    <2>1. Within(Hold("blocks", FwRemove), {"blocks"} \cup {"filters"})
      BY <1>6, HoldWithin, Nestings DEF Mutexes
    <2> QED BY <2>1 DEF FreeBlock, Within
  <1>8. Within(InstallBlock, Mutexes)
    BY <1>5, <1>7, ConcatWithin DEF InstallBlock, Within, Mutexes
  <1> QED BY <1>2, <1>3, <1>4, <1>5, <1>6, <1>7, <1>8 DEF Within, Mutexes

\* The whole state under the engine's mutex, and the metrics.
LEMMA EngineWithin == Within(StateSnapshot, Mutexes) /\ Within(BuildTick, Mutexes)
  <1> DEFINE Rest == Mutexes \ {"engine"}
  <1>1. \A m \in Rest : Within(Use(m), Rest)
    BY UseWithin DEF Within
  <1>2. \A a, b : Within(a, Rest) /\ Within(b, Rest) => Within(a \o b, Rest)
    BY ConcatOrderly DEF Within
  <1>3. \A a : Within(a, Rest) => Within(Hold("engine", a), Mutexes)
    <2> SUFFICES ASSUME NEW a, Within(a, Rest) PROVE Within(Hold("engine", a), Mutexes)
      OBVIOUS
    <2>1. Within(Hold("engine", a), {"engine"} \cup Rest)
      BY HoldWithin, Nestings DEF Mutexes
    <2> QED BY <2>1 DEF Within, Mutexes
  <1>4. Within(QuarantineSnapshot, Rest)
    <2>1. Within(Hold("blocks", Use("program")), {"blocks"} \cup {"program"})
      BY UseWithin, HoldWithin, Nestings DEF Mutexes
    <2>2. Within(Hold("blocks", Use("program")), Rest)
      BY <2>1 DEF Within, Mutexes
    <2> QED BY <1>1, <1>2, <2>2 DEF QuarantineSnapshot, Mutexes
  <1>5. Within(Hold("metrics", Use("talkers")), Rest)
    <2>1. Within(Hold("metrics", Use("talkers")), {"metrics"} \cup {"talkers"})
      BY UseWithin, HoldWithin, Nestings DEF Mutexes
    <2> QED BY <2>1 DEF Within, Mutexes
  <1>6. {"pending", "program", "session", "settings", "profiles", "notifications"} \subseteq Rest
    BY DEF Mutexes
  <1> HIDE DEF Rest
  <1>7. Within(StateSnapshot, Mutexes)
    BY <1>1, <1>2, <1>3, <1>4, <1>6 DEF StateSnapshot
  <1>8. Within(BuildTick, Mutexes)
    BY <1>3, <1>5 DEF BuildTick
  <1> QED BY <1>7, <1>8

\* Every task of every thread is orderly.
LEMMA TasksOrderly ==
  ASSUME NEW t \in Threads, NEW task \in Tasks[t]
  PROVE  Orderly(task)
  <1>1. \A m \in Mutexes : Orderly(Use(m))
    BY UseOrderly
  <1>2. /\ Orderly(Save) /\ Orderly(PushNotification) /\ Orderly(Find) /\ Orderly(FwAdd)
        /\ Orderly(FwRemove) /\ Orderly(FreeBlock) /\ Orderly(InstallBlock)
        /\ Orderly(StateSnapshot) /\ Orderly(BuildTick)
    BY PartsWithin, EngineWithin DEF Within
  <1>3. Orderly(Hold("enforced", FwAdd)) /\ Orderly(Hold("enforced", FwRemove))
    <2>1. Within(Hold("enforced", FwAdd), {"enforced"} \cup {"handles", "filters"})
      <3>1. \A m \in {"handles", "filters"} : Above(m, "enforced")
        BY Nestings
      <3>2. Within(FwAdd, {"handles", "filters"})
        BY PartsWithin
      <3> QED BY <3>1, <3>2, HoldWithin DEF Mutexes
    <2>2. Within(Hold("enforced", FwRemove), {"enforced"} \cup {"filters"})
      <3>1. Within(FwRemove, {"filters"})
        BY PartsWithin
      <3> QED BY <3>1, HoldWithin, Nestings DEF Mutexes
    <2> QED BY <2>1, <2>2 DEF Within
  <1>4. Orderly(Prune)
    BY <1>1, ConcatOrderly DEF Prune, Mutexes
  <1>5. RemovesRules => Orderly(RemoveRule)
    <2> SUFFICES ASSUME RemovesRules PROVE Within(RemoveRule, {"program"} \cup {"session"})
      BY DEF Within
    <2>1. Within(Use("session"), {"session"})
      BY UseWithin DEF Mutexes
    <2> QED BY <2>1, HoldWithin, Nestings DEF RemoveRule, Mutexes
  <1>6. \A q \in InspectProgram : Orderly(q)
    BY <1>1, <1>2 DEF InspectProgram, Mutexes
  <1>7. \A q \in Consumer : Orderly(q)
    BY <1>1, <1>3, <1>6 DEF Consumer, Mutexes
  <1>8. \A q \in Snapshotter : Orderly(q)
    BY <1>1, <1>6 DEF Snapshotter, Mutexes
  <1>9. \A q \in Ticker : Orderly(q)
    BY <1>2, <1>3, <1>4 DEF Ticker
  <1>10. \A q \in Ui : Orderly(q)
    BY <1>1, <1>2, <1>3, <1>5 DEF Ui, Mutexes
  <1>11. t \in {"consumer", "snapshotter", "ticker", "ui"}
    BY LocksAssumption
  <1>12. /\ Tasks["consumer"] = Consumer /\ Tasks["snapshotter"] = Snapshotter
         /\ Tasks["ticker"] = Ticker /\ Tasks["ui"] = Ui
    BY DEF Tasks
  <1> QED BY <1>7, <1>8, <1>9, <1>10, <1>11, <1>12

-----------------------------------------------------------------------------
(* The threads. *)

\* One step on in a task.
LEMMA TailOrderly ==
  ASSUME NEW q, Orderly(q), q # <<>>
  PROVE  /\ Orderly(Tail(q)) /\ Head(q) = q[1] /\ Head(q) \in Op
         /\ \A m : LetsGo(q, m, 1) /\ Head(q) # [do |-> "unlock", mutex |-> m]
                     => LetsGo(Tail(q), m, 1)
         /\ Head(q).do = "lock" => LetsGo(Tail(q), Head(q).mutex, 1)
         /\ \A m : LetsGo(q, m, 1) /\ Head(q).do # "unlock" => Above(Head(q).mutex, m)
  <1> DEFINE r == Tail(q)
  <1>1. /\ q \in Seq(Op) /\ DOMAIN q = 1 .. Len(q) /\ Len(q) \in Nat /\ Len(q) >= 1
        /\ r \in Seq(Op) /\ DOMAIN r = 1 .. Len(q) - 1 /\ \A i \in DOMAIN r : r[i] = q[i + 1]
        /\ Head(q) = q[1] /\ Head(q) \in Op
    <2>1. q \in Seq(Op)
      BY DEF Orderly
    <2>2. DOMAIN q = 1 .. Len(q) /\ Len(q) \in Nat /\ Len(q) >= 1
      BY <2>1, LenProperties, EmptySeq
    <2>3. /\ Head(q) \in Op /\ r \in Seq(Op) /\ Len(r) = Len(q) - 1
          /\ \A i \in 1 .. Len(r) : r[i] = q[i + 1]
      BY <2>1, HeadTailProperties
    <2>4. DOMAIN r = 1 .. Len(q) - 1
      BY <2>3, LenProperties
    <2>5. Head(q) = q[1]
      BY <2>1
    <2> QED BY <2>1, <2>2, <2>3, <2>4, <2>5
  <1> HIDE DEF r
  <1>2. ASSUME NEW m, NEW f \in Nat, f >= 1, LetsGo(q, m, f + 1) PROVE LetsGo(r, m, f)
    <2>1. PICK j \in DOMAIN q :
            /\ j >= f + 1 /\ q[j] = [do |-> "unlock", mutex |-> m]
            /\ \A i \in DOMAIN q : i >= f + 1 /\ i < j /\ q[i].do # "unlock" => Above(q[i].mutex, m)
      BY <1>2 DEF LetsGo
    <2>2. j - 1 \in DOMAIN r /\ j - 1 >= f /\ r[j - 1] = q[j]
      <3>1. j - 1 \in DOMAIN r /\ j - 1 >= f /\ (j - 1) + 1 = j
        BY <1>1, <1>2, <2>1
      <3> QED BY <1>1, <3>1
    <2>3. ASSUME NEW i \in DOMAIN r, i >= f, i < j - 1, r[i].do # "unlock"
          PROVE  Above(r[i].mutex, m)
      <3>1. i + 1 \in DOMAIN q /\ i + 1 >= f + 1 /\ i + 1 < j /\ r[i] = q[i + 1]
        BY <1>1, <1>2, <2>1, <2>3
      <3> QED BY <2>1, <2>3, <3>1
    <2> QED BY <2>1, <2>2, <2>3 DEF LetsGo
  <1>3. ASSUME NEW m, LetsGo(q, m, 1), Head(q) # [do |-> "unlock", mutex |-> m]
        PROVE  LetsGo(q, m, 1 + 1)
    BY <1>1, <1>3 DEF LetsGo
  <1>4. Orderly(r)
    <2> SUFFICES ASSUME NEW i \in DOMAIN r, r[i].do = "lock" PROVE LetsGo(r, r[i].mutex, i + 1)
      BY <1>1 DEF Orderly
    <2>1. i + 1 \in DOMAIN q /\ r[i] = q[i + 1] /\ i + 1 \in Nat /\ i + 1 >= 1
      BY <1>1
    <2>2. LetsGo(q, r[i].mutex, (i + 1) + 1)
      BY <2>1 DEF Orderly
    <2> QED BY <1>2, <2>1, <2>2
  <1>5. Head(q).do = "lock" => LetsGo(r, Head(q).mutex, 1)
    <2>1. Head(q).do = "lock" => LetsGo(q, Head(q).mutex, 1 + 1)
      BY <1>1 DEF Orderly
    <2> QED BY <1>2, <2>1
  <1>6. \A m : LetsGo(q, m, 1) /\ Head(q).do # "unlock" => Above(Head(q).mutex, m)
    <2> SUFFICES ASSUME NEW m, LetsGo(q, m, 1), Head(q).do # "unlock" PROVE Above(Head(q).mutex, m)
      OBVIOUS
    <2>1. PICK j \in DOMAIN q :
            /\ j >= 1 /\ q[j] = [do |-> "unlock", mutex |-> m]
            /\ \A i \in DOMAIN q : i >= 1 /\ i < j /\ q[i].do # "unlock" => Above(q[i].mutex, m)
      BY DEF LetsGo
    <2>2. q[j].do = "unlock"
      BY <2>1
    <2>3. 1 \in DOMAIN q /\ 1 < j
      BY <1>1, <2>1, <2>2
    <2> QED BY <1>1, <2>1, <2>3
  <1> QED BY <1>1, <1>2, <1>3, <1>4, <1>5, <1>6 DEF r

\* At the start nobody has a task, or a mutex.
LEMMA InitInOrder == Init => InOrder
  <1>1. <<>> \in Seq(Op) /\ DOMAIN <<>> = {}
    BY EmptySeq
  <1> QED BY <1>1 DEF Init, InOrder, Orderly

\* Tasks that begin are orderly, and remain so until they are done.
LEMMA StepInOrder == InOrder /\ [Next]_vars => InOrder'
  <1> SUFFICES ASSUME InOrder, [Next]_vars PROVE InOrder'
    OBVIOUS
  <1>1. CASE UNCHANGED vars
    BY <1>1 DEF vars, InOrder
  <1>2. ASSUME NEW t \in Threads, Begin(t) PROVE InOrder'
    <2>1. PICK task \in Tasks[t] : todo' = [todo EXCEPT ![t] = task]
      BY <1>2 DEF Begin
    <2>2. Orderly(task) /\ task \in Seq(Op)
      BY TasksOrderly DEF Orderly
    <2>3. todo[t] = <<>> /\ owner' = owner
      BY <1>2 DEF Begin
    <2>4. \A m \in Mutexes : owner[m] # t
      <3>1. "nobody" # t
        BY LocksAssumption
      <3>2. \A m : ~ LetsGo(<<>>, m, 1)
        BY DEF LetsGo
      <3> QED BY <2>3, <3>1, <3>2 DEF InOrder
    <2>5. todo'[t] = task /\ \A u \in Threads : u # t => todo'[u] = todo[u]
      BY <2>1 DEF InOrder
    <2>6. \A m \in Mutexes : owner'[m] # "nobody" => LetsGo(todo'[owner'[m]], m, 1)
      BY <2>3, <2>4, <2>5 DEF InOrder
    <2> QED BY <2>1, <2>2, <2>3, <2>5, <2>6 DEF InOrder
  <1>3. ASSUME NEW t \in Threads, Step(t) PROVE InOrder'
    <2> DEFINE q == todo[t]  op == Head(todo[t])
    <2>1. q # <<>> /\ todo' = [todo EXCEPT ![t] = Tail(q)]
      BY <1>3 DEF Step, UseMutex, LockMutex, UnlockMutex, Next1, Done
    <2>2. Orderly(q)
      BY DEF InOrder
    <2>3. /\ Orderly(Tail(q)) /\ op \in Op
          /\ \A m : LetsGo(q, m, 1) /\ op # [do |-> "unlock", mutex |-> m] => LetsGo(Tail(q), m, 1)
          /\ op.do = "lock" => LetsGo(Tail(q), op.mutex, 1)
      BY <2>1, <2>2, TailOrderly
    <2>4. Tail(q) \in Seq(Op)
      BY <2>3 DEF Orderly
    <2>5. todo'[t] = Tail(q) /\ \A u \in Threads : u # t => todo'[u] = todo[u]
      BY <2>1 DEF InOrder
    <2>6. todo' \in [Threads -> Seq(Op)]
      BY <2>1, <2>4 DEF InOrder
    <2>7. op.mutex \in Mutexes
      BY <2>3 DEF Op
    <2>8. \/ op.do = "use" /\ owner' = owner
          \/ op.do = "lock" /\ owner' = [owner EXCEPT ![op.mutex] = t]
          \/ op.do = "unlock" /\ owner' = [owner EXCEPT ![op.mutex] = "nobody"]
      BY <1>3 DEF Step, UseMutex, LockMutex, UnlockMutex, Next1
    <2> HIDE DEF q, op
    <2>9. owner' \in [Mutexes -> Threads \cup {"nobody"}]
      BY <2>7, <2>8 DEF InOrder
    <2>10. ASSUME NEW m \in Mutexes, owner'[m] # "nobody" PROVE LetsGo(todo'[owner'[m]], m, 1)
      <3>1. CASE owner'[m] = owner[m] /\ op # [do |-> "unlock", mutex |-> m]
        <4>1. LetsGo(todo[owner[m]], m, 1)
          BY <2>10, <3>1 DEF InOrder
        <4>2. owner[m] \in Threads
          BY <2>10, <3>1 DEF InOrder
        <4> QED BY <2>3, <2>5, <3>1, <4>1, <4>2 DEF q
      <3>2. CASE op.do = "lock" /\ m = op.mutex
        <4>1. owner'[m] = t
          BY <2>8, <3>2 DEF InOrder
        <4> QED BY <2>3, <2>5, <3>2, <4>1
      <3>3. op = [do |-> "unlock", mutex |-> m] => owner'[m] = "nobody"
        BY <2>8 DEF InOrder
      <3>4. owner'[m] = owner[m] \/ m = op.mutex
        BY <2>7, <2>8 DEF InOrder
      <3>5. CASE op.do = "use"
        BY <2>8, <3>1, <3>5
      <3>6. CASE op.do = "unlock"
        <4>1. op = [do |-> "unlock", mutex |-> op.mutex]
          BY <2>3, <3>6 DEF Op
        <4> QED BY <2>10, <3>1, <3>3, <3>4, <4>1
      <3>7. CASE op.do = "lock"
        BY <3>1, <3>2, <3>4, <3>7
      <3> QED BY <2>8, <3>5, <3>6, <3>7
    <2>11. \A u \in Threads : Orderly(todo'[u])
      BY <2>3, <2>5 DEF InOrder
    <2> QED BY <2>6, <2>9, <2>10, <2>11 DEF InOrder
  <1> QED BY <1>1, <1>2, <1>3 DEF Next

\* Whatever the threads do, with remove_rule or without: a mutex that is held
\* is let go of by what is left of its holder's own task, as Rust's guards have it.
THEOREM HeldIsLetGo == Spec => []TypeOK
  <1>1. InOrder => TypeOK
    <2> SUFFICES ASSUME InOrder, NEW m \in Mutexes, owner[m] # "nobody"
                 PROVE  \E i \in DOMAIN todo[owner[m]] :
                          todo[owner[m]][i] = [do |-> "unlock", mutex |-> m]
      BY DEF InOrder, TypeOK
    <2> QED BY DEF InOrder, LetsGo
  <1> QED BY <1>1, InitInOrder, StepInOrder, PTL DEF Spec

\* Every nonempty set of naturals has a least element.
LEMMA LeastNat ==
  ASSUME NEW S, S \subseteq Nat, S # {}
  PROVE  \E x \in S : \A y \in S : x <= y
  <1> DEFINE R == {ss \in Nat \X Nat : ss[1] < ss[2]}
  <1>1. IsWellFoundedOn(R, Nat)
    BY NatLessThanWellFounded, Zenon DEF OpToRel
  <1>2. PICK x \in S : \A y \in S : <<y, x>> \notin R
    <2> HIDE DEF R
    <2> QED BY <1>1, WFMin
  <1>3. ASSUME NEW y \in S PROVE x <= y
    <2>1. x \in Nat /\ y \in Nat
      OBVIOUS
    <2>2. ~ (y < x)
      BY <1>2, <2>1
    <2> QED BY <2>1, <2>2
  <1> QED BY <1>3

\* Without remove_rule no threads ever wait for each other in a circle, whatever
\* the observers, the ticker and the UI's other commands do: who waits for a
\* mutex holds only lower ones, and the one who holds it waits for a higher one
\* still, so of any threads the one that waits for the highest waits for none of
\* them.
THEOREM NobodyWaitsInCircles ==
  ASSUME ~ RemovesRules
  PROVE  Spec => []NoCircularWait
  <1>1. InOrder => NoCircularWait
    <2> SUFFICES ASSUME InOrder, NEW S \in SUBSET Threads, S # {},
                        \A t \in S : WaitsFor(t) \in S
                 PROVE  FALSE
      BY DEF NoCircularWait
    <2> DEFINE Wants(t) == Head(todo[t]).mutex
    <2>1. ASSUME NEW t \in S
          PROVE  /\ todo[t] # <<>> /\ Head(todo[t]).do \in {"use", "lock"}
                 /\ WaitsFor(t) = owner[Wants(t)]
      <3>1. "nobody" \notin S
        BY LocksAssumption
      <3> QED BY <3>1 DEF WaitsFor, Next1
    <2>2. ASSUME NEW t \in S PROVE Wants(t) \in Mutexes
      <3>1. Head(todo[t]) \in Op
        BY <2>1, TailOrderly DEF InOrder
      <3> QED BY <3>1 DEF Op
    <2>3. ASSUME NEW t \in S PROVE Rank[Wants(t)] < Rank[Wants(WaitsFor(t))]
      <3> DEFINE u == WaitsFor(t)  m == Wants(t)
      <3>1. u \in S /\ u = owner[m] /\ m \in Mutexes
        BY <2>1, <2>2
      <3>2. u # "nobody"
        BY <3>1, LocksAssumption
      <3>3. LetsGo(todo[u], m, 1)
        BY <3>1, <3>2 DEF InOrder
      <3>4. todo[u] # <<>> /\ Head(todo[u]).do # "unlock"
        BY <2>1, <3>1
      <3>5. Orderly(todo[u])
        BY <3>1 DEF InOrder
      <3> HIDE DEF u, m
      <3>6. Above(Head(todo[u]).mutex, m)
        BY <3>3, <3>4, <3>5, TailOrderly
      <3> QED BY <3>6 DEF Above, u, m
    <2>4. \A m \in Mutexes : 9 - Rank[m] \in Nat /\ Rank[m] \in Nat
      BY DEF Mutexes, Rank
    <2> DEFINE D == {9 - Rank[Wants(t)] : t \in S}
    <2>5. D \subseteq Nat /\ D # {}
      BY <2>2, <2>4
    <2>6. PICK d \in D : \A e \in D : d <= e
      <3> HIDE DEF D
      <3> QED BY <2>5, LeastNat
    <2>7. PICK t \in S : d = 9 - Rank[Wants(t)]
      OBVIOUS
    <2>8. 9 - Rank[Wants(WaitsFor(t))] \in D
      OBVIOUS
    <2>9. Rank[Wants(t)] \in Nat /\ Rank[Wants(WaitsFor(t))] \in Nat
      BY <2>2, <2>4
    <2> HIDE DEF D, Wants
    <2> QED BY <2>3, <2>6, <2>7, <2>8, <2>9
  <1> QED BY <1>1, InitInOrder, StepInOrder, PTL DEF Spec
=============================================================================
