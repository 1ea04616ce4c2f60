------------------------- MODULE RuleFilters_proofs -------------------------
(***************************************************************************)
(* Proofs about the blocks of rules and their filters, for any rules,      *)
(* profiles, observers and handles and any failures of the firewall: the   *)
(* state is well typed, what is recorded is in the kernel whole, no filter *)
(* is lost from the books, the lookup finds the rule that is meant, and    *)
(* the filters, the service's too, stop what it finds.                     *)
(***************************************************************************)
EXTENDS RuleFilters, RuleEngine_proofs, TLAPS

\* A thread between installing a block and recording it.
Holds(t) == thread[t].at = "record"

Whole(h, r) ==
  h \in registered /\ FiltersUnder(h) = FiltersOn(h, r, LayersOf(r))
WholeIn(t) == Whole(thread[t].handle, thread[t].rule)

\* A handle is in one record, or in the hands of one thread, and what it stands
\* for is in the kernel whole.
Ownership ==
  /\ \A b \in blocks : Whole(b.handle, b.rule)
  /\ \A t \in Threads : Holds(t) => WholeIn(t)
  /\ \A b, d \in blocks : b.key = d.key \/ b.handle = d.handle => b = d
  /\ \A t \in Threads, b \in blocks : Holds(t) => b.handle # thread[t].handle
  /\ \A t, u \in Threads :
       Holds(t) /\ Holds(u) /\ thread[t].handle = thread[u].handle => t = u

\* A thread with a block to record.
Held(h, r, d) ==
  [at |-> "record", rule |-> r, handle |-> h, left |-> d.left, next |-> d.next]

Owned(h) ==
  \/ \E b \in blocks : b.handle = h
  \/ \E t \in Threads : Holds(t) /\ thread[t].handle = h

\* FiltersKnown, without the threads that hold no handle.
Accounted ==
  /\ \A h \in registered : Owned(h)
  /\ \A f \in kernel : Owned(f.handle) \/ f.handle \in undeleted

\* Every thread is doing something.
Shaped(d) ==
  d = [at |-> d.at, rule |-> d.rule, handle |-> d.handle, left |-> d.left, next |-> d.next]
Working == thread = [t \in Threads |-> thread[t]] /\ \A t \in Threads : Shaped(thread[t])

IInv == Ownership /\ Accounted /\ Working

-----------------------------------------------------------------------------
(* The firewall. *)

\* What follows on an installation is no installation.
LEMMA AfterwardsRests ==
  ASSUME NEW t \in Threads, NEW ok
  PROVE  /\ Shaped(Afterwards(t, ok))
         /\ Afterwards(t, ok).at \in {"restore", "store", "idle"}
  BY DEF Afterwards, Doing, Idle, Shaped

\* A handle that is free is nobody's and has nothing under it.
LEMMA FreeIsFresh ==
  ASSUME NEW h \in Free
  PROVE  /\ h \in Handles /\ h \notin registered /\ FiltersUnder(h) = {}
         /\ \A b \in blocks : b.handle # h
         /\ \A t \in Threads : thread[t].handle # h
  BY DEF Free, InUse, FiltersUnder

\* Lifting one handle's filters leaves the others' alone, and what stays of
\* its own is noted.
LEMMA LiftOne ==
  ASSUME NEW h, Lift(h)
  PROVE  /\ registered' = registered \ {h}
         /\ \A g : g # h => FiltersUnder(g)' = FiltersUnder(g)
         /\ \A f \in kernel' : f \in kernel /\ (f.handle = h => h \in undeleted')
         /\ undeleted \subseteq undeleted'
<1> DEFINE mine == {f \in kernel : f.handle = h}
<1>1. CASE kernel' = kernel \ mine /\ UNCHANGED <<failures, undeleted>>
  BY <1>1 DEF Lift, FiltersUnder
<1>2. ASSUME NEW stay \in (SUBSET mine) \ {{}},
             kernel' = (kernel \ mine) \cup stay, undeleted' = undeleted \cup {h}
      PROVE  /\ \A g : g # h => FiltersUnder(g)' = FiltersUnder(g)
             /\ \A f \in kernel' : f \in kernel /\ (f.handle = h => h \in undeleted')
             /\ undeleted \subseteq undeleted'
  BY <1>2 DEF FiltersUnder
<1>3. registered' = registered \ {h}
  BY DEF Lift
<1> QED BY <1>1, <1>2, <1>3 DEF Lift

\* A block is added whole, and others are left alone.
LEMMA AddAllOne ==
  ASSUME NEW h \in Free, NEW r, AddAll(h, r)
  PROVE  /\ Whole(h, r)' /\ registered' = registered \cup {h}
         /\ \A g : g # h => FiltersUnder(g)' = FiltersUnder(g)
         /\ \A f \in kernel' : f \in kernel \/ f.handle = h
         /\ undeleted' = undeleted
<1>1. \A f \in FiltersOn(h, r, LayersOf(r)) : f.handle = h
  BY DEF FiltersOn
<1>2. FiltersUnder(h) = {}
  BY FreeIsFresh
<1>3. FiltersUnder(h)' = FiltersOn(h, r, LayersOf(r))
  BY <1>1, <1>2 DEF AddAll, FiltersUnder
<1>4. \A g : g # h => FiltersUnder(g)' = FiltersUnder(g)
  BY <1>1 DEF AddAll, FiltersUnder
<1> QED BY <1>1, <1>3, <1>4 DEF AddAll, Whole

\* A block that is not added leaves at most a filter under a handle of nobody's,
\* and a note of it.
LEMMA AddFailsOne ==
  ASSUME NEW h \in Free, NEW r, AddFails(h, r)
  PROVE  /\ registered' = registered
         /\ \A g : g # h => FiltersUnder(g)' = FiltersUnder(g)
         /\ \A f \in kernel' : f \in kernel \/ f.handle \in undeleted'
         /\ undeleted \subseteq undeleted'
<1>1. \A f \in FiltersOn(h, r, {"v4"}) : f.handle = h
  BY DEF FiltersOn
<1>2. CASE UNCHANGED <<kernel, undeleted>>
  BY <1>2 DEF AddFails, FiltersUnder
<1>3. CASE /\ kernel' = kernel \cup FiltersOn(h, r, {"v4"})
           /\ undeleted' = undeleted \cup {h}
  BY <1>1, <1>3 DEF AddFails, FiltersUnder
<1> QED BY <1>2, <1>3 DEF AddFails
-----------------------------------------------------------------------------
(* The steps. *)

\* A step that moves neither blocks nor filters, nor a thread that holds a
\* handle, is none of the books' business.
LEMMA QuietStep ==
  ASSUME IInv, UNCHANGED <<blocks, registered, kernel, undeleted>>,
         NEW t \in Threads, NEW d, Shaped(d), d.at # "record", ~ Holds(t),
         Goes(t, d)
  PROVE  IInv'
<1>1. /\ thread' = [u \in Threads |-> IF u = t THEN d ELSE thread[u]]
      /\ \A u \in Threads : Holds(u)' => Holds(u) /\ thread'[u] = thread[u]
      /\ \A u \in Threads : Holds(u) => Holds(u)' /\ thread'[u] = thread[u]
  BY DEF Goes, IInv, Working, Holds
<1>2. \A h, r : Whole(h, r)' <=> Whole(h, r)
  BY DEF Whole, FiltersUnder
<1>3. Ownership'
  BY <1>1, <1>2 DEF IInv, Ownership, WholeIn
<1>4. \A h : Owned(h) => Owned(h)'
  BY <1>1 DEF Owned
<1>5. Accounted'
  BY <1>4 DEF IInv, Accounted
<1>6. Working'
  BY <1>1 DEF IInv, Working
<1> QED BY <1>3, <1>5, <1>6 DEF IInv

\* The books when no thread moves either.
LEMMA StillStep ==
  ASSUME IInv, UNCHANGED <<blocks, registered, kernel, undeleted, thread>>
  PROVE  IInv'
<1>1. \A h, r : Whole(h, r)' <=> Whole(h, r)
  BY DEF Whole, FiltersUnder
<1>2. Ownership'
  BY <1>1 DEF IInv, Ownership, WholeIn, Holds
<1>3. Accounted'
  BY DEF IInv, Accounted, Owned, Holds
<1> QED BY <1>2, <1>3 DEF IInv, Working

\* Installing puts a new block, whole, into the hands of the thread.
LEMMA BooksInstall ==
  ASSUME IInv, NEW t \in Threads, Install(t) PROVE IInv'
<1> PICK r : r = thread[t].rule
  OBVIOUS
<1>0. ~ Holds(t) /\ blocks' = blocks
  BY DEF Install, At, Holds
<1>1. ASSUME UNCHANGED wfp, NEW ok, Goes(t, Afterwards(t, ok)) PROVE IInv'
  BY <1>0, <1>1, AfterwardsRests, QuietStep DEF wfp
<1>2. ASSUME NEW h \in Free, AddAll(h, r),
             Goes(t, Held(h, r, thread[t]))
      PROVE  IInv'
  <2> PICK d : d = Held(h, r, thread[t])
    OBVIOUS
  <2>2. Shaped(d) /\ d.at = "record" /\ d.handle = h /\ d.rule = r
    BY DEF Shaped, Held
  <2>3. thread' = [u \in Threads |-> IF u = t THEN d ELSE thread[u]]
    BY <1>2 DEF Goes, IInv, Working
  <2>4. \A u \in Threads : u # t => thread'[u] = thread[u] /\ (Holds(u)' <=> Holds(u))
    BY <2>3 DEF Holds
  <2>5. thread'[t] = d /\ Holds(t)'
    BY <2>2, <2>3 DEF Holds
  <2>6. /\ Whole(h, r)' /\ registered' = registered \cup {h}
        /\ \A f \in kernel' : f \in kernel \/ f.handle = h
        /\ undeleted' = undeleted
        /\ \A g : g # h => FiltersUnder(g)' = FiltersUnder(g)
    BY <1>2, AddAllOne
  <2>7. /\ \A b \in blocks : b.handle # h
        /\ \A u \in Threads : thread[u].handle # h
    BY <1>2, FreeIsFresh
  <2>8. Ownership'
    <3>1. \A b \in blocks' : Whole(b.handle, b.rule)'
      BY <1>0, <2>6, <2>7 DEF IInv, Ownership, Whole, FiltersUnder
    <3>2. \A u \in Threads : Holds(u)' => WholeIn(u)'
      <4> SUFFICES ASSUME NEW u \in Threads, Holds(u)' PROVE WholeIn(u)'
        OBVIOUS
      <4>1. CASE u = t
        BY <4>1, <2>2, <2>5, <2>6 DEF WholeIn, Whole
      <4>2. CASE u # t
        <5>1. WholeIn(u) /\ thread[u].handle # h /\ thread'[u] = thread[u]
          BY <4>2, <2>4, <2>7 DEF IInv, Ownership
        <5> QED BY <5>1, <2>6 DEF WholeIn, Whole, FiltersUnder
      <4> QED BY <4>1, <4>2
    <3>3. \A b, c \in blocks' : b.key = c.key \/ b.handle = c.handle => b = c
      BY <1>0 DEF IInv, Ownership
    <3>4. ASSUME NEW u \in Threads, Holds(u)'
          PROVE  /\ u # t => thread'[u].handle # h /\ Holds(u) /\ thread'[u] = thread[u]
                 /\ u = t => thread'[u].handle = h
      BY <3>4, <2>2, <2>4, <2>5, <2>7
    <3>5. \A u \in Threads, b \in blocks' : Holds(u)' => b.handle # thread'[u].handle
      BY <1>0, <2>7, <3>4 DEF IInv, Ownership
    <3>6. \A u, v \in Threads :
            Holds(u)' /\ Holds(v)' /\ thread'[u].handle = thread'[v].handle => u = v
      BY <3>4 DEF IInv, Ownership
    <3> QED BY <3>1, <3>2, <3>3, <3>5, <3>6 DEF Ownership
  <2>9. Accounted'
    <3>1. Owned(h)'
      BY <2>2, <2>5 DEF Owned
    <3>2. \A g : Owned(g) => Owned(g)'
      BY <1>0, <2>4 DEF Owned
    <3> QED BY <2>6, <3>1, <3>2 DEF IInv, Accounted
  <2>10. Working'
    BY <2>2, <2>3 DEF IInv, Working
  <2> QED BY <2>8, <2>9, <2>10 DEF IInv
<1>3. ASSUME NEW h \in Free, AddFails(h, r), Goes(t, Afterwards(t, FALSE))
      PROVE  IInv'
  <2> DEFINE d == Afterwards(t, FALSE)
  <2>1. Shaped(d) /\ d.at # "record"
    BY AfterwardsRests
  <2>2. thread' = [u \in Threads |-> IF u = t THEN d ELSE thread[u]]
    BY <1>3 DEF Goes, IInv, Working
  <2>3. \A u \in Threads : /\ Holds(u)' => Holds(u) /\ thread'[u] = thread[u]
                           /\ Holds(u) => Holds(u)' /\ thread'[u] = thread[u]
    BY <1>0, <2>1, <2>2 DEF Holds
  <2>4. /\ registered' = registered /\ undeleted \subseteq undeleted'
        /\ \A f \in kernel' : f \in kernel \/ f.handle \in undeleted'
        /\ \A g : g # h => FiltersUnder(g)' = FiltersUnder(g)
    BY <1>3, AddFailsOne
  <2>5. /\ \A b \in blocks : b.handle # h
        /\ \A u \in Threads : thread[u].handle # h
    BY <1>3, FreeIsFresh
  <2>6. Ownership'
    <3>1. /\ \A b \in blocks' : Whole(b.handle, b.rule)'
          /\ \A u \in Threads : Holds(u)' => WholeIn(u)'
      BY <1>0, <2>3, <2>4, <2>5 DEF IInv, Ownership, WholeIn, Whole, FiltersUnder
    <3> QED BY <1>0, <2>3, <3>1 DEF IInv, Ownership
  <2>7. \A g : Owned(g) => Owned(g)'
    BY <1>0, <2>3 DEF Owned
  <2>8. Accounted'
    BY <2>4, <2>7 DEF IInv, Accounted
  <2>9. Working'
    BY <2>1, <2>2 DEF IInv, Working
  <2> QED BY <2>6, <2>8, <2>9 DEF IInv
<1> QED BY <1>1, <1>2, <1>3 DEF Install, Held
\* A block is recorded under the handle the thread held; the block it replaces
\* is the only one under its key, and its handle nobody else's.
LEMMA BooksRecord ==
  ASSUME IInv, NEW t \in Threads, Record(t) PROVE IInv'
<1> PICK b : b = [key |-> BlockKey(thread[t].rule), handle |-> thread[t].handle,
                  rule |-> thread[t].rule]
  OBVIOUS
<1> PICK d : d = Afterwards(t, TRUE)
  OBVIOUS
<1> DEFINE old == {c \in blocks : c.key = b.key}
<1>0. Holds(t) /\ blocks' = (blocks \ old) \cup {b} /\ Goes(t, d)
  BY DEF Record, At, Holds
<1>1. b.handle = thread[t].handle /\ b.rule = thread[t].rule
  OBVIOUS
<1>2. Shaped(d) /\ d.at # "record"
  BY AfterwardsRests
<1>3. thread' = [u \in Threads |-> IF u = t THEN d ELSE thread[u]]
  BY <1>0 DEF Goes, IInv, Working
<1>4. \A u \in Threads : /\ Holds(u)' <=> u # t /\ Holds(u)
                         /\ u # t => thread'[u] = thread[u]
  BY <1>2, <1>3 DEF Holds
<1>5. Working'
  BY <1>2, <1>3 DEF IInv, Working
<1>6. Whole(b.handle, b.rule) /\ \A c \in blocks : c.handle # b.handle
  BY <1>0, <1>1 DEF IInv, Ownership, WholeIn
<1>7. /\ \A c, e \in blocks' : c.key = e.key \/ c.handle = e.handle => c = e
      /\ \A u \in Threads, c \in blocks' : Holds(u)' => c.handle # thread'[u].handle
      /\ \A u, v \in Threads :
           Holds(u)' /\ Holds(v)' /\ thread'[u].handle = thread'[v].handle => u = v
  BY <1>0, <1>1, <1>4, <1>6 DEF IInv, Ownership
<1>8. \A g : Owned(g) /\ (\A c \in old : c.handle # g) => Owned(g)'
  <2> SUFFICES ASSUME NEW g, Owned(g), \A c \in old : c.handle # g PROVE Owned(g)'
    OBVIOUS
  <2>1. CASE \E c \in blocks : c.handle = g
    BY <1>0, <2>1 DEF Owned
  <2>2. ASSUME NEW u \in Threads, Holds(u), thread[u].handle = g PROVE Owned(g)'
    <3>1. CASE u = t
      BY <1>0, <1>1, <2>2, <3>1 DEF Owned
    <3>2. CASE u # t
      BY <1>4, <2>2, <3>2 DEF Owned
    <3> QED BY <3>1, <3>2
  <2> QED BY <2>1, <2>2 DEF Owned
<1>9. ASSUME old = {}, UNCHANGED wfp PROVE Ownership' /\ Accounted'
  <2>1. \A h, r : Whole(h, r) => Whole(h, r)'
    BY <1>9 DEF wfp, Whole, FiltersUnder
  <2>2. \A c \in blocks' : Whole(c.handle, c.rule)'
    BY <1>0, <1>6, <2>1 DEF IInv, Ownership
  <2>3. \A u \in Threads : Holds(u)' => WholeIn(u)'
    BY <1>4, <2>1 DEF IInv, Ownership, WholeIn
  <2> QED BY <1>7, <1>8, <1>9, <2>2, <2>3 DEF IInv, Ownership, Accounted, wfp
<1>10. ASSUME NEW e \in old, Lift(e.handle) PROVE Ownership' /\ Accounted'
  <2>1. old = {e}
    BY <1>10 DEF IInv, Ownership
  <2>2. /\ registered' = registered \ {e.handle}
        /\ \A g : g # e.handle => FiltersUnder(g)' = FiltersUnder(g)
        /\ \A f \in kernel' : f \in kernel /\ (f.handle = e.handle => e.handle \in undeleted')
        /\ undeleted \subseteq undeleted'
    BY <1>10, LiftOne
  <2>3. \A h, r : h # e.handle /\ Whole(h, r) => Whole(h, r)'
    BY <2>2 DEF Whole, FiltersUnder
  <2>4. \A c \in blocks' : c.handle # e.handle /\ Whole(c.handle, c.rule)
    BY <1>0, <1>6, <1>10, <2>1 DEF IInv, Ownership
  <2>5. \A u \in Threads : Holds(u)' => WholeIn(u)'
    BY <1>4, <1>10, <2>3 DEF IInv, Ownership, WholeIn
  <2>6. Ownership'
    BY <1>7, <2>3, <2>4, <2>5 DEF Ownership
  <2>7. Accounted'
    BY <1>8, <2>1, <2>2 DEF IInv, Accounted
  <2> QED BY <2>6, <2>7
<1>11. Ownership' /\ Accounted'
  BY <1>9, <1>10 DEF Record
<1> QED BY <1>5, <1>11 DEF IInv

\* A block that is removed takes its handle, and only its own, with it.
LEMMA BooksRemove ==
  ASSUME IInv, NEW t \in Threads, Remove(t) PROVE IInv'
<1>0. ~ Holds(t)
  BY DEF Remove, At, Holds
<1>1. CASE thread[t].left = {} /\ Goes(t, Afterwards(t, TRUE)) /\ UNCHANGED <<blocks, wfp>>
  BY <1>0, <1>1, AfterwardsRests, QuietStep DEF wfp
<1>2. ASSUME NEW gone \in thread[t].left, NEW key, key = gone[1],
             Goes(t, Doing("remove", thread[t].rule, thread[t].left \ {gone},
                           thread[t].next)),
             blocks' = {b \in blocks : b.key # key},
             \/ key \notin {b.key : b \in blocks} /\ UNCHANGED wfp
             \/ \E b \in {b \in blocks : b.key = key} : Lift(b.handle)
      PROVE  IInv'
  <2> PICK d : d = Doing("remove", thread[t].rule, thread[t].left \ {gone}, thread[t].next)
    OBVIOUS
  <2>1. Shaped(d) /\ d.at # "record"
    BY DEF Doing, Shaped
  <2>2. CASE key \notin {b.key : b \in blocks} /\ UNCHANGED wfp
    <3>1. blocks' = blocks
      BY <1>2, <2>2
    <3> QED BY <1>0, <1>2, <2>1, <2>2, <3>1, QuietStep DEF wfp
  <2>3. ASSUME NEW e \in blocks, e.key = key, Lift(e.handle) PROVE IInv'
    <3>1. thread' = [u \in Threads |-> IF u = t THEN d ELSE thread[u]]
      BY <1>2 DEF Goes, IInv, Working
    <3>2. \A u \in Threads : /\ Holds(u)' <=> Holds(u)
                             /\ Holds(u) => thread'[u] = thread[u]
      BY <1>0, <2>1, <3>1 DEF Holds
    <3>3. blocks' = blocks \ {e} /\ \A c \in blocks' : c.handle # e.handle
      BY <1>2, <2>3 DEF IInv, Ownership
    <3>4. /\ registered' = registered \ {e.handle}
          /\ \A g : g # e.handle => FiltersUnder(g)' = FiltersUnder(g)
          /\ \A f \in kernel' : f \in kernel /\ (f.handle = e.handle => e.handle \in undeleted')
          /\ undeleted \subseteq undeleted'
      BY <2>3, LiftOne
    <3>5. \A h, r : h # e.handle /\ Whole(h, r) => Whole(h, r)'
      BY <3>4 DEF Whole, FiltersUnder
    <3>6. \A u \in Threads : Holds(u)' => WholeIn(u)'
      BY <2>3, <3>2, <3>5 DEF IInv, Ownership, WholeIn
    <3>7. Ownership'
      BY <3>2, <3>3, <3>5, <3>6 DEF IInv, Ownership
    <3>8. \A g : Owned(g) /\ g # e.handle => Owned(g)'
      BY <3>2, <3>3 DEF Owned
    <3>9. Accounted'
      BY <3>4, <3>8 DEF IInv, Accounted
    <3>10. Working'
      BY <2>1, <3>1 DEF IInv, Working
    <3> QED BY <3>7, <3>9, <3>10 DEF IInv
  <2> QED BY <1>2, <2>2, <2>3
<1> QED BY <1>1, <1>2 DEF Remove
\* At the start no thread holds a handle.
LEMMA StartIsQuiet ==
  ASSUME NEW rs
  PROVE  /\ StartWith(rs) = [t \in Threads |-> StartWith(rs)[t]]
         /\ \A t \in Threads :
              Shaped(StartWith(rs)[t]) /\ StartWith(rs)[t].at \in {"restore", "idle"}
<1> DEFINE todo == {r \in rs : IsBlocking(r)}
<1>1. \A d \in {Idle, Doing("restore", Nobody, todo, "restore")} :
        Shaped(d) /\ d.at \in {"restore", "idle"}
  BY DEF Doing, Idle, Shaped
<1>2. StartWith(rs) = [t \in Threads |->
        IF t = "ui" /\ todo # {} THEN Doing("restore", Nobody, todo, "restore") ELSE Idle]
  BY DEF StartWith
<1> QED BY <1>1, <1>2

\* The program starts with nothing in the kernel and nobody holding a handle.
LEMMA BooksInit == Init => IInv
<1> SUFFICES ASSUME Init PROVE IInv
  OBVIOUS
<1>1. Working /\ \A t \in Threads : ~ Holds(t)
  BY StartIsQuiet DEF Init, Working, Holds
<1>2. Ownership /\ Accounted
  BY <1>1 DEF Init, Ownership, Accounted
<1> QED BY <1>1, <1>2 DEF IInv

\* Starting again is starting.
LEMMA BooksRestart == ASSUME IInv, Restart PROVE IInv'
<1>1. Working' /\ \A t \in Threads : ~ Holds(t)'
  BY StartIsQuiet DEF Restart, Working, Holds
<1>2. Ownership' /\ Accounted'
  BY <1>1 DEF Restart, Ownership, Accounted
<1> QED BY <1>1, <1>2 DEF IInv

\* The other steps move no filter and no thread that holds one.
LEMMA BooksOthers ==
  ASSUME IInv,
         \/ \E form \in Forms : Upsert(form)
         \/ \E r \in rules : RemoveRule(r)
         \/ \E p \in Profiles : SetActiveProfile(p)
         \/ \E i \in Imports : Import(i)
         \/ Store \/ Restore \/ ImportRules \/ Prune
         \/ \E o \in Observers : Check(o) \/ \E c \in Tried : Lookup(o, c)
  PROVE  IInv'
<1> USE DEF At, Holds, wfp, remembered
<1>0. "ui" \in Threads /\ "ticker" \in Threads /\ Observers \subseteq Threads
  BY DEF Threads
<1>1. ASSUME NEW a, NEW r, NEW l, NEW n, a # "record"
      PROVE  Shaped(Doing(a, r, l, n)) /\ Doing(a, r, l, n).at # "record"
  BY <1>1 DEF Doing, Shaped
<1>2. Shaped(Idle) /\ Idle.at # "record"
  BY DEF Idle, Doing, Shaped
<1>3. ASSUME NEW form \in Forms, Upsert(form) PROVE IInv'
  <2> PICK r : r = [form EXCEPT !.updated = commands']
    OBVIOUS
  <2>1. \/ Goes("ui", Doing("install", r, {}, "store"))
        \/ Goes("ui", Doing("store", r, {}, "store"))
        \/ Goes("ui", Doing("remove", r, KeysOf(r.path), "store"))
    BY <1>3 DEF Upsert
  <2> QED BY <1>0, <1>1, <1>3, <2>1, QuietStep DEF Upsert, Command
<1>4. ASSUME NEW r \in rules, RemoveRule(r) PROVE IInv'
  BY <1>0, <1>1, <1>4, QuietStep DEF RemoveRule, Command
<1>5. CASE \E p \in Profiles : SetActiveProfile(p)
  BY <1>5, StillStep DEF SetActiveProfile
<1>11. ASSUME NEW i \in Imports, Import(i) PROVE IInv'
  BY <1>0, <1>1, <1>11, QuietStep DEF Import, Command
<1>12. CASE ImportRules
  BY <1>0, <1>2, <1>12, QuietStep DEF ImportRules
<1>6. CASE Store
  BY <1>0, <1>2, <1>6, QuietStep DEF Store
<1>7. CASE Restore
  BY <1>0, <1>1, <1>7, QuietStep DEF Restore
<1>8. CASE Prune
  BY <1>0, <1>1, <1>8, QuietStep DEF Prune
<1>9. ASSUME NEW o \in Observers, Check(o) PROVE IInv'
  <2>1. Goes(o, Idle) \/ Goes(o, Doing("install", thread[o].rule, {}, "rest"))
    BY <1>9 DEF Check
  <2> QED BY <1>0, <1>1, <1>2, <1>9, <2>1, QuietStep DEF Check
<1>10. ASSUME NEW o \in Observers, NEW c \in Tried, Lookup(o, c) PROVE IInv'
  BY <1>0, <1>1, <1>10, QuietStep DEF Lookup
<1> QED BY <1>3, <1>4, <1>5, <1>6, <1>7, <1>8, <1>9, <1>10, <1>11, <1>12

\* Every step keeps the books.
LEMMA BooksStep == IInv /\ [Next]_vars => IInv'
<1> SUFFICES ASSUME IInv, [Next]_vars PROVE IInv'
  OBVIOUS
<1>1. CASE UNCHANGED vars
  BY <1>1, StillStep DEF vars
<1>2. ASSUME NEW t \in Threads, Work(t) PROVE IInv'
  BY <1>2, BooksInstall, BooksRecord, BooksRemove DEF Work
<1>3. CASE Next
  BY <1>2, <1>3, BooksRestart, BooksOthers DEF Next, UiStep, TickerStep, ObserverStep, Threads
<1> QED BY <1>1, <1>3

\* The invariant contains both promises.
LEMMA BooksPromise == IInv => BlocksWhole /\ FiltersKnown
<1> SUFFICES ASSUME IInv PROVE BlocksWhole /\ FiltersKnown
  OBVIOUS
<1>1. BlocksWhole
  BY DEF IInv, Ownership, Whole, BlocksWhole
<1>2. \A h : Owned(h) => h \in {b.handle : b \in blocks} \cup {thread[t].handle : t \in Threads}
  BY DEF Owned
<1>3. FiltersKnown
  BY <1>2 DEF IInv, Accounted, FiltersKnown
<1> QED BY <1>1, <1>3

\* Whatever calls of WFP fail and whichever threads install and free blocks at a
\* time, what app_blocks records is in the kernel whole, under a handle of its
\* own (install_block_for_rule, remove_runtime_blocks_for_app, unblock).
THEOREM BlocksStayWhole == Spec => []BlocksWhole
  BY BooksInit, BooksStep, BooksPromise, PTL DEF Spec

\* No filter is lost but one that WFP has refused to delete, for any rules,
\* observers and commands (app_blocks and WfpFirewall.filters).
THEOREM FiltersStayKnown == Spec => []FiltersKnown
  BY BooksInit, BooksStep, BooksPromise, PTL DEF Spec
-----------------------------------------------------------------------------
(* Types. *)

\* What a thread does is about a rule there is, wherever it needs one.
Proper(d) ==
  /\ d.at \in {"idle", "check", "install", "record", "remove", "store", "restore",
               "import"}
  /\ d.rule \in Versions \cup {Nobody} /\ d.handle \in Handles \cup {0}
  /\ d.next \in {"rest", "store", "restore"}
  /\ d.at \in {"check", "install", "record", "store"} \/ d.next = "store" =>
       d.rule \in Versions
  /\ d.at = "record" => d.handle \in Handles
  /\ d.at = "restore" => d.next = "restore"
  /\ d.next = "restore" => d.at # "remove" /\ d.left \subseteq Versions
  /\ d.at = "import" => \E i \in Imports : d.left = i.rules

\* The other variables.
StateOK ==
  /\ rules \subseteq Versions
  /\ \A q, r \in rules : StorageKey(q) = StorageKey(r) => q = r
  /\ profile \in Profiles
  /\ \A b \in blocks : b.handle \in Handles /\ b.rule \in Versions
                         /\ b.key = BlockKey(b.rule)
  /\ \A b, d \in blocks : b.key = d.key => b = d
  /\ registered \subseteq Handles /\ undeleted \subseteq Handles
  /\ \A f \in kernel :
       f.handle \in Handles /\ f.layer \in Families /\ f.rule \in Versions
  /\ commands \in 0 .. MaxCommands /\ failures \in 0 .. MaxFailures

TInv == StateOK /\ Working /\ \A t \in Threads : Proper(thread[t])

\* The versions of the rules are rules; the layers of one that converts are
\* layers.
LEMMA VersionType ==
  /\ Versions \subseteq Rule
  /\ \A r \in Rule : ~ Fails(r.target) => LayersOf(r) \subseteq Families
<1>1. \A r \in Forms, n \in 0 .. MaxCommands : [r EXCEPT !.updated = n] \in Rule
  BY FiltersAssumption DEF Rule
<1>2. Versions \subseteq Rule
  BY <1>1, FiltersAssumption DEF Versions
<1>3. ASSUME NEW r \in Rule, ~ Fails(r.target), HasRemote(r.target)
      PROVE  r.target.addr.family \in Families
  BY <1>3 DEF Rule, Target, Fails, HasRemote, Address
<1> QED BY <1>2, <1>3 DEF LayersOf

\* What follows on work that is done is proper.
LEMMA AfterwardsProper ==
  ASSUME NEW t \in Threads, NEW ok, Proper(thread[t]),
         thread[t].at \in {"install", "record", "remove"}
  PROVE  Proper(Afterwards(t, ok)) /\ Shaped(Afterwards(t, ok))
<1>1. CASE thread[t].next = "restore" /\ thread[t].left # {}
  BY <1>1 DEF Proper, Afterwards, Doing, Shaped
<1>2. CASE ~ (thread[t].next = "restore" /\ thread[t].left # {}) /\ thread[t].next = "store" /\ ok
  BY <1>2 DEF Proper, Afterwards, Doing, Shaped
<1>3. CASE ~ (thread[t].next = "restore" /\ thread[t].left # {}) /\ ~ (thread[t].next = "store" /\ ok)
  BY <1>3 DEF Proper, Afterwards, Doing, Idle, Shaped
<1> QED BY <1>1, <1>2, <1>3

\* One thread goes on to something proper.
LEMMA GoesProper ==
  ASSUME TInv, NEW t \in Threads, NEW d, Proper(d), Shaped(d), Goes(t, d)
  PROVE  Working' /\ \A u \in Threads : Proper(thread'[u])
<1>1. thread' = [u \in Threads |-> IF u = t THEN d ELSE thread[u]]
  BY DEF TInv, Working, Goes
<1>2. \A u \in Threads : Proper(thread'[u])
  BY <1>1 DEF TInv
<1> QED BY <1>1, <1>2 DEF TInv, Working

\* A lift keeps the types, and adds no filter.
LEMMA LiftType ==
  ASSUME StateOK, NEW h \in Handles, Lift(h)
  PROVE  /\ registered' \subseteq Handles /\ undeleted' \subseteq Handles
         /\ kernel' \subseteq kernel /\ failures' \in 0 .. MaxFailures
<1> DEFINE mine == {f \in kernel : f.handle = h}
<1>1. CASE kernel' = kernel \ mine /\ UNCHANGED <<failures, undeleted>>
  BY <1>1 DEF Lift, StateOK
<1>2. ASSUME NEW stay \in (SUBSET mine) \ {{}}, failures < MaxFailures,
             failures' = failures + 1, kernel' = (kernel \ mine) \cup stay,
             undeleted' = undeleted \cup {h}
      PROVE  /\ undeleted' \subseteq Handles /\ kernel' \subseteq kernel
             /\ failures' \in 0 .. MaxFailures
  <2>1. failures' \in 0 .. MaxFailures
    BY <1>2, FiltersAssumption DEF StateOK
  <2>2. stay \subseteq kernel
    BY <1>2
  <2> QED BY <1>2, <2>1, <2>2 DEF StateOK
<1>3. registered' \subseteq Handles
  BY DEF Lift, StateOK
<1> QED BY <1>1, <1>2, <1>3 DEF Lift

\* An installation keeps the types, whether it succeeds or not.
LEMMA AddType ==
  ASSUME StateOK, NEW h \in Free, NEW r \in Versions, ~ Fails(r.target),
         AddAll(h, r) \/ AddFails(h, r)
  PROVE  /\ registered' \subseteq Handles /\ undeleted' \subseteq Handles
         /\ \A f \in kernel' :
              f.handle \in Handles /\ f.layer \in Families /\ f.rule \in Versions
         /\ failures' \in 0 .. MaxFailures
<1>1. h \in Handles
  BY FreeIsFresh
<1>2. \A layers : layers \subseteq Families =>
        \A f \in FiltersOn(h, r, layers) :
          f.handle \in Handles /\ f.layer \in Families /\ f.rule \in Versions
  BY <1>1 DEF FiltersOn
<1>3. LayersOf(r) \subseteq Families
  BY VersionType
<1>4. CASE AddAll(h, r)
  BY <1>1, <1>2, <1>3, <1>4 DEF AddAll, StateOK
<1>5. CASE AddFails(h, r)
  <2>1. failures' \in 0 .. MaxFailures
    BY <1>5, FiltersAssumption DEF AddFails, StateOK
  <2>2. \A f \in FiltersOn(h, r, {"v4"}) :
          f.handle \in Handles /\ f.layer \in Families /\ f.rule \in Versions
    BY <1>2 DEF Families
  <2> QED BY <1>1, <1>5, <2>1, <2>2 DEF AddFails, StateOK
<1> QED BY <1>4, <1>5

\* Installing keeps the types.
LEMMA TypeInstall ==
  ASSUME TInv, NEW t \in Threads, Install(t) PROVE TInv'
<1> PICK r : r = thread[t].rule
  OBVIOUS
<1>0. thread[t].at = "install" /\ Proper(thread[t]) /\ r \in Versions
  BY DEF Install, At, TInv, Proper
<1>1. ASSUME UNCHANGED wfp, NEW ok, Goes(t, Afterwards(t, ok)) PROVE TInv'
  <2>1. Working' /\ \A u \in Threads : Proper(thread'[u])
    BY <1>0, <1>1, AfterwardsProper, GoesProper
  <2> QED BY <1>1, <2>1 DEF Install, TInv, StateOK, wfp, remembered
<1>2. ASSUME NEW h \in Free, ~ Fails(r.target),
             \/ AddAll(h, r) /\ Goes(t, Held(h, r, thread[t]))
             \/ AddFails(h, r) /\ Goes(t, Afterwards(t, FALSE))
      PROVE  TInv'
  <2> PICK d : d = Held(h, r, thread[t])
    OBVIOUS
  <2>1. Proper(d) /\ Shaped(d)
    BY <1>0, FreeIsFresh DEF Held, Proper, Shaped
  <2>2. Working' /\ \A u \in Threads : Proper(thread'[u])
    BY <1>0, <1>2, <2>1, AfterwardsProper, GoesProper
  <2>3. /\ registered' \subseteq Handles /\ undeleted' \subseteq Handles
        /\ \A f \in kernel' :
             f.handle \in Handles /\ f.layer \in Families /\ f.rule \in Versions
        /\ failures' \in 0 .. MaxFailures
    BY <1>0, <1>2, AddType DEF TInv
  <2> QED BY <2>2, <2>3 DEF Install, TInv, StateOK, remembered
<1> QED BY <1>1, <1>2 DEF Install, Held

\* Recording and removing keep the types.
LEMMA TypeRecordRemove ==
  ASSUME TInv, NEW t \in Threads, Record(t) \/ Remove(t) PROVE TInv'
<1>0. Proper(thread[t])
  BY DEF TInv
<1>1. ASSUME UNCHANGED wfp \/ \E b \in blocks : Lift(b.handle)
      PROVE  /\ registered' \subseteq Handles /\ undeleted' \subseteq Handles
             /\ \A f \in kernel' :
                  f.handle \in Handles /\ f.layer \in Families /\ f.rule \in Versions
             /\ failures' \in 0 .. MaxFailures
  BY <1>1, LiftType DEF TInv, StateOK, wfp
<1>2. ASSUME Record(t) PROVE TInv'
  <2> PICK b : b = [key |-> BlockKey(thread[t].rule), handle |-> thread[t].handle,
                    rule |-> thread[t].rule]
    OBVIOUS
  <2>1. thread[t].at = "record"
    BY <1>2 DEF Record, At
  <2>2. Working' /\ \A u \in Threads : Proper(thread'[u])
    BY <1>0, <1>2, <2>1, AfterwardsProper, GoesProper DEF Record
  <2>3. b.handle \in Handles /\ b.rule \in Versions /\ b.key = BlockKey(b.rule)
    BY <1>0, <2>1 DEF Proper
  <2>4. blocks' = (blocks \ {c \in blocks : c.key = b.key}) \cup {b}
    BY <1>2 DEF Record
  <2>5. /\ \A c \in blocks' : c.handle \in Handles /\ c.rule \in Versions
                              /\ c.key = BlockKey(c.rule)
        /\ \A c, d \in blocks' : c.key = d.key => c = d
    BY <2>3, <2>4 DEF TInv, StateOK
  <2>6. UNCHANGED wfp \/ \E d \in blocks : Lift(d.handle)
    BY <1>2 DEF Record
  <2> QED BY <1>1, <1>2, <2>2, <2>5, <2>6 DEF Record, TInv, StateOK, remembered
<1>3. ASSUME Remove(t) PROVE TInv'
  <2>1. thread[t].at = "remove"
    BY <1>3 DEF Remove, At
  <2>2. ASSUME NEW gone \in thread[t].left,
               Goes(t, Doing("remove", thread[t].rule, thread[t].left \ {gone},
                             thread[t].next))
        PROVE  Working' /\ \A u \in Threads : Proper(thread'[u])
    <3> PICK d : d = Doing("remove", thread[t].rule, thread[t].left \ {gone}, thread[t].next)
      OBVIOUS
    <3>1. Proper(d) /\ Shaped(d)
      BY <1>0, <2>1 DEF Proper, Doing, Shaped
    <3> QED BY <2>2, <3>1, GoesProper
  <2>3. Working' /\ \A u \in Threads : Proper(thread'[u])
    BY <1>0, <1>3, <2>1, <2>2, AfterwardsProper, GoesProper DEF Remove
  <2>4. blocks' \subseteq blocks /\ (UNCHANGED wfp \/ \E b \in blocks : Lift(b.handle))
    BY <1>3 DEF Remove
  <2> QED BY <1>1, <1>3, <2>3, <2>4 DEF Remove, TInv, StateOK, remembered
<1> QED BY <1>2, <1>3
\* At the start every thread does something proper.
LEMMA StartIsProper ==
  ASSUME NEW rs, rs \subseteq Versions
  PROVE  /\ StartWith(rs) = [t \in Threads |-> StartWith(rs)[t]]
         /\ \A t \in Threads : Shaped(StartWith(rs)[t]) /\ Proper(StartWith(rs)[t])
<1> DEFINE todo == {r \in rs : IsBlocking(r)}
<1>1. Proper(Idle) /\ Proper(Doing("restore", Nobody, todo, "restore"))
  BY DEF Doing, Idle, Proper
<1>2. StartWith(rs) = [t \in Threads |->
        IF t = "ui" /\ todo # {} THEN Doing("restore", Nobody, todo, "restore") ELSE Idle]
  BY DEF StartWith
<1>3. \A t \in Threads : Proper(StartWith(rs)[t])
  BY <1>1, <1>2
<1> QED BY <1>3, StartIsQuiet

\* The commands of the page keep the types.
LEMMA TypeCommands ==
  ASSUME TInv,
         \/ \E form \in Forms : Upsert(form)
         \/ \E r \in rules : RemoveRule(r)
         \/ \E p \in Profiles : SetActiveProfile(p)
         \/ \E i \in Imports : Import(i)
  PROVE  TInv'
<1>0. "ui" \in Threads
  BY DEF Threads
<1>1. ASSUME Command PROVE commands' \in 0 .. MaxCommands
  BY <1>1, FiltersAssumption DEF Command, TInv, StateOK
<1>2. ASSUME NEW form \in Forms, Upsert(form) PROVE TInv'
  <2> PICK r : r = [form EXCEPT !.updated = commands']
    OBVIOUS
  <2>1. r \in Versions /\ commands' \in 0 .. MaxCommands
    BY <1>1, <1>2 DEF Upsert, Versions
  <2>2. \E d \in {Doing("install", r, {}, "store"), Doing("store", r, {}, "store"),
                Doing("remove", r, KeysOf(r.path), "store")} : Goes("ui", d)
    BY <1>2 DEF Upsert
  <2>3. \A d \in {Doing("install", r, {}, "store"), Doing("store", r, {}, "store"),
                Doing("remove", r, KeysOf(r.path), "store")} : Proper(d) /\ Shaped(d)
    BY <2>1 DEF Proper, Shaped, Doing
  <2>4. Working' /\ \A u \in Threads : Proper(thread'[u])
    BY <1>0, <2>2, <2>3, GoesProper
  <2> QED BY <1>2, <2>1, <2>4 DEF Upsert, TInv, StateOK, remembered, wfp
<1>3. ASSUME NEW r \in rules, RemoveRule(r) PROVE TInv'
  <2> PICK d : d = Doing("remove", r, KeysOf(r.path), "rest")
    OBVIOUS
  <2>1. Proper(d) /\ Shaped(d)
    BY DEF Proper, Shaped, Doing, TInv, StateOK
  <2>2. Working' /\ \A u \in Threads : Proper(thread'[u])
    BY <1>0, <1>3, <2>1, GoesProper DEF RemoveRule
  <2> QED BY <1>1, <1>3, <2>2 DEF RemoveRule, TInv, StateOK, wfp
<1>4. ASSUME NEW p \in Profiles, SetActiveProfile(p) PROVE TInv'
  BY <1>1, <1>4 DEF SetActiveProfile, TInv, StateOK, wfp, Working
<1>5. ASSUME NEW i \in Imports, Import(i) PROVE TInv'
  <2> PICK d : d = Doing("import", Nobody, i.rules, "rest")
    OBVIOUS
  <2>1. Proper(d) /\ Shaped(d)
    BY DEF Proper, Shaped, Doing
  <2>2. Working' /\ \A u \in Threads : Proper(thread'[u])
    BY <1>0, <1>5, <2>1, GoesProper DEF Import
  <2>3. i.profile \in Profiles
    BY FiltersAssumption
  <2> QED BY <1>1, <1>5, <2>2, <2>3 DEF Import, TInv, StateOK, wfp
<1> QED BY <1>2, <1>3, <1>4, <1>5

\* The rest of the steps keep the types: storing rules, restoring, starting
\* again, looking up, and what the ticker weeds out.
LEMMA TypeOthers ==
  ASSUME TInv,
         \/ Store \/ Restore \/ ImportRules \/ Restart \/ Prune
         \/ \E o \in Observers : Check(o) \/ \E c \in Tried : Lookup(o, c)
  PROVE  TInv'
<1>0. "ui" \in Threads /\ "ticker" \in Threads /\ Observers \subseteq Threads
  BY DEF Threads
<1>1. Proper(Idle) /\ Shaped(Idle)
  BY DEF Proper, Shaped, Idle, Doing
<1>2. ASSUME Store PROVE TInv'
  <2>1. Working' /\ \A u \in Threads : Proper(thread'[u])
    BY <1>0, <1>1, <1>2, GoesProper DEF Store
  <2>2. thread["ui"].rule \in Versions
    BY <1>0, <1>2 DEF Store, At, TInv, Proper
  <2>3. /\ rules' \subseteq Versions
        /\ \A q, r \in rules' : StorageKey(q) = StorageKey(r) => q = r
    BY <1>2, <2>2 DEF Store, Put, TInv, StateOK
  <2> QED BY <1>2, <2>1, <2>3 DEF Store, TInv, StateOK, wfp
<1>3. ASSUME Restore PROVE TInv'
  <2>1. PICK r \in thread["ui"].left :
          Goes("ui", Doing("install", r, thread["ui"].left \ {r}, "restore"))
    BY <1>3 DEF Restore
  <2> PICK d : d = Doing("install", r, thread["ui"].left \ {r}, "restore")
    OBVIOUS
  <2>2. thread["ui"].left \subseteq Versions
    BY <1>0, <1>3 DEF Restore, At, TInv, Proper
  <2>3. Proper(d) /\ Shaped(d)
    BY <2>2 DEF Proper, Shaped, Doing
  <2>4. Working' /\ \A u \in Threads : Proper(thread'[u])
    BY <1>0, <2>1, <2>3, GoesProper
  <2> QED BY <1>3, <2>4 DEF Restore, TInv, StateOK, wfp, remembered
<1>4. ASSUME Restart PROVE TInv'
  <2>1. Working' /\ \A u \in Threads : Proper(thread'[u])
    BY <1>4, StartIsProper DEF Restart, TInv, StateOK, Working
  <2>2. commands' \in 0 .. MaxCommands
    BY <1>4, FiltersAssumption DEF Restart, TInv, StateOK
  <2> QED BY <1>4, <2>1, <2>2 DEF Restart, TInv, StateOK, remembered
<1>5. ASSUME Prune PROVE TInv'
  <2>1. PICK d : Goes("ticker", d) /\ d = Doing("remove", Nobody,
                   {<<BlockKey(r), StorageKey(r)>> : r \in {r \in rules : ~ IsActive(r)}},
                   "rest")
    BY <1>5 DEF Prune
  <2>2. Proper(d) /\ Shaped(d)
    BY <2>1 DEF Proper, Shaped, Doing
  <2>3. Working' /\ \A u \in Threads : Proper(thread'[u])
    BY <1>0, <2>1, <2>2, GoesProper
  <2>4. rules' \subseteq rules
    BY <1>5 DEF Prune
  <2> QED BY <1>5, <2>3, <2>4 DEF Prune, TInv, StateOK, wfp
<1>6. ASSUME NEW o \in Observers, Check(o) PROVE TInv'
  <2> PICK d : d = Doing("install", thread[o].rule, {}, "rest")
    OBVIOUS
  <2>1. Goes(o, Idle) \/ Goes(o, d)
    BY <1>6 DEF Check
  <2>2. thread[o].rule \in Versions
    BY <1>0, <1>6 DEF Check, At, TInv, Proper
  <2>3. Proper(d) /\ Shaped(d)
    BY <2>2 DEF Proper, Shaped, Doing
  <2>4. Working' /\ \A u \in Threads : Proper(thread'[u])
    BY <1>0, <1>1, <2>1, <2>3, GoesProper
  <2> QED BY <1>6, <2>4 DEF Check, TInv, StateOK, wfp, remembered
<1>7. ASSUME NEW o \in Observers, NEW c \in Tried, Lookup(o, c) PROVE TInv'
  <2>1. PICK r \in rules : Goes(o, Doing("check", r, {}, "rest"))
    BY <1>7 DEF Lookup
  <2> PICK d : d = Doing("check", r, {}, "rest")
    OBVIOUS
  <2>2. Proper(d) /\ Shaped(d)
    BY DEF Proper, Shaped, Doing, TInv, StateOK
  <2>3. Working' /\ \A u \in Threads : Proper(thread'[u])
    BY <1>0, <2>1, <2>2, GoesProper
  <2> QED BY <1>7, <2>3 DEF Lookup, TInv, StateOK, wfp, remembered
<1>8. ASSUME ImportRules PROVE TInv'
  <2>1. Working' /\ \A u \in Threads : Proper(thread'[u])
    BY <1>0, <1>1, <1>8, GoesProper DEF ImportRules
  <2>2. PICK i \in Imports : rules' = i.rules
    BY <1>0, <1>8 DEF ImportRules, At, TInv, Proper
  <2>3. /\ i.rules \subseteq Versions
        /\ \A q, r \in i.rules : StorageKey(q) = StorageKey(r) => q = r
    BY FiltersAssumption DEF Versions
  <2> QED BY <1>8, <2>1, <2>2, <2>3 DEF ImportRules, TInv, StateOK, wfp
<1> QED BY <1>2, <1>3, <1>4, <1>5, <1>6, <1>7, <1>8

\* The variables start within their types.
LEMMA TypeInit == Init => TInv
<1> SUFFICES ASSUME Init PROVE TInv
  OBVIOUS
<1>1. PICK i \in Imports : rules = i.rules /\ profile = i.profile
  BY DEF Init
<1>2. /\ rules \subseteq Versions /\ profile \in Profiles
      /\ \A q, r \in rules : StorageKey(q) = StorageKey(r) => q = r
  BY <1>1, FiltersAssumption DEF Versions
<1>3. Working /\ \A u \in Threads : Proper(thread[u])
  BY <1>2, StartIsProper DEF Init, Working
<1>4. 0 \in 0 .. MaxCommands /\ 0 \in 0 .. MaxFailures
  BY FiltersAssumption
<1> QED BY <1>2, <1>3, <1>4 DEF Init, TInv, StateOK

\* Every step keeps the types.
LEMMA TypeStep == TInv /\ [Next]_vars => TInv'
<1> SUFFICES ASSUME TInv, [Next]_vars PROVE TInv'
  OBVIOUS
<1>1. CASE UNCHANGED vars
  BY <1>1 DEF vars, TInv, StateOK, Working
<1>2. ASSUME NEW t \in Threads, Work(t) PROVE TInv'
  BY <1>2, TypeInstall, TypeRecordRemove DEF Work
<1>3. CASE Next
  BY <1>2, <1>3, TypeCommands, TypeOthers
     DEF Next, UiStep, TickerStep, ObserverStep, Threads
<1> QED BY <1>1, <1>3

\* Every reachable state of the rules, the blocks and the filters is well typed,
\* for any rules, observers and failures; in particular no two rules and no two
\* blocks share a key (program_rules, app_blocks).
THEOREM TypeCorrect == Spec => []TypeOK
<1>1. TInv => TypeOK
  BY DEF TInv, StateOK, Proper, TypeOK
<1> QED BY <1>1, TypeInit, TypeStep, PTL DEF Spec

-----------------------------------------------------------------------------
(* What the lookup finds, what the filters stop, and what the service says. *)

\* Finitely many rules never become infinitely many.
LEMMA FinitelyMany == Spec => []IsFiniteSet(rules)
<1>1. Init => IsFiniteSet(rules)
  BY FiltersAssumption DEF Init
<1>2. ASSUME TInv, IsFiniteSet(rules), [Next]_vars PROVE IsFiniteSet(rules)'
  <2>1. CASE rules' \subseteq rules
    BY <1>2, <2>1, FS_Subset
  <2>2. CASE Store
    <3>1. PICK some, r : some \in SUBSET rules /\ rules' = some \cup {r}
      BY <2>2 DEF Store, Put
    <3>2. IsFiniteSet(some)
      BY <1>2, <3>1, FS_Subset
    <3> QED BY <3>1, <3>2, FS_AddElement
  <2>3. CASE ImportRules
    <3>1. PICK i \in Imports : rules' = i.rules
      BY <1>2, <2>3 DEF ImportRules, At, TInv, Proper, Threads
    <3> QED BY <3>1, FiltersAssumption
  <2>4. ASSUME NEW t, Work(t) PROVE rules' \subseteq rules
    BY <2>4 DEF Work, Install, Record, Remove, remembered
  <2>5. CASE Next
    <3>1. ASSUME Next, ~ Store, ~ ImportRules PROVE rules' \subseteq rules
      BY <3>1, <2>4 DEF Next, Upsert, RemoveRule, SetActiveProfile, Import, Restart, UiStep, TickerStep,
                        ObserverStep, Restore, Lookup, Check, Prune, remembered
    <3> QED BY <2>1, <2>2, <2>3, <2>5, <3>1
  <2>6. CASE UNCHANGED vars
    BY <1>2, <2>6 DEF vars
  <2> QED BY <1>2, <2>5, <2>6
<1> QED BY <1>1, <1>2, TypeInit, TypeStep, PTL DEF Spec

\* After any commands, imports and restarts and in whatever order the hash map
\* hands the rules out, the rule find_rule_in decides on is one the rules are
\* meant to give.
THEOREM LookupFindsTheBest == Spec => []LookupIsBest
<1>1. TInv /\ IsFiniteSet(rules) => LookupIsBest
  <2> SUFFICES ASSUME TInv, IsFiniteSet(rules), NEW c \in Connections
               PROVE  Found(rules, c, profile, FALSE) = Intended(rules, c, profile)
    BY DEF LookupIsBest
  <2>1. rules \in SUBSET Rule /\ profile \in Profiles
    BY VersionType DEF TInv, StateOK
  <2> QED BY <2>1, LookupIsIntended
<1> QED BY <1>1, TypeInit, TypeStep, FinitelyMany, PTL DEF Spec

\* The filters recorded for a plain rule stop the connections the lookup takes
\* the rule to be about, and no others, on any networks, families and ports
\* (target_matches, add_identity_block_filter), whatever calls have failed.
THEOREM BlocksStopTheRight == Spec => []BlocksExact
<1>1. TInv /\ IInv => BlocksExact
  <2> SUFFICES ASSUME TInv, IInv, NEW b \in blocks, IsPlain(b.rule),
                      NEW c \in Connections, c.id = b.rule.id
               PROVE  (\E f \in FiltersUnder(b.handle) : FilterMatches(f.rule, f.layer, c))
                        <=> Matches(b.rule, c)
    BY DEF BlocksExact
  <2>1. b.rule \in Rule /\ c \in Conn
    BY VersionType, FiltersAssumption DEF TInv, StateOK
  <2>2. FiltersUnder(b.handle) = FiltersOn(b.handle, b.rule, LayersOf(b.rule))
    BY DEF IInv, Ownership, Whole
  <2>3. (\E f \in FiltersUnder(b.handle) : FilterMatches(f.rule, f.layer, c))
          <=> \E layer \in LayersOf(b.rule) : FilterMatches(b.rule, layer, c)
    <3> DEFINE under == FiltersUnder(b.handle)
               layers == LayersOf(b.rule)
               r == b.rule
               Stops(layer) == FilterMatches(r, layer, c)
    <3>1. \A f \in under : f.layer \in layers /\ f.rule = r
      BY <2>2 DEF FiltersOn
    <3>2. ASSUME NEW layer \in layers PROVE \E f \in under : f.layer = layer /\ f.rule = r
      <4> PICK f : f = [handle |-> b.handle, layer |-> layer, rule |-> r]
        OBVIOUS
      <4>1. f \in under
        BY <2>2 DEF FiltersOn
      <4> QED BY <4>1
    <3>3. \A f \in under : FilterMatches(f.rule, f.layer, c) <=> Stops(f.layer)
      BY <3>1
    <3> HIDE DEF under, layers, r, Stops
    <3>4. (\E f \in under : FilterMatches(f.rule, f.layer, c))
            <=> \E layer \in layers : Stops(layer)
      BY <3>1, <3>2, <3>3
    <3> QED BY <3>4 DEF under, layers, r, Stops
  <2> QED BY <2>1, <2>3, FiltersAreMatches
<1> QED BY <1>1, BooksInit, BooksStep, TypeInit, TypeStep, PTL DEF Spec

\* Where the application finds a plain blocking rule for the active profile or
\* for all, the filters of the boot service block too (rule_in_active_scope and
\* apply in service/src/lib.rs), whatever permits it adds for other rules.
THEOREM ServiceBlocksToo == Spec => []ServiceAgrees
<1>1. TInv /\ IsFiniteSet(rules) => ServiceAgrees
  <2> SUFFICES ASSUME TInv, IsFiniteSet(rules), NEW c \in Connections,
                      NEW r \in Blocking(c), r.profile \in {"global", profile}
               PROVE  ServiceSays(rules, profile, c) = "block"
    BY DEF ServiceAgrees
  <2>1. rules \in SUBSET Rule /\ c \in Conn
    BY VersionType, FiltersAssumption DEF TInv, StateOK
  <2>2. PICK found : found = Found(rules, c, profile, FALSE)
    OBVIOUS
  <2>3. r \in found \ {Nobody} /\ IsBlocking(r) /\ IsPlain(r) /\ r.id = c.id
    BY <2>2 DEF Blocking
  <2>4. r \in Fitting(rules, c, profile, FALSE)
    <3> PICK s : s = FALSE
      OBVIOUS
    <3>1. found = IF Fitting(rules, c, profile, s) = {} THEN {Nobody}
                  ELSE Best(Fitting(rules, c, profile, s), profile, s)
      BY <2>1, <2>2, FoundIsBest
    <3>2. r \in Fitting(rules, c, profile, s)
      BY <2>3, <3>1 DEF Best
    <3> QED BY <3>2
  <2>5. r \in rules /\ Matches(r, c) /\ IsActive(r)
    BY <2>4 DEF Fitting, Fits
  <2>6. r \in ServiceRules(rules, profile)
    BY <2>5 DEF ServiceRules, InScope, Matches
  <2>7. r.id # Nobody
    BY <2>1, <2>3, RuleAssumption DEF Conn
  <2>8. \E layer \in LayersOf(r) : FilterMatches(r, layer, c)
    BY <2>1, <2>3, <2>5, FiltersAreMatches
  <2>9. ServiceFilterMatches(r, c)
    BY <2>7, <2>8 DEF ServiceFilterMatches
  <2> QED BY <2>3, <2>6, <2>9 DEF ServiceSays
<1> QED BY <1>1, TypeInit, TypeStep, FinitelyMany, PTL DEF Spec
=============================================================================
