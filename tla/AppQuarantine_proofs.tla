------------------------ MODULE AppQuarantine_proofs ------------------------
(***************************************************************************)
(* Proofs about AppQuarantine: its types, that every record is of a live   *)
(* filter, and what the commands undo when activities follow one another.  *)
(***************************************************************************)
EXTENDS AppQuarantine, TLAPS, SequenceTheorems, WellFoundedInduction

-----------------------------------------------------------------------------
(* Rule maps: what Without leaves, and what the lookup finds. *)

\* Every nonempty set of naturals has a least element.
LEMMA LeastNat ==
  ASSUME NEW S, S \subseteq Nat, S # {}
  PROVE  \E x \in S : \A y \in S : x <= y
  <1> DEFINE R == {ss \in Nat \X Nat : ss[1] < ss[2]}
  <1>0. IsWellFoundedOn(R, Nat)
    BY NatLessThanWellFounded, Zenon DEF OpToRel
  <1>1. \E x \in S : \A y \in S : <<y, x>> \notin R
    <2> HIDE DEF R
    <2> QED BY <1>0, WFMin
  <1>2. PICK x \in S : \A y \in S : <<y, x>> \notin R
    BY <1>1
  <1>3. ASSUME NEW y \in S PROVE x <= y
    <2>1. x \in Nat /\ y \in Nat  OBVIOUS
    <2>2. ~ (y < x)
      BY <1>2, <2>1
    <2> QED BY <2>1, <2>2
  <1> QED BY <1>3

\* One step of the recursion of Without.
Rest(g, q, gone, i) ==
  IF i = 0 THEN <<>>
  ELSE IF q[i] \in gone THEN g[i - 1] ELSE Append(g[i - 1], q[i])

\* The recursive function of Without is defined on 0 .. Len(q).
LEMMA RestExists ==
  ASSUME NEW R, NEW q \in Seq(R), NEW gone, NEW n \in Nat
  PROVE  \E g : g = [i \in 0 .. n |-> Rest(g, q, gone, i)]
  <1> DEFINE Upto(m) == \E g : g = [i \in 0 .. m |-> Rest(g, q, gone, i)]
             Bad == {m \in Nat : ~ Upto(m)}
  <1>1. SUFFICES ASSUME Bad # {} PROVE FALSE
    OBVIOUS
  <1>2. PICK m \in Bad : \A k \in Bad : m <= k
    <2> HIDE DEF Bad
    <2>1. Bad \subseteq Nat  BY DEF Bad
    <2> QED BY <2>1, <1>1, LeastNat
  <1>3. m \in Nat /\ ~ Upto(m)
    OBVIOUS
  <1>4. m # 0
    <2>1. [i \in 0 .. 0 |-> <<>>] = [i \in 0 .. 0 |-> Rest([k \in 0 .. 0 |-> <<>>], q, gone, i)]
      BY DEF Rest
    <2>2. Upto(0)
      BY <2>1
    <2> QED BY <2>2, <1>3
  <1>5. m - 1 \in Nat /\ m - 1 \notin Bad
    <2> HIDE DEF Bad
    <2> QED BY <1>2, <1>3, <1>4
  <1>6. PICK g : g = [i \in 0 .. m - 1 |-> Rest(g, q, gone, i)]
    BY <1>5
  <1> DEFINE h == [i \in 0 .. m |-> IF i = m THEN Rest(g, q, gone, m) ELSE g[i]]
  <1>7. ASSUME NEW i \in 0 .. m PROVE h[i] = Rest(h, q, gone, i)
    <2>1. i # 0 => i - 1 \in 0 .. m /\ i - 1 # m /\ h[i - 1] = g[i - 1]
      BY <1>3
    <2>2. Rest(h, q, gone, i) = Rest(g, q, gone, i)
      BY <2>1 DEF Rest
    <2>3. i # m => g[i] = Rest(g, q, gone, i)
      BY <1>3, <1>6, i \in 0 .. m - 1 \/ i = m
    <2> QED BY <2>2, <2>3
  <1>8. h = [i \in 0 .. m |-> Rest(h, q, gone, i)]
    BY <1>7
  <1> QED BY <1>8, <1>3

\* Without, one rule more at a time.
LEMMA WithoutUnfolds ==
  ASSUME NEW R, NEW q \in Seq(R), NEW gone
  PROVE  \E g : /\ g = [i \in 0 .. Len(q) |-> Rest(g, q, gone, i)]
                /\ Without(q, gone) = g[Len(q)]
  <1> DEFINE g == CHOOSE g : g = [i \in 0 .. Len(q) |-> Rest(g, q, gone, i)]
  <1>1. g = [i \in 0 .. Len(q) |-> Rest(g, q, gone, i)]
    BY RestExists, LenProperties
  <1>2. Without(q, gone) = g[Len(q)]
    BY DEF Without, Rest
  <1> QED BY <1>1, <1>2
\* s is the map q, as far as dom, without the rules in gone.
Weeded(s, q, dom, gone, R) ==
  /\ s \in Seq(R)
  /\ \A j \in DOMAIN s : s[j] \notin gone /\ \E i \in dom : s[j] = q[i]
  /\ \A i \in dom : q[i] \notin gone => \E j \in DOMAIN s : s[j] = q[i]
  /\ \A j, k \in DOMAIN s : j < k =>
       \E i, l \in dom : i < l /\ s[j] = q[i] /\ s[k] = q[l]

\* Without leaves a map, of the rules that stay and in their order.
LEMMA WithoutWeeds ==
  ASSUME NEW R, NEW q \in Seq(R), NEW gone
  PROVE  Weeded(Without(q, gone), q, DOMAIN q, gone, R)
  <1>1. PICK g : /\ g = [i \in 0 .. Len(q) |-> Rest(g, q, gone, i)]
                 /\ Without(q, gone) = g[Len(q)]
    BY WithoutUnfolds
  <1>2. Len(q) \in Nat /\ DOMAIN q = 1 .. Len(q)
    BY LenProperties
  <1> DEFINE Kept(n) == Weeded(g[n], q, 1 .. n, gone, R)
             Bad == {n \in 0 .. Len(q) : ~ Kept(n)}
  <1>3. SUFFICES ASSUME Bad # {} PROVE FALSE
    <2>1. Bad = {} => Kept(Len(q))
      BY <1>2
    <2> QED BY <1>1, <1>2, <2>1
  <1>4. PICK n \in Bad : \A k \in Bad : n <= k
    <2> HIDE DEF Bad
    <2>1. Bad \subseteq Nat  BY DEF Bad
    <2> QED BY <2>1, <1>3, LeastNat
  <1>5. n \in 0 .. Len(q) /\ ~ Kept(n)
    OBVIOUS
  <1>6. g[n] = Rest(g, q, gone, n)
    BY <1>1, <1>5
  <1>7. n # 0
    <2>1. SUFFICES ASSUME n = 0 PROVE Kept(0)
      BY <1>5
    <2>2. g[0] = <<>>
      BY <1>6, <2>1 DEF Rest
    <2>3. <<>> \in Seq(R) /\ DOMAIN <<>> = {} /\ 1 .. 0 = {}
      BY EmptySeq
    <2> QED BY <2>2, <2>3 DEF Weeded
  <1>8. n - 1 \in 0 .. Len(q) /\ Kept(n - 1)
    <2>1. n - 1 \in 0 .. Len(q) /\ n - 1 \notin Bad
      <3> HIDE DEF Bad
      <3> QED BY <1>2, <1>4, <1>5, <1>7
    <2> QED BY <2>1
  <1>9. n \in 1 .. Len(q) /\ q[n] \in R /\ 1 .. n - 1 \subseteq 1 .. n
    BY <1>2, <1>5, <1>7
  <1> DEFINE s == g[n - 1]
  <1>10. CASE q[n] \in gone
    <2>1. g[n] = s
      BY <1>6, <1>7, <1>10 DEF Rest
    <2>2. \A i \in 1 .. n : q[i] \notin gone => i \in 1 .. n - 1
      BY <1>10, <1>9, <1>2
    <2>3. ASSUME NEW t, Weeded(t, q, 1 .. n - 1, gone, R) PROVE Weeded(t, q, 1 .. n, gone, R)
      <3>1. 1 .. n - 1 \subseteq 1 .. n
        BY <1>9
      <3>2. t \in Seq(R)
        BY <2>3 DEF Weeded
      <3>3. \A j \in DOMAIN t : t[j] \notin gone /\ \E i \in 1 .. n : t[j] = q[i]
        BY <2>3, <3>1, Zenon DEF Weeded
      <3>4. \A i \in 1 .. n : q[i] \notin gone => \E j \in DOMAIN t : t[j] = q[i]
        BY <2>3, <2>2, Zenon DEF Weeded
      <3>5. \A j, k \in DOMAIN t : j < k =>
               \E i, l \in 1 .. n : i < l /\ t[j] = q[i] /\ t[k] = q[l]
        <4>1. \A j, k \in DOMAIN t : j < k =>
                 \E i, l \in 1 .. n - 1 : i < l /\ t[j] = q[i] /\ t[k] = q[l]
          BY <2>3 DEF Weeded
        <4>2. TAKE j, k \in DOMAIN t
        <4>3. HAVE j < k
        <4>4. PICK i \in 1 .. n - 1, l \in 1 .. n - 1 : i < l /\ t[j] = q[i] /\ t[k] = q[l]
          BY <4>1, <4>3
        <4>5. i \in 1 .. n /\ l \in 1 .. n
          BY <3>1
        <4> QED BY <4>4, <4>5
      <3> QED BY <3>2, <3>3, <3>4, <3>5, Zenon DEF Weeded
    <2>4. Kept(n)
      BY <2>1, <2>3, <1>8
    <2> QED BY <2>4, <1>5
  <1>11. CASE q[n] \notin gone
    <2>1. g[n] = Append(s, q[n])
      BY <1>6, <1>7, <1>11 DEF Rest
    <2>2. s \in Seq(R)
      BY <1>8 DEF Weeded
    <2>3. /\ g[n] \in Seq(R) /\ DOMAIN g[n] = 1 .. Len(s) + 1 /\ DOMAIN s = 1 .. Len(s)
          /\ Len(s) \in Nat /\ g[n][Len(s) + 1] = q[n]
          /\ \A j \in 1 .. Len(s) : g[n][j] = s[j]
      <3> HIDE DEF s
      <3> QED BY <2>1, <2>2, <1>9, AppendProperties, LenProperties
    <2>4. \A j \in DOMAIN g[n] : g[n][j] \notin gone /\ \E i \in 1 .. n : g[n][j] = q[i]
      <3> HIDE DEF s
      <3>1. \A j \in DOMAIN s : s[j] \notin gone /\ \E i \in 1 .. n - 1 : s[j] = q[i]
        BY <1>8 DEF s, Weeded
      <3>2. TAKE j \in DOMAIN g[n]
      <3>3. CASE j \in 1 .. Len(s)
        BY <3>1, <3>3, <2>3, <1>9
      <3>4. CASE j = Len(s) + 1
        BY <3>4, <2>3, <1>11, <1>9, n \in 1 .. n
      <3> QED BY <3>3, <3>4, <2>3
    <2>5. \A i \in 1 .. n : q[i] \notin gone => \E j \in DOMAIN g[n] : g[n][j] = q[i]
      <3> HIDE DEF s
      <3>1. \A i \in 1 .. n - 1 : q[i] \notin gone => \E j \in DOMAIN s : s[j] = q[i]
        BY <1>8 DEF s, Weeded
      <3>2. TAKE i \in 1 .. n
      <3>3. CASE i \in 1 .. n - 1
        BY <3>1, <3>3, <2>3
      <3>4. CASE i = n
        BY <3>4, <2>3
      <3> QED BY <3>3, <3>4, <1>9
    <2>6. \A j, k \in DOMAIN g[n] : j < k =>
             \E i, l \in 1 .. n : i < l /\ g[n][j] = q[i] /\ g[n][k] = q[l]
      <3> HIDE DEF s
      <3>1. /\ \A j, k \in DOMAIN s : j < k =>
                 \E i, l \in 1 .. n - 1 : i < l /\ s[j] = q[i] /\ s[k] = q[l]
            /\ \A j \in DOMAIN s : s[j] \notin gone /\ \E i \in 1 .. n - 1 : s[j] = q[i]
        BY <1>8 DEF s, Weeded
      <3>2. SUFFICES ASSUME NEW j \in DOMAIN g[n], NEW k \in DOMAIN g[n], j < k
                     PROVE  \E i, l \in 1 .. n : i < l /\ g[n][j] = q[i] /\ g[n][k] = q[l]
        OBVIOUS
      <3>3. CASE k \in 1 .. Len(s)
        <4>1. j \in DOMAIN s /\ k \in DOMAIN s
          BY <3>2, <3>3, <2>3
        <4>2. PICK i \in 1 .. n - 1, l \in 1 .. n - 1 : i < l /\ s[j] = q[i] /\ s[k] = q[l]
          BY <4>1, <3>1, <3>2
        <4> QED BY <4>1, <4>2, <2>3, <1>9
      <3>4. CASE k = Len(s) + 1
        <4>1. j \in DOMAIN s
          BY <3>2, <3>4, <2>3
        <4>2. PICK i \in 1 .. n - 1 : s[j] = q[i]
          BY <4>1, <3>1
        <4>3. i \in 1 .. n /\ n \in 1 .. n /\ i < n
          BY <1>9
        <4> QED BY <4>1, <4>2, <4>3, <3>4, <2>3
      <3> QED BY <3>3, <3>4, <2>3
    <2>7. Kept(n)
      BY <2>3, <2>4, <2>5, <2>6, Zenon DEF Weeded
    <2> QED BY <2>7, <1>5
  <1> QED BY <1>10, <1>11

\* The lookup in a map gives a rule that matches and is better than every other
\* rule that does; it gives none only when none matches (find_rule_in).
LEMMA FindInIsBest ==
  ASSUME NEW q \in Seq(Rule), NEW p, NEW proto, NEW remote, NEW isSession \in BOOLEAN
  PROVE  LET fit == {i \in DOMAIN q : Matches(q[i], p, proto, remote)} IN
         \/ fit = {} /\ FindIn(q, p, proto, remote, isSession) = Nothing
         \/ \E i \in fit : /\ FindIn(q, p, proto, remote, isSession) = q[i]
                           /\ \A j \in fit \ {i} : Better(q, i, j, isSession)
  <1> DEFINE fit == {i \in DOMAIN q : Matches(q[i], p, proto, remote)}
             prec(i) == Precedence(q[i], isSession)
             rank(i) == TargetRank(q[i])
             best(i) == \A j \in fit \ {i} : Better(q, i, j, isSession)
  <1>1. Len(q) \in Nat /\ DOMAIN q = 1 .. Len(q) /\ fit \subseteq 1 .. Len(q)
    BY LenProperties
  <1>2. \A i \in fit : prec(i) \in Nat /\ rank(i) \in Nat
    BY DEF Precedence, TargetRank
  <1>3. CASE fit = {}
    BY <1>3 DEF FindIn
  <1>4. CASE fit # {}
    <2>1. PICK a \in {prec(i) : i \in fit} : \A x \in {prec(i) : i \in fit} : a <= x
      <3> DEFINE A == {prec(i) : i \in fit}
      <3>1. A \subseteq Nat /\ A # {}
        BY <1>2, <1>4
      <3> HIDE DEF A
      <3>2. \E x \in A : \A y \in A : x <= y
        BY <3>1, LeastNat
      <3> QED BY <3>2 DEF A
    <2> DEFINE fitA == {i \in fit : prec(i) = a}
    <2>2. PICK b \in {rank(i) : i \in fitA} : \A x \in {rank(i) : i \in fitA} : b <= x
      <3> DEFINE B == {rank(i) : i \in fitA}
      <3>1. B \subseteq Nat /\ B # {}
        BY <1>2, <2>1
      <3> HIDE DEF B
      <3>2. \E x \in B : \A y \in B : x <= y
        BY <3>1, LeastNat
      <3> QED BY <3>2 DEF B
    <2> DEFINE fitB == {i \in fitA : rank(i) = b}
    <2>3. PICK c \in {Len(q) - i : i \in fitB} : \A x \in {Len(q) - i : i \in fitB} : c <= x
      <3> DEFINE C == {Len(q) - i : i \in fitB}
      <3>1. C \subseteq Nat /\ C # {}
        BY <1>1, <2>2
      <3> HIDE DEF C
      <3>2. \E x \in C : \A y \in C : x <= y
        BY <3>1, LeastNat
      <3> QED BY <3>2 DEF C
    <2>4. PICK i \in fitB : c = Len(q) - i
      BY <2>3
    <2>5. ASSUME NEW j \in fit \ {i} PROVE Better(q, i, j, isSession)
      <3>1. a <= prec(j) /\ prec(i) = a /\ rank(i) = b
        BY <2>1, <2>4
      <3>2. prec(j) = a => b <= rank(j)
        BY <2>2
      <3>3. prec(j) = a /\ rank(j) = b => j < i
        <4>1. prec(j) = a /\ rank(j) = b => Len(q) - i <= Len(q) - j
          BY <2>3, <2>4
        <4>2. i \in 1 .. Len(q) /\ j \in 1 .. Len(q) /\ j # i
          BY <1>1, <2>4, <2>5
        <4> QED BY <4>1, <4>2, <1>1
      <3>4. \/ prec(i) < prec(j)
            \/ prec(i) = prec(j) /\ rank(i) < rank(j)
            \/ prec(i) = prec(j) /\ rank(i) = rank(j) /\ i > j
        <4>1. prec(j) \in Nat /\ rank(j) \in Nat /\ a \in Nat /\ b \in Nat
          BY <1>2, <3>1, <2>4, <2>5
        <4>2. i \in Nat /\ j \in Nat
          BY <1>1, <2>4, <2>5
        <4> HIDE DEF prec, rank, fit, fitA, fitB
        <4> QED BY <4>1, <4>2, <3>1, <3>2, <3>3
      <3> QED BY <3>4 DEF Better
    <2>6. \E k \in fit : best(k)
      BY <2>4, <2>5
    <2> DEFINE k == CHOOSE k \in fit : best(k)
    <2>7. k \in fit /\ best(k)
      <3> HIDE DEF fit, best
      <3> QED BY <2>6
    <2>8. FindIn(q, p, proto, remote, isSession) = q[k]
      BY <1>4 DEF FindIn
    <2> QED BY <2>7, <2>8
  <1> QED BY <1>3, <1>4

\* What the lookup gives is one of the rules it is given.
LEMMA FindGivesRule ==
  ASSUME programRules \in Seq(Rule), sessionRules \in Seq(Rule),
         NEW p, NEW proto, NEW remote, Find(p, proto, remote) # Nothing
  PROVE  /\ Find(p, proto, remote) \in Rule
         /\ \E q \in {programRules, sessionRules} :
              \E i \in DOMAIN q : /\ Find(p, proto, remote) = q[i]
                                  /\ Matches(q[i], p, proto, remote)
  <1>1. ASSUME NEW q \in Seq(Rule), NEW i \in DOMAIN q PROVE q[i] \in Rule
    BY ElementOfSeq, LenProperties
  <1>2. ASSUME NEW q \in Seq(Rule), NEW s \in BOOLEAN, FindIn(q, p, proto, remote, s) # Nothing
        PROVE  \E i \in DOMAIN q : /\ FindIn(q, p, proto, remote, s) = q[i]
                                   /\ Matches(q[i], p, proto, remote)
    BY <1>2, FindInIsBest
  <1> QED BY <1>1, <1>2 DEF Find

-----------------------------------------------------------------------------
(* Types. *)

\* What a worker has at each place of inspect_program.
Work == [at : {"idle", "matched", "install", "record", "ask", "blocked?",
               "filter", "prompt"},
         path : Paths \cup {Nothing}, rule : Rule \cup {Nothing}, handle : Handle]
Placed(d) ==
  /\ d.at \in {"matched", "install", "record"} => d.rule \in Rule
  /\ d.at \in {"ask", "blocked?", "filter", "prompt"} => d.path \in Paths
  /\ d.handle # Nothing => d.at \in {"record", "prompt"}
  /\ d.at = "record" => d.handle # Nothing
WorkersOK == \A w \in Observers : worker[w] \in Work /\ Placed(worker[w])

\* What a command has at each of its places.
UiOK ==
  /\ ui.at \in {"quarantine", "enforce", "program"} => ui.rule \in Rule /\ ui.path \in Paths
  /\ ui.at = "session" /\ ui.cmd \notin {"remove", "import"} =>
       ui.rule \in Rule /\ ui.path \in Paths
  /\ ui.at = "session" /\ ui.cmd = "remove" => ui.path \in Paths
  /\ ui.at \in {"unblock", "free"} =>
       ui.path \in Paths /\ ui.cmd # "import" /\ (ui.cmd # "remove" => ui.rule \in Rule)
  /\ ui.at \in {"quarantine", "enforce", "program"} => ui.cmd \notin {"remove", "import"}
  /\ ui.at = "quarantine" => ui.rule.path = ui.path

TypeInv == TypeOK /\ WorkersOK /\ UiOK

\* The block of a rule, its key and its filter.
LEMMA BlockKeyType ==
  ASSUME NEW r \in Rule
  PROVE  /\ BlockKey(r) \in BlockKeys /\ BlockKey(r)[1] = r.path
         /\ FilterFor(r) \in Filter /\ FilterFor(r).app = IdOf[r.path]
  <1>1. r.path \in Paths /\ r.proto \in Scopes /\ r.target \in Targets \cup {"any"}
    BY DEF Rule
  <1>2. CASE r.target = "any"
    BY <1>1, <1>2, QuarantineAssumption DEF BlockKey, BlockKeys, FilterFor, Filter
  <1>3. CASE r.target # "any"
    <2>1. r.target \in Targets
      BY <1>1, <1>3
    <2> QED BY <1>1, <1>3, <2>1, QuarantineAssumption DEF BlockKey, BlockKeys, FilterFor, Filter
  <1> QED BY <1>2, <1>3

\* A block key starts with a path.
LEMMA KeyPath == ASSUME NEW k \in BlockKeys PROVE k[1] \in Paths
  BY DEF BlockKeys

\* The rules that commands make are rules.
LEMMA RuleOfType ==
  ASSUME NEW p \in Paths, NEW d \in Decisions, NEW s \in Scopes,
         NEW t \in Targets \cup {"any"}, NEW e \in {"never", "later", "due"}
  PROVE  RuleOf(p, d, s, t, e) \in Rule
  BY DEF RuleOf, Rule

\* Weeding a map and inserting a rule leave a map.
LEMMA MapTypes ==
  ASSUME NEW q \in Seq(Rule)
  PROVE  /\ \A gone : Without(q, gone) \in Seq(Rule)
         /\ \A p : WithoutIdentity(q, p) \in Seq(Rule) /\ WithoutPath(q, p) \in Seq(Rule)
         /\ \A r \in Rule : Insert(q, r) \in Seq(Rule)
         /\ NotDue(q) \in Seq(Rule)
         /\ \A i \in DOMAIN q : q[i] \in Rule
         /\ \A s \in BOOLEAN : Due(q, s) \subseteq Rule \X BOOLEAN
  <1>1. \A gone : Without(q, gone) \in Seq(Rule)
    BY WithoutWeeds DEF Weeded
  <1>2. \A i \in DOMAIN q : q[i] \in Rule
    BY ElementOfSeq, LenProperties
  <1>3. \A r \in Rule : Insert(q, r) \in Seq(Rule)
    BY <1>1, AppendProperties DEF Insert
  <1> QED BY <1>1, <1>2, <1>3 DEF WithoutIdentity, WithoutPath, NotDue, Due

\* A deletion leaves a table of filters in which no other filter has changed; the
\* filter is gone from it, or one that WFP would not delete.
LEMMA DeletedFacts ==
  ASSUME NEW fs \in [Handles -> Filter \cup {Nothing}], NEW h, Deleted(fs, h),
         refused \subseteq Handles
  PROVE  /\ filters' \in [Handles -> Filter \cup {Nothing}] /\ refused' \subseteq Handles
         /\ refused \subseteq refused' /\ refused' \subseteq refused \cup {h}
         /\ \A g \in Handles : g # h => filters'[g] = fs[g]
         /\ h \in Handles => filters'[h] = Nothing \/ h \in refused'
         /\ h \notin Handles => filters' = fs /\ refused' = refused
  BY DEF Deleted, Removed

\* At the start every variable has its type.
LEMMA InitTypes == Init => TypeInv
  <1>1. <<>> \in Seq(Rule)
    BY EmptySeq
  <1>2. \A s \in Schedules : 0 \in 0 .. s.max
    BY QuarantineAssumption DEF Schedule
  <1> QED BY <1>1, <1>2 DEF Init, TypeInv, TypeOK, WorkersOK, Work, Placed, UiOK, Idle, UiIdle, TickerIdle, Handle


\* The observers.
LEMMA WorkerMoves ==
  ASSUME TypeInv, NEW w \in Observers, NEW d \in Work, Placed(d),
         worker' = [worker EXCEPT ![w] = d]
  PROVE  worker' \in [Observers -> Work] /\ WorkersOK'
  <1>1. worker \in [Observers -> Work]
    BY DEF TypeInv, TypeOK, Work
  <1> QED BY <1>1 DEF WorkersOK, TypeInv

\* What an observer sees has a path.
LEMMA SeesPaths ==
  ASSUME NEW w \in Observers, NEW seen \in Sees[w]
  PROVE  seen[1] \in Paths /\ seen[2] \in Seen
  BY QuarantineAssumption

\* An observed connection keeps the types.
LEMMA ObserveTypes ==
  ASSUME TypeInv, NEW w \in Observers, NEW p \in Paths, NEW s, NEW t, Observe(w, p, s, t)
  PROVE  TypeInv'
  <1>1. Find(p, s, t) # Nothing => Find(p, s, t) \in Rule
    BY FindGivesRule DEF TypeInv, TypeOK
  <1>2. \E d : d \in Work /\ Placed(d) /\ worker' = [worker EXCEPT ![w] = d]
    <2> DEFINE r == Find(p, s, t)
               asks == [Idle EXCEPT !.at = "ask", !.path = p]
               matched == [Idle EXCEPT !.at = "matched", !.path = p, !.rule = r]
    <2>1. Idle \in Work /\ Placed(Idle)
      BY DEF Idle, Work, Placed, Handle
    <2>2. asks \in Work /\ Placed(asks)
      BY DEF Idle, Work, Placed, Handle
    <2>3. r # Nothing => matched \in Work /\ Placed(matched)
      BY <1>1 DEF Idle, Work, Placed, Handle
    <2>4. \/ worker' = [worker EXCEPT ![w] = Idle]
          \/ worker' = [worker EXCEPT ![w] = asks]
          \/ r # Nothing /\ worker' = [worker EXCEPT ![w] = matched]
      BY DEF Observe
    <2> HIDE DEF r, asks, matched
    <2> QED BY <2>1, <2>2, <2>3, <2>4
  <1>3. worker' \in [Observers -> Work] /\ WorkersOK'
    BY <1>2, WorkerMoves
  <1> QED BY <1>3 DEF Observe, TypeInv, TypeOK, Work, UiOK, rules, kernel, commands

\* So do the looks an observer takes at the records,
LEMMA CheckTypes ==
  ASSUME TypeInv, NEW w \in Observers,
         CheckBlock(w) \/ CheckPending(w) \/ CheckBlocked(w)
  PROVE  TypeInv'
  <1>1. worker[w] \in Work /\ Placed(worker[w])
    BY DEF TypeInv, WorkersOK
  <1>2. PICK d : d \in Work /\ Placed(d) /\ worker' = [worker EXCEPT ![w] = d]
    <2>1. Idle \in Work /\ Placed(Idle)
      BY DEF Idle, Work, Placed, Handle
    <2>2. CASE CheckBlock(w)
      <3>1. [worker[w] EXCEPT !.at = "install"] \in Work
            /\ Placed([worker[w] EXCEPT !.at = "install"])
        BY <1>1, <2>2 DEF CheckBlock, Work, Placed
      <3> QED BY <2>1, <2>2, <3>1 DEF CheckBlock
    <2>3. CASE CheckPending(w)
      <3>1. [worker[w] EXCEPT !.at = "blocked?"] \in Work
            /\ Placed([worker[w] EXCEPT !.at = "blocked?"])
        BY <1>1, <2>3 DEF CheckPending, Work, Placed
      <3> QED BY <2>1, <2>3, <3>1 DEF CheckPending
    <2>4. CASE CheckBlocked(w)
      <3>1. [worker[w] EXCEPT !.at = "filter"] \in Work
            /\ Placed([worker[w] EXCEPT !.at = "filter"])
        BY <1>1, <2>4 DEF CheckBlocked, Work, Placed
      <3> QED BY <2>1, <2>4, <3>1 DEF CheckBlocked
    <2> QED BY <2>2, <2>3, <2>4
  <1>3. worker' \in [Observers -> Work] /\ WorkersOK'
    BY <1>2, WorkerMoves
  <1>4. UNCHANGED <<rules, pending, appBlocks, known, kernel, ticker, ui, commands>>
    BY DEF CheckBlock, CheckPending, CheckBlocked
  <1> QED BY <1>3, <1>4 DEF TypeInv, TypeOK, Work, UiOK, rules, kernel, commands

\* the filters it makes
LEMMA FilterTypes ==
  ASSUME TypeInv, NEW w \in Observers, InstallFilter(w) \/ TemporaryFilter(w)
  PROVE  TypeInv'
  <1>1. worker[w] \in Work /\ Placed(worker[w])
    BY DEF TypeInv, WorkersOK
  <1>2. filters \in [Handles -> Filter \cup {Nothing}]
    BY DEF TypeInv, TypeOK
  <1>3. /\ filters' \in [Handles -> Filter \cup {Nothing}]
        /\ \E d : d \in Work /\ Placed(d) /\ worker' = [worker EXCEPT ![w] = d]
    <2>1. Idle \in Work /\ Placed(Idle)
      BY DEF Idle, Work, Placed, Handle
    <2>2. CASE InstallFilter(w)
      <3>1. worker[w].rule \in Rule
        BY <1>1, <2>2 DEF InstallFilter, Placed
      <3>2. ASSUME NEW h \in Handles, Holds(w, "record", h)
            PROVE  \E d : d \in Work /\ Placed(d) /\ worker' = [worker EXCEPT ![w] = d]
        <4> DEFINE d == [at |-> "record", path |-> worker[w].path, rule |-> worker[w].rule,
                         handle |-> h]
        <4>1. d \in Work /\ Placed(d)
          BY <1>1, <3>1, QuarantineAssumption DEF Work, Placed, Handle
        <4>2. worker' = [worker EXCEPT ![w] = d]
          BY <3>2 DEF Holds
        <4> QED BY <4>1, <4>2
      <3> QED BY <1>2, <2>1, <2>2, <3>1, <3>2, BlockKeyType DEF InstallFilter
    <2>3. CASE TemporaryFilter(w)
      <3>1. worker[w].path \in Paths
        BY <1>1, <2>3 DEF TemporaryFilter, Placed
      <3>2. ASSUME NEW h \in Handles, Holds(w, "prompt", h)
            PROVE  \E d : d \in Work /\ Placed(d) /\ worker' = [worker EXCEPT ![w] = d]
        <4> DEFINE d == [at |-> "prompt", path |-> worker[w].path, rule |-> worker[w].rule,
                         handle |-> h]
        <4>1. d \in Work /\ Placed(d)
          BY <1>1, <3>1, QuarantineAssumption DEF Work, Placed, Handle
        <4>2. worker' = [worker EXCEPT ![w] = d]
          BY <3>2 DEF Holds
        <4> QED BY <4>1, <4>2
      <3>3. ASSUME Holds(w, "prompt", Nothing)
            PROVE  \E d : d \in Work /\ Placed(d) /\ worker' = [worker EXCEPT ![w] = d]
        <4> DEFINE d == [at |-> "prompt", path |-> worker[w].path, rule |-> worker[w].rule,
                         handle |-> Nothing]
        <4>1. d \in Work /\ Placed(d)
          BY <1>1, <3>1 DEF Work, Placed, Handle
        <4>2. worker' = [worker EXCEPT ![w] = d]
          BY <3>3 DEF Holds
        <4> QED BY <4>1, <4>2
      <3>4. [app |-> IdOf[worker[w].path], proto |-> "all", target |-> "any"] \in Filter
        BY <3>1, QuarantineAssumption DEF Filter, Scopes
      <3> QED BY <1>2, <2>3, <3>2, <3>3, <3>4 DEF TemporaryFilter
    <2> QED BY <2>2, <2>3
  <1>4. worker' \in [Observers -> Work] /\ WorkersOK'
    BY <1>3, WorkerMoves
  <1>5. UNCHANGED <<rules, pending, appBlocks, known, refused, ticker, ui, commands>>
    BY DEF InstallFilter, TemporaryFilter
  <1> QED BY <1>3, <1>4, <1>5 DEF TypeInv, TypeOK, Work, UiOK, rules, kernel, commands

\* and the records it leaves.
LEMMA RecordTypes ==
  ASSUME TypeInv, NEW w \in Observers, RecordBlock(w) \/ Prompt(w)
  PROVE  TypeInv'
  <1>1. worker[w] \in Work /\ Placed(worker[w])
    BY DEF TypeInv, WorkersOK
  <1>2. /\ filters \in [Handles -> Filter \cup {Nothing}] /\ appBlocks \in [BlockKeys -> Handle]
        /\ pending \in [Paths -> Handle \cup {"unfiltered"}] /\ refused \subseteq Handles
    BY DEF TypeInv, TypeOK
  <1>3. worker' \in [Observers -> Work] /\ WorkersOK'
    <2>1. Idle \in Work /\ Placed(Idle)
      BY DEF Idle, Work, Placed, Handle
    <2>2. worker' = [worker EXCEPT ![w] = Idle]
      BY DEF RecordBlock, Prompt
    <2> QED BY <2>1, <2>2, WorkerMoves
  <1>4. CASE RecordBlock(w)
    <2>1. worker[w].rule \in Rule /\ worker[w].handle \in Handle
      BY <1>1, <1>4 DEF RecordBlock, Placed, Work
    <2>2. appBlocks' \in [BlockKeys -> Handle]
      BY <1>2, <1>4, <2>1, BlockKeyType DEF RecordBlock
    <2>3. filters' \in [Handles -> Filter \cup {Nothing}] /\ refused' \subseteq Handles
      BY <1>2, <1>4, DeletedFacts DEF RecordBlock
    <2> QED BY <1>3, <1>4, <2>2, <2>3 DEF RecordBlock, TypeInv, TypeOK, Work, UiOK, rules, commands
  <1>5. CASE Prompt(w)
    <2>1. worker[w].path \in Paths /\ worker[w].handle \in Handle
      BY <1>1, <1>5 DEF Prompt, Placed, Work
    <2>2. pending' \in [Paths -> Handle \cup {"unfiltered"}]
      BY <1>2, <1>5, <2>1 DEF Prompt
    <2> QED BY <1>3, <1>5, <2>2 DEF Prompt, TypeInv, TypeOK, Work, UiOK, rules, kernel, commands
  <1> QED BY <1>4, <1>5

\* The commands.
LEMMA GivenType ==
  ASSUME TypeInv, NEW c, Command(c) \/ Otherwise(c)
  PROVE  /\ Command(c) /\ (Otherwise(c) => answered' = answered)
         /\ schedule \in Schedules /\ schedule' = schedule /\ given' \in 0 .. schedule'.max
         /\ schedule.protocols \subseteq Scopes
  <1>1. schedule \in Schedules /\ schedule \in Schedule /\ given \in 0 .. schedule.max
    BY QuarantineAssumption DEF TypeInv, TypeOK
  <1>2. schedule.max \in Nat /\ schedule.protocols \subseteq Scopes
    BY <1>1 DEF Schedule, Scopes
  <1> QED BY <1>1, <1>2 DEF Command, Otherwise

\* A command keeps the types when it starts
LEMMA StartTypes ==
  ASSUME TypeInv, StartCommand
  PROVE  TypeInv'
  <1>0. programRules \in Seq(Rule) /\ sessionRules \in Seq(Rule)
    BY DEF TypeInv, TypeOK
  <1>1. ASSUME NEW p \in Paths, NEW d \in Decisions, NEW s \in schedule.protocols,
               NEW c \in {"remember", "decide"}, NEW e \in {"never", "later"}, Decide(p, d, s, c, e)
        PROVE  TypeInv'
    <2>1. Command("decide")
      BY <1>1 DEF Decide
    <2>2. schedule' = schedule /\ schedule \in Schedules /\ given' \in 0 .. schedule'.max /\ s \in Scopes
      BY <2>1, GivenType
    <2>3. RuleOf(p, d, s, "any", e) \in Rule
      BY <2>2, RuleOfType
    <2>4. pending' \in [Paths -> Handle \cup {"unfiltered"}]
      BY <1>1 DEF Decide, TypeInv, TypeOK, Handle
    <2>5. filters' \in [Handles -> Filter \cup {Nothing}] /\ refused' \subseteq Handles
          /\ answered' \subseteq Paths
      BY <1>1, DeletedFacts DEF Decide, TypeInv, TypeOK
    <2> DEFINE r == RuleOf(p, d, s, "any", e)
               place == IF d = "quarantine" THEN "quarantine" ELSE "session"
    <2>6. ui' = [at |-> place, cmd |-> c, path |-> p, rule |-> r, keys |-> {}]
      BY <1>1 DEF Decide, UiIdle
    <2>7. place \in {"quarantine", "session"}
      OBVIOUS
    <2>9. r.path = p
      BY DEF RuleOf
    <2> HIDE DEF r, place
    <2>8. UNCHANGED <<rules, appBlocks, known, worker, ticker>>
      BY <1>1 DEF Decide
    <2> QED BY <2>2, <2>3, <2>4, <2>5, <2>6, <2>7, <2>8, <2>9
            DEF TypeInv, TypeOK, WorkersOK, UiOK, rules, r
  <1>2. ASSUME NEW p \in Paths, NEW d \in Decisions, SetDecision(p, d)
        PROVE  TypeInv'
    <2>1. Otherwise("set")
      BY <1>2 DEF SetDecision
    <2>2. schedule' = schedule /\ schedule \in Schedules /\ given' \in 0 .. schedule'.max
          /\ answered' = answered
      BY <2>1, GivenType
    <2> DEFINE found == Find(p, "all", Nothing)
               r == IF found = Nothing THEN RuleOf(p, d, "all", "any", "never")
                    ELSE [found EXCEPT !.decision = d, !.proto = "all"]
    <2>3. found # Nothing => found \in Rule
      BY <1>0, FindGivesRule
    <2>4. r \in Rule
      <3>1. RuleOf(p, d, "all", "any", "never") \in Rule
        BY RuleOfType DEF Scopes
      <3>2. found \in Rule => [found EXCEPT !.decision = d, !.proto = "all"] \in Rule
        <4> HIDE DEF found
        <4>1. \A f \in Rule : [[f EXCEPT !.decision = d] EXCEPT !.proto = "all"] \in Rule
          BY DEF Rule, Scopes
        <4> QED BY <4>1
      <3> HIDE DEF found
      <3> QED BY <2>3, <3>1, <3>2
    <2>5. Setting(p, "remember", r)
      BY <1>2 DEF SetDecision
    <2>6. UNCHANGED <<rules, pending, appBlocks, known, kernel, worker, ticker>>
      BY <1>2 DEF SetDecision
    <2> HIDE DEF r, found
    <2> QED BY <2>2, <2>4, <2>5, <2>6
            DEF Setting, TypeInv, TypeOK, WorkersOK, UiOK, rules, kernel
  <1>3. ASSUME NEW p \in Paths, NEW d \in Decisions, NEW t \in Targets, Upsert(p, d, t)
        PROVE  TypeInv'
    <2>1. \E c : Otherwise(c)
      BY <1>3 DEF Upsert
    <2>2. schedule' = schedule /\ schedule \in Schedules /\ given' \in 0 .. schedule'.max
          /\ answered' = answered
      BY <2>1, GivenType
    <2>3. RuleOf(p, d, "all", t, "never") \in Rule
      BY RuleOfType DEF Scopes
    <2>4. /\ Setting(p, "upsert", RuleOf(p, d, "all", t, "never"))
          /\ UNCHANGED <<rules, pending, appBlocks, known, kernel, worker, ticker>>
      BY <1>3 DEF Upsert
    <2> DEFINE r == RuleOf(p, d, "all", t, "never")
    <2> HIDE DEF r
    <2>5. r \in Rule /\ Setting(p, "upsert", r)
      BY <2>3, <2>4 DEF r
    <2> QED BY <2>2, <2>4, <2>5 DEF Setting, TypeInv, TypeOK, WorkersOK, UiOK, rules, kernel
  <1>4. ASSUME NEW p \in Paths, AllowForAWhile(p)
        PROVE  TypeInv'
    <2>1. Otherwise("timed")
      BY <1>4 DEF AllowForAWhile
    <2>2. schedule' = schedule /\ schedule \in Schedules /\ given' \in 0 .. schedule'.max
          /\ answered' = answered
      BY <2>1, GivenType
    <2>3. RuleOf(p, "allow", "all", "any", "later") \in Rule
      BY RuleOfType DEF Scopes, Decisions
    <2>4. sessionRules' \in Seq(Rule)
      BY <1>0, <1>4, <2>3, MapTypes DEF AllowForAWhile
    <2> QED BY <1>4, <2>2, <2>4 DEF AllowForAWhile, TypeInv, TypeOK, WorkersOK, UiOK, kernel
  <1>5. ASSUME NEW p \in Paths, RemoveApp(p)
        PROVE  TypeInv'
    <2>1. Otherwise("remove")
      BY <1>5 DEF RemoveApp
    <2>2. schedule' = schedule /\ schedule \in Schedules /\ given' \in 0 .. schedule'.max
          /\ answered' = answered
      BY <2>1, GivenType
    <2>3. programRules' \in Seq(Rule)
      BY <1>0, <1>5, MapTypes DEF RemoveApp
    <2>4. ui' = [at |-> "session", cmd |-> "remove", path |-> p, rule |-> Nothing, keys |-> {}]
      BY <1>5 DEF RemoveApp, UiIdle
    <2> QED BY <1>5, <2>2, <2>3, <2>4 DEF RemoveApp, TypeInv, TypeOK, WorkersOK, UiOK, kernel
  <1>6. ASSUME NEW r \in Rule, RemoveRule(r)
        PROVE  TypeInv'
    <2>1. Otherwise("removeRule")
      BY <1>6 DEF RemoveRule
    <2>2. schedule' = schedule /\ schedule \in Schedules /\ given' \in 0 .. schedule'.max
          /\ answered' = answered
      BY <2>1, GivenType
    <2>3. programRules' \in Seq(Rule) /\ sessionRules' \in Seq(Rule)
      BY <1>0, <1>6, MapTypes DEF RemoveRule
    <2>4. ui' = [at |-> "unblock", cmd |-> "remove", path |-> r.path, rule |-> Nothing, keys |-> {}]
      BY <1>6 DEF RemoveRule, UiIdle
    <2>5. r.path \in Paths
      BY DEF Rule
    <2>6. UNCHANGED <<pending, appBlocks, known, kernel, worker, ticker>>
      BY <1>6 DEF RemoveRule
    <2> QED BY <2>2, <2>3, <2>4, <2>5, <2>6 DEF TypeInv, TypeOK, WorkersOK, UiOK, kernel
  <1>7. ASSUME NEW p \in Paths,
               NEW q \in {<<>>} \cup {<<RuleOf(p, d, "all", "any", "never")>> : d \in Decisions},
               Import(q)
        PROVE  TypeInv'
    <2>1. Otherwise("import")
      BY <1>7 DEF Import
    <2>2. schedule' = schedule /\ schedule \in Schedules /\ given' \in 0 .. schedule'.max
          /\ answered' = answered
      BY <2>1, GivenType
    <2>3. q \in Seq(Rule)
      <3>1. \A d \in Decisions : RuleOf(p, d, "all", "any", "never") \in Rule
        BY RuleOfType DEF Scopes
      <3>2. \A r \in Rule : <<r>> \in Seq(Rule)
        OBVIOUS
      <3> QED BY <3>1, <3>2, EmptySeq
    <2>4. ui' = [at |-> "session", cmd |-> "import", path |-> Nothing, rule |-> Nothing,
                 keys |-> {}]
      BY <1>7 DEF Import, UiIdle
    <2> QED BY <1>7, <2>2, <2>3, <2>4 DEF Import, TypeInv, TypeOK, WorkersOK, UiOK, kernel
  <1>8. ASSUME NEW q \in {programRules, sessionRules}, NEW i \in DOMAIN q
        PROVE  q[i] \in Rule
    BY <1>0, MapTypes
  <1> QED BY <1>1, <1>2, <1>3, <1>4, <1>5, <1>6, <1>7, <1>8 DEF StartCommand

\* and as it goes on.
LEMMA UiTypes ==
  ASSUME TypeInv, UiStep
  PROVE  TypeInv'
  <1>0. /\ programRules \in Seq(Rule) /\ sessionRules \in Seq(Rule)
        /\ filters \in [Handles -> Filter \cup {Nothing}] /\ appBlocks \in [BlockKeys -> Handle]
        /\ ui.at \in {"idle", "quarantine", "enforce", "session", "program", "unblock",
                      "free", "prompts"}
        /\ UiOK /\ refused \subseteq Handles
    BY DEF TypeInv, TypeOK
  <1>0a. \A p \in Paths : <<p>> \in BlockKeys
    BY DEF BlockKeys
  <1> DEFINE UiT == [at : {"idle", "quarantine", "enforce", "session", "program",
                           "unblock", "free", "prompts"},
                     cmd : {"none", "remember", "decide", "upsert", "remove", "import"},
                     path : Paths \cup {Nothing}, rule : Rule \cup {Nothing},
                     keys : SUBSET BlockKeys]
  <1>0b. UiIdle \in UiT /\ UiIdle.at = "idle"
    BY DEF UiIdle
  <1>0c. ui \in UiT /\ \A a \in {"session", "program", "unblock", "prompts"} :
                           /\ [ui EXCEPT !.at = a] \in UiT /\ [ui EXCEPT !.at = a].at = a
                           /\ [ui EXCEPT !.at = a].cmd = ui.cmd
                           /\ [ui EXCEPT !.at = a].path = ui.path
                           /\ [ui EXCEPT !.at = a].rule = ui.rule
    BY DEF TypeInv, TypeOK
  <1>1. CASE DecideQuarantine
    <2>1. ui.rule \in Rule /\ ui.path \in Paths /\ ui.cmd \notin {"remove", "import"}
      BY <1>0, <1>1 DEF DecideQuarantine, UiOK
    <2>2. filters' \in [Handles -> Filter \cup {Nothing}] /\ appBlocks' \in [BlockKeys -> Handle]
      BY <1>0, <1>0a, <1>1, <2>1, BlockKeyType DEF DecideQuarantine, Handle
    <2>3. ui' \in UiT /\ UiOK'
      BY <1>0b, <1>0c, <1>1, <2>1 DEF DecideQuarantine, UiOK
    <2>4. UNCHANGED <<rules, pending, known, refused, worker, ticker, commands>>
      BY <1>1 DEF DecideQuarantine
    <2> QED BY <2>2, <2>3, <2>4 DEF TypeInv, TypeOK, WorkersOK, rules, kernel, commands
  <1>2. CASE Enforce
    <2>1. ui.rule \in Rule /\ ui.path \in Paths /\ ui.cmd \notin {"remove", "import"}
      BY <1>0, <1>2 DEF Enforce, UiOK
    <2>2. /\ filters' \in [Handles -> Filter \cup {Nothing}] /\ refused' \subseteq Handles
          /\ appBlocks' \in [BlockKeys -> Handle]
      <3>1. BlockKey(ui.rule) \in BlockKeys /\ FilterFor(ui.rule) \in Filter
        BY <2>1, BlockKeyType
      <3>2. CASE UNCHANGED <<kernel, appBlocks>>
        BY <1>0, <3>2 DEF kernel
      <3>3. ASSUME NEW h \in Handles,
                   Deleted([filters EXCEPT ![h] = FilterFor(ui.rule)], appBlocks[BlockKey(ui.rule)]),
                   appBlocks' = [appBlocks EXCEPT ![BlockKey(ui.rule)] = h]
            PROVE  /\ filters' \in [Handles -> Filter \cup {Nothing}] /\ refused' \subseteq Handles
                   /\ appBlocks' \in [BlockKeys -> Handle]
        <4>1. [filters EXCEPT ![h] = FilterFor(ui.rule)] \in [Handles -> Filter \cup {Nothing}]
          BY <1>0, <3>1
        <4> QED BY <1>0, <3>1, <3>3, <4>1, DeletedFacts DEF Handle
      <3> QED BY <1>2, <3>2, <3>3 DEF Enforce
    <2>3. ui' \in UiT /\ UiOK'
      BY <1>0b, <1>0c, <1>2, <2>1 DEF Enforce, UiOK, Store
    <2>4. UNCHANGED <<rules, pending, known, worker, ticker, commands>>
      BY <1>2 DEF Enforce
    <2> QED BY <2>2, <2>3, <2>4 DEF TypeInv, TypeOK, WorkersOK, rules, commands
  <1>3. CASE StoreDecision
    <2>1. ui.rule \in Rule /\ ui.path \in Paths /\ ui.cmd \notin {"remove", "import"}
      BY <1>0, <1>3 DEF StoreDecision, StoreSession, UiOK
    <2>2. sessionRules' \in Seq(Rule)
      <3>1. WithoutIdentity(sessionRules, ui.rule.path) \in Seq(Rule)
        BY <1>0, MapTypes
      <3>2. Insert(WithoutIdentity(sessionRules, ui.rule.path), ui.rule) \in Seq(Rule)
        BY <2>1, <3>1, MapTypes
      <3> QED BY <1>3, <3>1, <3>2 DEF StoreDecision, StoreSession
    <2>3. ui' \in UiT /\ UiOK'
      BY <1>0b, <1>0c, <1>3, <2>1 DEF StoreDecision, StoreSession, UiOK
    <2>4. UNCHANGED <<programRules, pending, appBlocks, known, kernel, worker, ticker, commands>>
      BY <1>3 DEF StoreDecision, StoreSession
    <2> QED BY <2>2, <2>3, <2>4 DEF TypeInv, TypeOK, WorkersOK, kernel, commands
  <1>4. CASE StoreProgram
    <2>1. ui.rule \in Rule /\ ui.path \in Paths
      BY <1>0, <1>4 DEF StoreProgram, UiOK
    <2>2. programRules' \in Seq(Rule)
      BY <1>0, <1>4, <2>1, MapTypes DEF StoreProgram
    <2>3. ui' \in UiT /\ UiOK'
      BY <1>0b, <1>0c, <1>4, <2>1 DEF StoreProgram, UiOK
    <2>4. UNCHANGED <<sessionRules, pending, appBlocks, known, kernel, worker, ticker, commands>>
      BY <1>4 DEF StoreProgram
    <2> QED BY <2>2, <2>3, <2>4 DEF TypeInv, TypeOK, WorkersOK, kernel, commands
  <1>5. CASE RemoveAppSession
    <2>1. ui.path \in Paths
      BY <1>0, <1>5 DEF RemoveAppSession, UiOK
    <2>2. sessionRules' \in Seq(Rule)
      BY <1>0, <1>5, MapTypes DEF RemoveAppSession
    <2>3. ui' \in UiT /\ UiOK'
      BY <1>0b, <1>0c, <1>5, <2>1 DEF RemoveAppSession, UiOK
    <2>4. UNCHANGED <<programRules, pending, appBlocks, known, kernel, worker, ticker, commands>>
      BY <1>5 DEF RemoveAppSession
    <2> QED BY <2>2, <2>3, <2>4 DEF TypeInv, TypeOK, WorkersOK, kernel, commands
  <1>6. CASE FindBlocks
    <2> DEFINE keys == {k \in BlockKeys : k[1] = ui.path /\ appBlocks[k] # Nothing}
               u == [ui EXCEPT !.at = "free", !.keys = keys]
    <2>1. ui' = u /\ ui.at = "unblock"
      BY <1>6 DEF FindBlocks
    <2>2. u \in UiT /\ u.at = "free" /\ u.cmd = ui.cmd /\ u.path = ui.path /\ u.rule = ui.rule
      BY <1>0c
    <2> HIDE DEF u
    <2>3. UiOK'
      BY <1>0, <2>1, <2>2 DEF UiOK
    <2>4. UNCHANGED <<rules, pending, appBlocks, known, kernel, worker, ticker, commands>>
      BY <1>6 DEF FindBlocks
    <2> QED BY <2>1, <2>2, <2>3, <2>4 DEF TypeInv, TypeOK, WorkersOK, rules, kernel, commands
  <1>9. CASE FreeBlock
    <2>1. /\ filters' \in [Handles -> Filter \cup {Nothing}] /\ refused' \subseteq Handles
          /\ appBlocks' \in [BlockKeys -> Handle]
      <3>1. CASE UNCHANGED <<kernel, appBlocks>>
        BY <1>0, <3>1 DEF kernel
      <3>2. ASSUME NEW k \in ui.keys, appBlocks' = [appBlocks EXCEPT ![k] = Nothing],
                   Deleted(filters, appBlocks[k])
            PROVE  /\ filters' \in [Handles -> Filter \cup {Nothing}] /\ refused' \subseteq Handles
                   /\ appBlocks' \in [BlockKeys -> Handle]
        BY <1>0, <3>2, DeletedFacts DEF Handle
      <3> QED BY <1>9, <3>1, <3>2 DEF FreeBlock
    <2>2. ui' \in UiT /\ UiOK'
      <3>1. ASSUME NEW k, ui' = [ui EXCEPT !.keys = @ \ {k}]
            PROVE  ui' \in UiT /\ UiOK'
        <4> DEFINE u == [ui EXCEPT !.keys = @ \ {k}]
        <4>1. u \in UiT /\ u.at = ui.at /\ u.cmd = ui.cmd /\ u.path = ui.path /\ u.rule = ui.rule
          BY <1>0c
        <4> HIDE DEF u
        <4>2. ui' = u
          BY <3>1 DEF u
        <4> QED BY <1>0, <4>1, <4>2 DEF UiOK
      <3>2. CASE ui' = UiIdle
        BY <1>0b, <3>2 DEF UiOK
      <3>3. CASE ui' = [ui EXCEPT !.at = Store] /\ ui.cmd # "remove"
        <4>1. ui.path \in Paths /\ ui.rule \in Rule /\ ui.cmd \notin {"remove", "import"}
          BY <1>0, <1>9, <3>3 DEF FreeBlock, UiOK
        <4> QED BY <1>0c, <3>3, <4>1 DEF UiOK, Store
      <3> QED BY <1>9, <3>1, <3>2, <3>3 DEF FreeBlock
    <2>3. UNCHANGED <<rules, pending, known, worker, ticker, commands>>
      BY <1>9 DEF FreeBlock
    <2> QED BY <2>1, <2>2, <2>3 DEF TypeInv, TypeOK, WorkersOK, rules, commands
  <1>7. CASE ImportSession
    <2>1. sessionRules' \in Seq(Rule)
      BY <1>7, EmptySeq DEF ImportSession
    <2>2. ui' \in UiT /\ UiOK'
      BY <1>0c, <1>7 DEF ImportSession, UiOK
    <2>3. UNCHANGED <<programRules, pending, appBlocks, known, kernel, worker, ticker, commands>>
      BY <1>7 DEF ImportSession
    <2> QED BY <2>1, <2>2, <2>3 DEF TypeInv, TypeOK, WorkersOK, kernel, commands
  <1>8. CASE ImportPrompts
    <2>1. pending' \in [Paths -> Handle \cup {"unfiltered"}]
      BY <1>8 DEF ImportPrompts, Handle
    <2>2. ui' \in UiT /\ UiOK'
      BY <1>0b, <1>8 DEF ImportPrompts, UiOK
    <2>3. UNCHANGED <<rules, appBlocks, known, kernel, worker, ticker, commands>>
      BY <1>8 DEF ImportPrompts
    <2> QED BY <2>1, <2>2, <2>3 DEF TypeInv, TypeOK, WorkersOK, rules, kernel, commands
  <1> QED BY <1>1, <1>2, <1>3, <1>4, <1>5, <1>6, <1>7, <1>8, <1>9 DEF UiStep

\* The ticker and the time.
LEMMA TickerTypes ==
  ASSUME TypeInv, TickerStep \/ Expire
  PROVE  TypeInv'
  <1>0. /\ programRules \in Seq(Rule) /\ sessionRules \in Seq(Rule)
        /\ filters \in [Handles -> Filter \cup {Nothing}] /\ appBlocks \in [BlockKeys -> Handle]
        /\ ticker \in [at : {"idle", "session", "unblock"}, expired : SUBSET (Rule \X BOOLEAN)]
        /\ refused \subseteq Handles
    BY DEF TypeInv, TypeOK
  <1>1. CASE PruneProgram
    <2>1. programRules' \in Seq(Rule) /\ Due(programRules, FALSE) \subseteq Rule \X BOOLEAN
      BY <1>0, <1>1, MapTypes DEF PruneProgram
    <2> QED BY <1>1, <2>1 DEF PruneProgram, TypeInv, TypeOK, WorkersOK, UiOK, kernel, commands
  <1>2. CASE PruneSession
    <2>1. sessionRules' \in Seq(Rule) /\ Due(sessionRules, TRUE) \subseteq Rule \X BOOLEAN
      BY <1>0, <1>2, MapTypes DEF PruneSession
    <2>2. ticker' \in [at : {"idle", "session", "unblock"}, expired : SUBSET (Rule \X BOOLEAN)]
      BY <1>0, <1>2, <2>1 DEF PruneSession
    <2>3. UNCHANGED <<programRules, pending, appBlocks, known, kernel, worker, ui, commands>>
      BY <1>2 DEF PruneSession
    <2> QED BY <2>1, <2>2, <2>3 DEF TypeInv, TypeOK, WorkersOK, UiOK, kernel, commands
  <1>3. CASE PruneBlock
    <2>1. filters' \in [Handles -> Filter \cup {Nothing}] /\ refused' \subseteq Handles
      BY <1>0, <1>3, DeletedFacts DEF PruneBlock, kernel
    <2>2. appBlocks' \in [BlockKeys -> Handle]
      BY <1>0, <1>3 DEF PruneBlock, Handle
    <2>3. ticker' \in [at : {"idle", "session", "unblock"}, expired : SUBSET (Rule \X BOOLEAN)]
      <3>1. \A e : [ticker EXCEPT !.expired = @ \ {e}]
                    \in [at : {"idle", "session", "unblock"}, expired : SUBSET (Rule \X BOOLEAN)]
        BY <1>0
      <3>2. TickerIdle \in [at : {"idle", "session", "unblock"}, expired : SUBSET (Rule \X BOOLEAN)]
        BY DEF TickerIdle
      <3> QED BY <1>3, <3>1, <3>2 DEF PruneBlock
    <2> QED BY <1>3, <2>1, <2>2, <2>3 DEF PruneBlock, TypeInv, TypeOK, WorkersOK, UiOK, rules, commands
  <1>4. CASE Expire
    <2>1. ASSUME NEW q \in Seq(Rule), NEW i \in DOMAIN q
          PROVE  [q EXCEPT ![i].expires = "due"] \in Seq(Rule)
      <3>1. q[i] \in Rule
        BY MapTypes
      <3>2. [q[i] EXCEPT !.expires = "due"] \in Rule
        BY <3>1 DEF Rule
      <3> QED BY <3>2, ExceptSeq, LenProperties
    <2>2. programRules' \in Seq(Rule) /\ sessionRules' \in Seq(Rule)
      BY <1>0, <1>4, <2>1 DEF Expire
    <2>3. UNCHANGED <<pending, appBlocks, known, kernel, worker, ticker, ui, commands>>
      BY <1>4 DEF Expire
    <2> QED BY <2>2, <2>3 DEF TypeInv, TypeOK, WorkersOK, UiOK, kernel, commands
  <1> QED BY <1>1, <1>2, <1>3, <1>4 DEF TickerStep

\* Every step keeps the types.
LEMMA StepTypes == TypeInv /\ [Next]_vars => TypeInv'
  <1> SUFFICES ASSUME TypeInv, [Next]_vars PROVE TypeInv'
    OBVIOUS
  <1>1. ASSUME NEW w \in Observers, SomeObservation(w) PROVE TypeInv'
    BY <1>1, SeesPaths, ObserveTypes DEF SomeObservation
  <1>2. ASSUME NEW w \in Observers, WorkerStep(w) PROVE TypeInv'
    BY <1>2, CheckTypes, FilterTypes, RecordTypes DEF WorkerStep
  <1>3. CASE UNCHANGED vars
    BY <1>3 DEF vars, TypeInv, TypeOK, WorkersOK, UiOK
  <1> QED BY <1>1, <1>2, <1>3, StartTypes, UiTypes, TickerTypes DEF Next

\* Every variable has its type, and each thread at each of its places what it
\* works on there.
THEOREM TypesHold == Spec => []TypeOK
  <1>1. Init => TypeInv
    BY InitTypes
  <1>2. TypeInv /\ [Next]_vars => TypeInv'
    BY StepTypes
  <1>3. TypeInv => TypeOK
    BY DEF TypeInv
  <1> QED BY <1>1, <1>2, <1>3, PTL DEF Spec

-----------------------------------------------------------------------------
(* Records are of live filters. *)

\* Whose filter a worker has in hand.
HandPath(d) == IF d.at = "record" THEN d.rule.path ELSE d.path

\* RecordsLive is not inductive: a filter is made before it is recorded.  While
\* it is in a worker's hands it is live, on the right app, and nobody else's.
HandsLive ==
  \A w \in Observers : worker[w].handle # Nothing =>
    LET h == worker[w].handle IN
    /\ filters[h] # Nothing /\ filters[h].app = IdOf[HandPath(worker[w])]
    /\ \A k \in BlockKeys : appBlocks[k] # h
    /\ \A p \in Paths : pending[p] # h
    /\ \A v \in Observers : worker[v].handle = h => v = w

PromptsApart ==
  \A p, q \in Paths : pending[p] = pending[q] /\ pending[p] \in Handles => p = q

RecordsInv == RecordsLive /\ HandsLive /\ PromptsApart

\* The types of what may refer to a filter.
LEMMA HandTypes ==
  ASSUME TypeInv
  PROVE  /\ \A w \in Observers : worker[w].handle \in Handles \cup {Nothing}
         /\ \A k \in BlockKeys : appBlocks[k] \in Handles \cup {Nothing}
         /\ \A p \in Paths : pending[p] \in Handles \cup {Nothing, "unfiltered"}
         /\ \A h \in Handles : filters[h] \in Filter \cup {Nothing}
         /\ "unfiltered" \notin Handles /\ Nothing \notin Handles /\ "unfiltered" # Nothing
  BY QuarantineAssumption DEF TypeInv, TypeOK, Handle

\* No filter changes hands.
LEMMA NobodyMoves ==
  ASSUME TypeInv, RecordsInv, UNCHANGED <<filters, appBlocks, pending>>,
         \A w \in Observers : worker'[w] = worker[w] \/ worker'[w].handle = Nothing
  PROVE  RecordsInv'
  BY DEF RecordsInv, RecordsLive, HandsLive, PromptsApart

\* Some filters may go, and nobody is left who has one of them.
LEMMA Release ==
  ASSUME TypeInv, RecordsInv, NEW X,
         \A h \in Handles : h \notin X => filters'[h] = filters[h], UNCHANGED worker,
         \A k \in BlockKeys : appBlocks'[k] = Nothing
                                \/ (appBlocks'[k] = appBlocks[k] /\ appBlocks[k] \notin X),
         \A p \in Paths : pending'[p] = Nothing
                            \/ (pending'[p] = pending[p] /\ pending[p] \notin X),
         \A w \in Observers : worker[w].handle = Nothing \/ worker[w].handle \notin X
  PROVE  RecordsInv'
  <1>1. RecordsLive'
    BY HandTypes DEF RecordsInv, RecordsLive
  <1>2. HandsLive'
    BY HandTypes DEF RecordsInv, HandsLive
  <1>3. PromptsApart'
    BY HandTypes DEF RecordsInv, PromptsApart
  <1> QED BY <1>1, <1>2, <1>3 DEF RecordsInv

\* A block gets a new filter; the one it had may go.
LEMMA NewBlock ==
  ASSUME TypeInv, RecordsInv, NEW k \in BlockKeys, NEW h \in Handles, Free(h),
         NEW f \in Filter, f.app = IdOf[k[1]], filters'[h] = f,
         \A g \in Handles : g # h /\ g # appBlocks[k] => filters'[g] = filters[g],
         appBlocks' = [appBlocks EXCEPT ![k] = h], UNCHANGED <<pending, worker>>
  PROVE  RecordsInv'
  <1>1. appBlocks \in [BlockKeys -> Handle]
    BY DEF TypeInv, TypeOK
  <1>2. /\ appBlocks'[k] = h
        /\ \A l \in BlockKeys : l # k => appBlocks'[l] = appBlocks[l]
        /\ \A l \in BlockKeys : appBlocks[l] # h
        /\ \A p \in Paths : pending[p] # h
        /\ \A w \in Observers : worker[w].handle # h
    BY <1>1 DEF Free, Referenced
  <1>3. f # Nothing
    BY QuarantineAssumption
  <1>4. RecordsLive'
    BY <1>2, <1>3, HandTypes DEF RecordsInv, RecordsLive
  <1>5. HandsLive'
    BY <1>2, <1>3, HandTypes DEF RecordsInv, HandsLive
  <1>6. PromptsApart'
    BY DEF RecordsInv, PromptsApart
  <1> QED BY <1>4, <1>5, <1>6 DEF RecordsInv

\* The observers.
LEMMA WorkerRecords ==
  ASSUME TypeInv, RecordsInv, NEW w \in Observers,
         SomeObservation(w) \/ WorkerStep(w)
  PROVE  RecordsInv'
  <1>1. worker[w] \in Work /\ Placed(worker[w]) /\ worker \in [Observers -> Work]
    BY DEF TypeInv, WorkersOK, TypeOK, Work
  <1>2. ASSUME SomeObservation(w) PROVE RecordsInv'
    <2>1. PICK p \in Paths, s \in schedule.seen, t \in Targets \cup {Nothing} : Observe(w, p, s, t)
      BY <1>2, SeesPaths DEF SomeObservation
    <2>2. worker'[w].handle = Nothing /\ \A v \in Observers : v # w => worker'[v] = worker[v]
      BY <1>1, <2>1 DEF Observe, Idle
    <2> QED BY <2>1, <2>2, NobodyMoves DEF Observe, kernel
  <1>3. ASSUME CheckBlock(w) \/ CheckPending(w) \/ CheckBlocked(w) PROVE RecordsInv'
    <2>1. worker[w].handle = Nothing
      BY <1>1, <1>3 DEF CheckBlock, CheckPending, CheckBlocked, Placed
    <2>2. worker'[w].handle = Nothing /\ \A v \in Observers : v # w => worker'[v] = worker[v]
      <3>1. \A a : [worker[w] EXCEPT !.at = a].handle = Nothing
        BY <1>1, <2>1 DEF Work
      <3>2. Idle.handle = Nothing
        BY DEF Idle
      <3>3. \E a : \/ worker' = [worker EXCEPT ![w] = Idle]
                  \/ worker' = [worker EXCEPT ![w] = [worker[w] EXCEPT !.at = a]]
        <4>1. CASE CheckBlock(w)
          BY <4>1, Zenon DEF CheckBlock
        <4>2. CASE CheckPending(w)
          BY <4>2, Zenon DEF CheckPending
        <4>3. CASE CheckBlocked(w)
          BY <4>3, Zenon DEF CheckBlocked
        <4> QED BY <1>3, <4>1, <4>2, <4>3
      <3> QED BY <1>1, <3>1, <3>2, <3>3
    <2>3. UNCHANGED <<filters, appBlocks, pending>>
      BY <1>3 DEF CheckBlock, CheckPending, CheckBlocked, kernel
    <2> QED BY <2>2, <2>3, NobodyMoves
  <1>4. ASSUME InstallFilter(w) \/ TemporaryFilter(w) PROVE RecordsInv'
    <2>1. CASE UNCHANGED filters
      <3>1. worker'[w].handle = Nothing /\ \A v \in Observers : v # w => worker'[v] = worker[v]
        <4>2. CASE InstallFilter(w)
          <5>1. worker[w].rule \in Rule
            BY <1>1, <4>2 DEF InstallFilter, Placed
          <5>2. FilterFor(worker[w].rule) # Nothing
            BY <5>1, BlockKeyType, QuarantineAssumption
          <5>3. worker' = [worker EXCEPT ![w] = Idle]
            BY <2>1, <4>2, <5>2, HandTypes DEF InstallFilter, Free, TypeInv, TypeOK
          <5> QED BY <1>1, <5>3 DEF Idle
        <4>3. CASE TemporaryFilter(w)
          <5>1. worker[w].path \in Paths
            BY <1>1, <4>3 DEF TemporaryFilter, Placed
          <5>2. [app |-> IdOf[worker[w].path], proto |-> "all", target |-> "any"] # Nothing
            BY <5>1, QuarantineAssumption DEF Filter, Scopes
          <5>3. Holds(w, "prompt", Nothing)
            BY <2>1, <4>3, <5>2, HandTypes DEF TemporaryFilter, Free, TypeInv, TypeOK
          <5> QED BY <1>1, <5>3 DEF Holds
        <4> QED BY <1>4, <4>2, <4>3
      <3> QED BY <1>4, <2>1, <3>1, NobodyMoves DEF InstallFilter, TemporaryFilter
    <2>2. ASSUME NEW h \in Handles, NEW f \in Filter, NEW a, Free(h),
                 filters' = [filters EXCEPT ![h] = f], Holds(w, a, h),
                 f.app = IdOf[IF a = "record" THEN worker[w].rule.path ELSE worker[w].path]
          PROVE  RecordsInv'
      <3>1. /\ \A k \in BlockKeys : appBlocks[k] # h
            /\ \A p \in Paths : pending[p] # h
            /\ \A v \in Observers : worker[v].handle # h
        BY <2>2 DEF Free, Referenced
      <3>2. /\ worker'[w].handle = h
            /\ HandPath(worker'[w]) = IF a = "record" THEN worker[w].rule.path ELSE worker[w].path
            /\ \A v \in Observers : v # w => worker'[v] = worker[v]
        BY <1>1, <2>2 DEF Holds, HandPath
      <3>3. /\ filters'[h] = f /\ f # Nothing
            /\ \A g \in Handles : g # h => filters'[g] = filters[g]
        BY <2>2, QuarantineAssumption DEF TypeInv, TypeOK
      <3>4. UNCHANGED <<appBlocks, pending>>
        BY <1>4 DEF InstallFilter, TemporaryFilter
      <3>5. RecordsLive'
        BY <3>1, <3>3, <3>4, HandTypes DEF RecordsInv, RecordsLive
      <3>6. HandsLive'
        <4>1. filters'[h].app = IdOf[HandPath(worker'[w])]
          BY <2>2, <3>2, <3>3
        <4> HIDE DEF HandPath
        <4>2. SUFFICES ASSUME NEW v \in Observers, worker'[v].handle # Nothing
                       PROVE  LET g == worker'[v].handle IN
                              /\ filters'[g] # Nothing /\ filters'[g].app = IdOf[HandPath(worker'[v])]
                              /\ \A k \in BlockKeys : appBlocks'[k] # g
                              /\ \A p \in Paths : pending'[p] # g
                              /\ \A u \in Observers : worker'[u].handle = g => u = v
          BY DEF HandsLive, HandPath
        <4>3. CASE v = w
          BY <3>1, <3>2, <3>3, <3>4, <4>1, <4>3
        <4>4. CASE v # w
          BY <3>1, <3>2, <3>3, <3>4, <4>2, <4>4, HandTypes DEF RecordsInv, HandsLive
        <4> QED BY <4>3, <4>4
      <3>7. PromptsApart'
        BY <3>4 DEF RecordsInv, PromptsApart
      <3> QED BY <3>5, <3>6, <3>7 DEF RecordsInv
    <2>3. CASE InstallFilter(w)
      <3>1. worker[w].rule \in Rule
        BY <1>1, <2>3 DEF InstallFilter, Placed
      <3> QED BY <2>1, <2>2, <2>3, <3>1, BlockKeyType DEF InstallFilter
    <2>4. CASE TemporaryFilter(w)
      <3>1. worker[w].path \in Paths
        BY <1>1, <2>4 DEF TemporaryFilter, Placed
      <3>2. [app |-> IdOf[worker[w].path], proto |-> "all", target |-> "any"] \in Filter
        BY <3>1, QuarantineAssumption DEF Filter, Scopes
      <3> QED BY <2>1, <2>2, <2>4, <3>2 DEF TemporaryFilter
    <2> QED BY <1>4, <2>3, <2>4
  <1>5. ASSUME RecordBlock(w) PROVE RecordsInv'
    <2> DEFINE key == BlockKey(worker[w].rule)
               h == worker[w].handle
    <2>1. h \in Handles /\ key \in BlockKeys /\ key[1] = HandPath(worker[w])
      <3>1. worker[w].rule \in Rule /\ h # Nothing /\ h \in Handle
        BY <1>1, <1>5 DEF RecordBlock, Placed, Work
      <3> QED BY <1>5, <3>1, BlockKeyType DEF HandPath, RecordBlock, Handle
    <2>2. /\ filters[h] # Nothing /\ filters[h].app = IdOf[key[1]]
          /\ \A k \in BlockKeys : appBlocks[k] # h
          /\ \A p \in Paths : pending[p] # h
          /\ \A v \in Observers : worker[v].handle = h => v = w
      <3>1. h # Nothing
        BY <2>1, QuarantineAssumption
      <3> HIDE DEF key
      <3> QED BY <2>1, <3>1 DEF RecordsInv, HandsLive
    <2>3. /\ appBlocks'[key] = h
          /\ \A k \in BlockKeys : k # key => appBlocks'[k] = appBlocks[k]
          /\ \A g \in Handles : g # appBlocks[key] => filters'[g] = filters[g]
          /\ worker'[w].handle = Nothing
          /\ \A v \in Observers : v # w => worker'[v] = worker[v]
          /\ pending' = pending
      BY <1>1, <1>5, <2>1, DeletedFacts DEF RecordBlock, Idle, TypeInv, TypeOK
    <2> HIDE DEF key, h
    <2>4. RecordsLive'
      BY <2>1, <2>2, <2>3, HandTypes DEF RecordsInv, RecordsLive
    <2>5. HandsLive'
      BY <2>1, <2>2, <2>3, HandTypes DEF RecordsInv, HandsLive
    <2>6. PromptsApart'
      BY <2>3 DEF RecordsInv, PromptsApart
    <2> QED BY <2>4, <2>5, <2>6 DEF RecordsInv
  <1>6. ASSUME Prompt(w) PROVE RecordsInv'
    <2> DEFINE h == worker[w].handle
               path == worker[w].path
    <2>1. path \in Paths /\ h \in Handles \cup {Nothing} /\ HandPath(worker[w]) = path
      BY <1>1, <1>6 DEF Prompt, Placed, Work, HandPath, Handle
    <2>2. h # Nothing =>
            /\ filters[h] # Nothing /\ filters[h].app = IdOf[path]
            /\ \A k \in BlockKeys : appBlocks[k] # h
            /\ \A p \in Paths : pending[p] # h
            /\ \A v \in Observers : worker[v].handle = h => v = w
      BY <2>1 DEF RecordsInv, HandsLive
    <2>3. /\ pending'[path] = IF h = Nothing THEN "unfiltered" ELSE h
          /\ \A p \in Paths : p # path => pending'[p] = pending[p]
          /\ worker'[w].handle = Nothing
          /\ \A v \in Observers : v # w => worker'[v] = worker[v]
          /\ UNCHANGED <<filters, appBlocks>>
      BY <1>1, <1>6, <2>1 DEF Prompt, Idle, TypeInv, TypeOK, kernel
    <2> HIDE DEF path, h
    <2>4. RecordsLive'
      BY <2>1, <2>2, <2>3, HandTypes DEF RecordsInv, RecordsLive
    <2>5. HandsLive'
      BY <2>1, <2>2, <2>3, HandTypes DEF RecordsInv, HandsLive, h
    <2>6. PromptsApart'
      BY <2>1, <2>2, <2>3, HandTypes DEF RecordsInv, PromptsApart
    <2> QED BY <2>4, <2>5, <2>6 DEF RecordsInv
  <1> QED BY <1>2, <1>3, <1>4, <1>5, <1>6 DEF WorkerStep

\* A record of a block goes, and its filter may.
LEMMA BlockReleases ==
  ASSUME TypeInv, RecordsInv, NEW k \in BlockKeys,
         appBlocks' = [appBlocks EXCEPT ![k] = Nothing],
         Deleted(filters, appBlocks[k]), UNCHANGED <<pending, worker>>
  PROVE  RecordsInv'
  <1> DEFINE X == {appBlocks[k]}
  <1>1. \A l \in BlockKeys : appBlocks'[l] = Nothing
                               \/ (appBlocks'[l] = appBlocks[l] /\ appBlocks[l] \notin X)
    BY DEF RecordsInv, RecordsLive, TypeInv, TypeOK
  <1>2. \A p \in Paths : pending'[p] = Nothing
                           \/ (pending'[p] = pending[p] /\ pending[p] \notin X)
    BY DEF RecordsInv, RecordsLive
  <1>3. \A w \in Observers : worker[w].handle = Nothing \/ worker[w].handle \notin X
    BY DEF RecordsInv, HandsLive
  <1>4. \A h \in Handles : h \notin X => filters'[h] = filters[h]
    BY DeletedFacts DEF TypeInv, TypeOK
  <1> HIDE DEF X
  <1> QED BY <1>1, <1>2, <1>3, <1>4, Release

\* The commands.
LEMMA CommandRecords ==
  ASSUME TypeInv, RecordsInv, StartCommand \/ UiStep
  PROVE  RecordsInv'
  <1>1. ASSUME NEW p \in Paths, NEW d, NEW s, NEW c, NEW e, Decide(p, d, s, c, e)
        PROVE  RecordsInv'
    <2>1. /\ Deleted(filters, pending[p])
          /\ pending' = [pending EXCEPT ![p] = Nothing]
          /\ UNCHANGED <<appBlocks, worker>>
      BY <1>1 DEF Decide
    <2> DEFINE X == {pending[p]} \cap Handles
    <2>2. \A q \in Paths : pending'[q] = Nothing
                             \/ (pending'[q] = pending[q] /\ pending[q] \notin X)
      BY <2>1, HandTypes DEF RecordsInv, PromptsApart, TypeInv, TypeOK
    <2>3. \A k \in BlockKeys : appBlocks'[k] = Nothing
                                 \/ (appBlocks'[k] = appBlocks[k] /\ appBlocks[k] \notin X)
      BY <2>1, HandTypes DEF RecordsInv, RecordsLive
    <2>4. \A w \in Observers : worker[w].handle = Nothing \/ worker[w].handle \notin X
      BY DEF RecordsInv, HandsLive
    <2>5. \A h \in Handles : h \notin X => filters'[h] = filters[h]
      BY <2>1, DeletedFacts DEF TypeInv, TypeOK
    <2> HIDE DEF X
    <2> QED BY <2>1, <2>2, <2>3, <2>4, <2>5, Release
  <1>2. ASSUME UNCHANGED <<filters, appBlocks, pending, worker>> PROVE RecordsInv'
    BY <1>2, NobodyMoves
  <1>3. CASE StartCommand
    <2>1. \/ \E p \in Paths, d \in Decisions, s \in schedule.protocols, c \in {"remember", "decide"},
               e \in {"never", "later"} : Decide(p, d, s, c, e)
          \/ UNCHANGED <<filters, appBlocks, pending, worker>>
      BY <1>3 DEF StartCommand, SetDecision, Upsert, AllowForAWhile, RemoveApp, RemoveRule, Import,
            kernel
    <2> QED BY <2>1, <1>1, <1>2
  <1>4. CASE DecideQuarantine
    <2>1. ui.rule \in Rule /\ ui.path \in Paths /\ <<ui.path>> \in BlockKeys
      BY <1>4 DEF DecideQuarantine, TypeInv, UiOK, BlockKeys
    <2>2. CASE UNCHANGED <<filters, appBlocks>>
      BY <1>2, <1>4, <2>2 DEF DecideQuarantine
    <2>3. ASSUME NEW h \in Handles, Free(h), filters' = [filters EXCEPT ![h] = FilterFor(ui.rule)],
                 appBlocks' = [appBlocks EXCEPT ![<<ui.path>>] = h]
          PROVE  RecordsInv'
      <3>1. FilterFor(ui.rule) \in Filter /\ FilterFor(ui.rule).app = IdOf[<<ui.path>>[1]]
        <4>1. ui.rule.path = ui.path
          BY <1>4 DEF DecideQuarantine, TypeInv, UiOK
        <4> QED BY <2>1, <4>1, BlockKeyType
      <3>2. /\ filters'[h] = FilterFor(ui.rule)
            /\ \A g \in Handles : g # h => filters'[g] = filters[g]
            /\ UNCHANGED <<pending, worker>>
        BY <1>4, <2>3 DEF DecideQuarantine, TypeInv, TypeOK
      <3> DEFINE key == <<ui.path>>
                 f == FilterFor(ui.rule)
      <3>3. /\ key \in BlockKeys /\ f \in Filter /\ f.app = IdOf[key[1]] /\ filters'[h] = f
            /\ appBlocks' = [appBlocks EXCEPT ![key] = h] /\ Free(h)
            /\ \A g \in Handles : g # h /\ g # appBlocks[key] => filters'[g] = filters[g]
            /\ UNCHANGED <<pending, worker>>
        BY <2>1, <2>3, <3>1, <3>2
      <3> HIDE DEF key, f
      <3> QED BY <3>3, NewBlock
    <2> QED BY <1>4, <2>2, <2>3 DEF DecideQuarantine
  <1>5. CASE Enforce
    <2>1. ui.rule \in Rule
      BY <1>5 DEF Enforce, TypeInv, UiOK
    <2>2. CASE UNCHANGED <<filters, appBlocks>>
      BY <1>2, <1>5, <2>2 DEF Enforce
    <2>3. ASSUME NEW h \in Handles, Free(h),
                 Deleted([filters EXCEPT ![h] = FilterFor(ui.rule)], appBlocks[BlockKey(ui.rule)]),
                 appBlocks' = [appBlocks EXCEPT ![BlockKey(ui.rule)] = h]
          PROVE  RecordsInv'
      <3> DEFINE key == BlockKey(ui.rule)
                 f == FilterFor(ui.rule)
                 fs == [filters EXCEPT ![h] = f]
      <3>1. key \in BlockKeys /\ f \in Filter /\ f.app = IdOf[key[1]]
        BY <2>1, BlockKeyType
      <3>2. appBlocks[key] # h
        BY <2>3, <3>1 DEF Free, Referenced
      <3>3. fs \in [Handles -> Filter \cup {Nothing}] /\ refused \subseteq Handles
            /\ fs[h] = f /\ \A g \in Handles : g # h => fs[g] = filters[g]
        BY <3>1 DEF TypeInv, TypeOK
      <3>4. Deleted(fs, appBlocks[key])
        BY <2>3
      <3> HIDE DEF fs, f, key
      <3>5. /\ filters'[h] = f
            /\ \A g \in Handles : g # h /\ g # appBlocks[key] => filters'[g] = filters[g]
        BY <3>2, <3>3, <3>4, DeletedFacts
      <3>6. appBlocks' = [appBlocks EXCEPT ![key] = h] /\ UNCHANGED <<pending, worker>> /\ Free(h)
        BY <1>5, <2>3 DEF key, Enforce
      <3> QED BY <3>1, <3>5, <3>6, NewBlock
    <2> QED BY <1>5, <2>2, <2>3 DEF Enforce, kernel
  <1>6. CASE FreeBlock
    <2>1. ASSUME NEW k \in ui.keys, appBlocks' = [appBlocks EXCEPT ![k] = Nothing],
                 Deleted(filters, appBlocks[k])
          PROVE  RecordsInv'
      <3>1. k \in BlockKeys /\ UNCHANGED <<pending, worker>>
        BY <1>6 DEF FreeBlock, TypeInv, TypeOK
      <3> QED BY <2>1, <3>1, BlockReleases
    <2>2. CASE UNCHANGED <<kernel, appBlocks>>
      BY <1>2, <1>6, <2>2 DEF FreeBlock, kernel
    <2> QED BY <1>6, <2>1, <2>2 DEF FreeBlock
  <1>7. CASE ImportPrompts
    <2> DEFINE X == {}
    <2>1. /\ \A h \in Handles : h \notin X => filters'[h] = filters[h]
          /\ \A p \in Paths : pending'[p] = Nothing
          /\ UNCHANGED worker
          /\ \A k \in BlockKeys : appBlocks'[k] = appBlocks[k] /\ appBlocks[k] \notin X
          /\ \A w \in Observers : worker[w].handle \notin X
      BY <1>7 DEF ImportPrompts, kernel
    <2> HIDE DEF X
    <2> QED BY <2>1, Release
  <1>8. CASE FindBlocks \/ StoreDecision \/ StoreProgram \/ RemoveAppSession \/ ImportSession
    BY <1>2, <1>8 DEF FindBlocks, StoreDecision, StoreSession, StoreProgram, RemoveAppSession,
                      ImportSession, kernel
  <1> QED BY <1>3, <1>4, <1>5, <1>6, <1>7, <1>8 DEF UiStep

\* The ticker.
LEMMA TickerRecords ==
  ASSUME TypeInv, RecordsInv, TickerStep \/ Expire
  PROVE  RecordsInv'
  <1>1. CASE UNCHANGED <<filters, appBlocks, pending, worker>>
    BY <1>1, NobodyMoves
  <1>2. CASE PruneBlock
    <2>1. CASE UNCHANGED <<appBlocks, kernel>>
      BY <1>1, <1>2, <2>1 DEF PruneBlock, kernel
    <2>2. ASSUME NEW e \in ticker.expired,
                 appBlocks' = [appBlocks EXCEPT ![BlockKey(e[1])] = Nothing],
                 Deleted(filters, appBlocks[BlockKey(e[1])])
          PROVE  RecordsInv'
      <3>1. e[1] \in Rule
        BY DEF TypeInv, TypeOK
      <3>2. BlockKey(e[1]) \in BlockKeys /\ UNCHANGED <<pending, worker>>
        BY <1>2, <3>1, BlockKeyType DEF PruneBlock
      <3> QED BY <2>2, <3>2, BlockReleases
    <2> QED BY <1>2, <2>1, <2>2 DEF PruneBlock
  <1> QED BY <1>1, <1>2 DEF TickerStep, PruneProgram, PruneSession, Expire, kernel

\* At the start there are no filters and no records.
LEMMA InitRecords == Init => RecordsInv
  BY QuarantineAssumption DEF Init, RecordsInv, RecordsLive, HandsLive, PromptsApart, Idle

\* Every step keeps the records apart and their filters live.
LEMMA StepRecords == TypeInv /\ RecordsInv /\ [Next]_vars => RecordsInv'
  <1> SUFFICES ASSUME TypeInv, RecordsInv, [Next]_vars PROVE RecordsInv'
    OBVIOUS
  <1>1. CASE UNCHANGED vars
    BY <1>1, NobodyMoves DEF vars
  <1> QED BY <1>1, WorkerRecords, CommandRecords, TickerRecords DEF Next

\* Whatever overlaps and whatever the firewall refuses: a record is of a live
\* filter of the application it is recorded for, and no filter is on record twice
\* (install_block_for_rule, decide_program, remove_runtime_blocks_for_app,
\* prune_expired_rules).
THEOREM RecordsStayLive == Spec => []RecordsLive
  <1>1. Init => TypeInv /\ RecordsInv
    BY InitTypes, InitRecords
  <1>2. TypeInv /\ RecordsInv /\ [Next]_vars => (TypeInv /\ RecordsInv)'
    BY StepTypes, StepRecords
  <1>3. RecordsInv => RecordsLive
    BY DEF RecordsInv
  <1> QED BY <1>1, <1>2, <1>3, PTL DEF Spec

-----------------------------------------------------------------------------
(* When activities follow one another. *)

\* The serial schedules of which NoStrayFilter and AllowedConnects hold: the user
\* decides and removes the rules of an application; single rules too, if every
\* decision is about all protocols.
Undoing(s) ==
  \/ s.commands \subseteq {"decide", "remove"}
  \/ s.commands \subseteq {"decide", "remove", "removeRule"} /\ s.protocols \subseteq {"all"}

RulesIn(q) == {q[i] : i \in DOMAIN q}
Apart(q) == \A i, j \in DOMAIN q : q[i].path = q[j].path => i = j
Alone(q) ==
  \A i, j \in DOMAIN q : q[i].path = q[j].path /\ q[i].decision = "quarantine" => i = j

Remembered == RulesIn(programRules)
Session    == RulesIn(sessionRules)
Quarantines(R) == {r \in R : r.decision = "quarantine"}

UiRecord ==
  [at : {"idle", "quarantine", "enforce", "session", "program", "unblock", "free", "prompts"},
   cmd : {"none", "remember", "decide", "upsert", "remove", "import"},
   path : Paths \cup {Nothing}, rule : Rule \cup {Nothing}, keys : SUBSET BlockKeys]
Deciding == ui.at \in {"quarantine", "session", "program"} /\ ui.cmd \in {"remember", "decide"}
Removing == ui.at \in {"session", "unblock", "free"} /\ ui.cmd = "remove"
Asks(w)  == worker[w].at \in {"ask", "blocked?", "filter", "prompt"}

\* Weeding a map takes rules from it and adds none.
LEMMA WeedingIn ==
  ASSUME NEW q \in Seq(Rule), NEW gone
  PROVE  /\ RulesIn(Without(q, gone)) = RulesIn(q) \ gone
         /\ Apart(q) => Apart(Without(q, gone))
         /\ Alone(q) => Alone(Without(q, gone))
  <1> DEFINE s == Without(q, gone)
  <1>1. Weeded(s, q, DOMAIN q, gone, Rule)
    BY WithoutWeeds
  <1>2. DOMAIN q \subseteq Nat /\ DOMAIN s \subseteq Nat
    <2>1. s \in Seq(Rule)
      BY <1>1 DEF Weeded
    <2> QED BY <2>1, LenProperties
  <1> HIDE DEF s
  <1>3. RulesIn(s) = RulesIn(q) \ gone
    BY <1>1 DEF Weeded, RulesIn
  <1>4. \A j, k \in DOMAIN s : j < k =>
          \E i, l \in DOMAIN q : i < l /\ s[j] = q[i] /\ s[k] = q[l]
    BY <1>1 DEF Weeded
  <1>5. ASSUME Apart(q) PROVE Apart(s)
    <2>1. ASSUME NEW j \in DOMAIN s, NEW k \in DOMAIN s, j < k, s[j].path = s[k].path PROVE FALSE
      <3>1. PICK i \in DOMAIN q, l \in DOMAIN q : i < l /\ s[j] = q[i] /\ s[k] = q[l]
        BY <1>4, <2>1
      <3>2. i = l
        BY <1>5, <2>1, <3>1 DEF Apart
      <3> QED BY <1>2, <3>1, <3>2
    <2>2. \A j, k \in DOMAIN s : j < k \/ k < j \/ j = k
      BY <1>2
    <2> QED BY <2>1, <2>2 DEF Apart
  <1>6. ASSUME Alone(q) PROVE Alone(s)
    <2>1. ASSUME NEW j \in DOMAIN s, NEW k \in DOMAIN s, j < k, s[j].path = s[k].path,
                 s[j].decision = "quarantine" \/ s[k].decision = "quarantine"
          PROVE  FALSE
      <3>1. PICK i \in DOMAIN q, l \in DOMAIN q : i < l /\ s[j] = q[i] /\ s[k] = q[l]
        BY <1>4, <2>1
      <3>2. i = l
        BY <1>6, <2>1, <3>1 DEF Alone
      <3> QED BY <1>2, <3>1, <3>2
    <2>2. \A j, k \in DOMAIN s : j < k \/ k < j \/ j = k
      BY <1>2
    <2> QED BY <2>1, <2>2 DEF Alone
  <1> QED BY <1>3, <1>5, <1>6 DEF s

\* A rule of a path that has none comes to a map.
LEMMA AppendingIn ==
  ASSUME NEW q \in Seq(Rule), NEW r \in Rule, \A o \in RulesIn(q) : o.path # r.path
  PROVE  /\ RulesIn(Insert(q, r)) = RulesIn(q) \cup {r}
         /\ Apart(q) => Apart(Insert(q, r))
         /\ Alone(q) => Alone(Insert(q, r))
  <1> DEFINE s == Without(q, SameKey(r))
             t == Append(s, r)
  <1>1. s \in Seq(Rule) /\ RulesIn(s) = RulesIn(q)
        /\ (Apart(q) => Apart(s)) /\ (Alone(q) => Alone(s))
    <2>1. RulesIn(q) \cap SameKey(r) = {}
      <3>1. \A o \in SameKey(r) : o.path = r.path
        BY DEF SameKey, StorageKey
      <3> QED BY <3>1
    <2> QED BY <2>1, WeedingIn, MapTypes
  <1> HIDE DEF s
  <1>2. /\ DOMAIN t = 1 .. Len(s) + 1 /\ DOMAIN s = 1 .. Len(s) /\ Len(s) \in Nat
        /\ t[Len(s) + 1] = r /\ \A i \in DOMAIN s : t[i] = s[i]
    BY <1>1, AppendProperties, LenProperties
  <1> HIDE DEF t
  <1>3. DOMAIN t = DOMAIN s \cup {Len(s) + 1} /\ Len(s) + 1 \notin DOMAIN s
    BY <1>2
  <1>4. RulesIn(t) = RulesIn(q) \cup {r}
    <2>1. RulesIn(t) = RulesIn(s) \cup {r}
      BY <1>2, <1>3 DEF RulesIn
    <2> QED BY <1>1, <2>1
  <1>5. \A i \in DOMAIN s : s[i].path # r.path
    BY <1>1 DEF RulesIn
  <1>6. Apart(s) => Apart(t)
    BY <1>2, <1>3, <1>5 DEF Apart
  <1>7. Alone(s) => Alone(t)
    BY <1>2, <1>3, <1>5 DEF Alone
  <1> QED BY <1>1, <1>4, <1>6, <1>7 DEF Insert, s, t

\* The end of a timed rule changes nothing else about the map.
LEMMA ExpiringIn ==
  ASSUME NEW q \in Seq(Rule), NEW i \in DOMAIN q
  PROVE  LET s == [q EXCEPT ![i].expires = "due"]
             r == [q[i] EXCEPT !.expires = "due"]
         IN /\ Apart(q) => Apart(s)
            /\ RulesIn(s) \subseteq RulesIn(q) \cup {r} /\ r \in RulesIn(s)
            /\ \A o \in RulesIn(q) : o \in RulesIn(s) \/ o = q[i]
            /\ r.path = q[i].path /\ r.decision = q[i].decision
            /\ r.proto = q[i].proto /\ r.target = q[i].target
  <1> DEFINE s == [q EXCEPT ![i].expires = "due"]
             r == [q[i] EXCEPT !.expires = "due"]
  <1>1. q[i] \in Rule
    BY MapTypes
  <1>2. /\ r.path = q[i].path /\ r.decision = q[i].decision
        /\ r.proto = q[i].proto /\ r.target = q[i].target
    BY <1>1 DEF Rule
  <1>3. DOMAIN s = DOMAIN q /\ s[i] = r /\ \A j \in DOMAIN q : j # i => s[j] = q[j]
    OBVIOUS
  <1> HIDE DEF s, r
  <1>4. Apart(q) => Apart(s)
    BY <1>2, <1>3 DEF Apart
  <1>5. RulesIn(s) \subseteq RulesIn(q) \cup {r} /\ r \in RulesIn(s)
    BY <1>3 DEF RulesIn
  <1>6. \A o \in RulesIn(q) : o \in RulesIn(s) \/ o = q[i]
    BY <1>3 DEF RulesIn
  <1> QED BY <1>2, <1>4, <1>5, <1>6 DEF s, r

\* One at work at a time.
OneAtWork ==
  /\ \A v, w \in Observers : worker[v].at # "idle" /\ worker[w].at # "idle" => v = w
  /\ \A w \in Observers : worker[w].at # "idle" => ui.at = "idle" /\ ticker.at = "idle"
  /\ ui.at # "idle" => ticker.at = "idle"

\* The rules there are: about a whole application, timed for the session only.
Modest ==
  /\ \A r \in Remembered : r.target = "any" /\ r.expires = "never"
  /\ \A r \in Session : r.target = "any"
  /\ ui.at # "idle" => Deciding \/ Removing
  /\ Deciding => /\ ui.rule.target = "any" /\ ui.rule.path = ui.path
                 /\ ui.cmd = "remember" => ui.rule.expires = "never"
  /\ ui.at = "quarantine" => ui.rule.decision = "quarantine"
  /\ \A e \in ticker.expired : e[1].target = "any"
  /\ ticker.at \in {"idle", "session"} => ticker.expired = {}

RulesApart ==
  /\ Apart(sessionRules)
  /\ \A r \in Quarantines(Remembered), s \in Session : r.path # s.path

\* A rule that quarantines has its block, and a prompt means there is none.
RulesBlock == \A r \in Quarantines(Remembered \cup Session) : appBlocks[<<r.path>>] # Nothing
PromptsUnblocked == \A p \in Paths : pending[p] # Nothing => appBlocks[<<p>>] = Nothing

\* What a thread has found out remains so until it acts on it.
WorkersMeanIt ==
  \A w \in Observers :
    /\ worker[w].at \notin {"install", "record"}
    /\ worker[w].at = "matched" => appBlocks[BlockKey(worker[w].rule)] # Nothing
    /\ worker[w].at \in {"blocked?", "filter", "prompt"} => pending[worker[w].path] = Nothing
    /\ worker[w].at \in {"filter", "prompt"} => appBlocks[<<worker[w].path>>] = Nothing
CommandsMeanIt ==
  /\ ui.at = "quarantine" => pending[ui.path] = Nothing /\ appBlocks[<<ui.path>>] = Nothing
  /\ Deciding => pending[ui.path] = Nothing
  /\ Deciding => \A r \in Quarantines(Remembered \cup Session) : r.path # ui.path
  /\ Deciding /\ ui.at # "quarantine" /\ ui.rule.decision = "quarantine" =>
       appBlocks[<<ui.path>>] # Nothing
  /\ ui.at = "program" => ui.cmd = "remember" /\ \A r \in Session : r.path # ui.path
  /\ Removing => \A r \in Remembered : r.path # ui.path
  /\ ui.at \in {"unblock", "free"} => \A r \in Session : r.path # ui.path
  /\ ui.at = "free" => \A k \in ui.keys : k[1] = ui.path
TickerMeansIt ==
  \A e \in ticker.expired, r \in Quarantines(Remembered \cup Session) : r.path # e[1].path

\* When every decision is about all protocols, a path has one rule.
OneRuleEach ==
  schedule.protocols \subseteq {"all"} =>
    /\ \A r \in Remembered : r.proto = "all" /\ \A s \in Session : r.path # s.path
    /\ Apart(programRules)
    /\ \A r \in Remembered, p \in Paths : pending[p] # Nothing => r.path # p
    /\ \A r \in Remembered, w \in Observers : Asks(w) => r.path # worker[w].path
    /\ Deciding => ui.rule.proto = "all" /\ \A r \in Remembered : r.path # ui.path

AllReferenced == \A h \in Handles \ refused : filters[h] # Nothing => Referenced(h)

SerialInv ==
  /\ OneAtWork /\ Modest /\ RulesApart /\ RulesBlock /\ PromptsUnblocked
  /\ WorkersMeanIt /\ CommandsMeanIt /\ TickerMeansIt /\ OneRuleEach /\ AllReferenced

\* At the start nobody is at work and there are no rules.
LEMMA InitSerial == Init => SerialInv
  <1> SUFFICES ASSUME Init PROVE SerialInv
    OBVIOUS
  <1>1. Remembered = {} /\ Session = {} /\ Apart(programRules) /\ Apart(sessionRules)
    BY DEF Init, Remembered, Session, RulesIn, Apart
  <1>2. /\ ui.at = "idle" /\ ticker.at = "idle" /\ ticker.expired = {}
        /\ \A w \in Observers : worker[w].at = "idle"
        /\ \A h \in Handles : filters[h] = Nothing
        /\ \A p \in Paths : pending[p] = Nothing
    BY DEF Init, UiIdle, TickerIdle, Idle
  <1> QED BY <1>1, <1>2 DEF SerialInv, OneAtWork, Modest, RulesApart, RulesBlock, PromptsUnblocked,
       WorkersMeanIt, CommandsMeanIt, TickerMeansIt, OneRuleEach, AllReferenced, Deciding, Removing,
       Asks, Quarantines

\* Types in terms of rules rather than of maps.
LEMMA RuleTypes ==
  ASSUME TypeInv
  PROVE  /\ Remembered \subseteq Rule /\ Session \subseteq Rule
         /\ programRules \in Seq(Rule) /\ sessionRules \in Seq(Rule)
         /\ \A r \in Rule : r.path \in Paths
         /\ \A r \in Rule : r.target = "any" => BlockKey(r) = <<r.path>>
         /\ \A p \in Paths : <<p>> \in BlockKeys /\ SameApp(p, p)
  <1>1. programRules \in Seq(Rule) /\ sessionRules \in Seq(Rule)
    BY DEF TypeInv, TypeOK
  <1>2. Remembered \subseteq Rule /\ Session \subseteq Rule
    BY <1>1, MapTypes DEF Remembered, Session, RulesIn
  <1> QED BY <1>1, <1>2 DEF Rule, BlockKey, BlockKeys, SameApp

\* The lookup finds a rule that matches if there is one, a session rule first.
LEMMA FindFinds ==
  ASSUME TypeInv, NEW p, NEW proto, NEW remote
  PROVE  LET r == Find(p, proto, remote) IN
         /\ r # Nothing => r \in Remembered \cup Session /\ Matches(r, p, proto, remote)
         /\ r = Nothing => \A o \in Remembered \cup Session : ~ Matches(o, p, proto, remote)
         /\ \A o \in Session : Matches(o, p, proto, remote) => r \in Session
  <1>1. programRules \in Seq(Rule) /\ sessionRules \in Seq(Rule)
    BY DEF TypeInv, TypeOK
  <1>2. ASSUME NEW q \in Seq(Rule), NEW b \in BOOLEAN
        PROVE  LET r == FindIn(q, p, proto, remote, b) IN
               /\ r # Nothing => r \in RulesIn(q) /\ Matches(r, p, proto, remote)
               /\ r = Nothing => \A o \in RulesIn(q) : ~ Matches(o, p, proto, remote)
    <2> DEFINE fit == {i \in DOMAIN q : Matches(q[i], p, proto, remote)}
    <2>1. CASE fit = {} /\ FindIn(q, p, proto, remote, b) = Nothing
      BY <2>1 DEF RulesIn
    <2>2. ASSUME NEW i \in fit, FindIn(q, p, proto, remote, b) = q[i]
          PROVE  /\ FindIn(q, p, proto, remote, b) # Nothing
                 /\ q[i] \in RulesIn(q) /\ Matches(q[i], p, proto, remote)
      <3>1. q[i] \in Rule
        BY MapTypes
      <3> QED BY <2>2, <3>1, QuarantineAssumption DEF RulesIn
    <2> QED BY <2>1, <2>2, FindInIsBest
  <1> QED BY <1>1, <1>2 DEF Find, Remembered, Session

\* A worker goes on, or begins when all are idle: what it has found out must be
\* so, and a prompt it puts in must be for a path without a block.
LEMMA WorkerGoesOn ==
  ASSUME TypeInv, SerialInv, NEW w \in Observers,
         UNCHANGED <<rules, appBlocks, ui, ticker, schedule>>,
         ui.at = "idle", ticker.at = "idle",
         \A v \in Observers : v # w => worker'[v] = worker[v] /\ worker[v].at = "idle",
         worker'[w].at \notin {"install", "record"},
         worker'[w].at = "matched" => appBlocks[BlockKey(worker'[w].rule)] # Nothing,
         worker'[w].at \in {"blocked?", "filter", "prompt"} => pending'[worker'[w].path] = Nothing,
         worker'[w].at \in {"filter", "prompt"} => appBlocks[<<worker'[w].path>>] = Nothing,
         worker'[w].at \in {"ask", "blocked?", "filter", "prompt"} =>
           (schedule.protocols \subseteq {"all"} =>
              \A r \in Remembered : r.path # worker'[w].path),
         \A p \in Paths : pending'[p] = pending[p]
           \/ (/\ appBlocks[<<p>>] = Nothing
               /\ schedule.protocols \subseteq {"all"} => \A r \in Remembered : r.path # p),
         \A h \in Handles \ refused' : filters'[h] # Nothing => Referenced(h)'
  PROVE  SerialInv'
  <1>1. Remembered' = Remembered /\ Session' = Session
    BY DEF rules, Remembered, Session
  <1>2. ~ Deciding /\ ~ Removing /\ ~ Deciding' /\ ~ Removing'
    BY DEF Deciding, Removing
  <1>3. OneAtWork'
    BY DEF SerialInv, OneAtWork
  <1>4. Modest'
    BY <1>1, <1>2 DEF SerialInv, Modest
  <1>5. RulesApart' /\ RulesBlock'
    BY <1>1 DEF SerialInv, RulesApart, RulesBlock, rules
  <1>6. PromptsUnblocked'
    BY DEF SerialInv, PromptsUnblocked
  <1>7. WorkersMeanIt'
    BY DEF SerialInv, WorkersMeanIt
  <1>8. CommandsMeanIt' /\ TickerMeansIt'
    BY <1>1, <1>2 DEF SerialInv, CommandsMeanIt, TickerMeansIt
  <1>9. OneRuleEach'
    BY <1>1, <1>2 DEF SerialInv, OneRuleEach, Asks, rules
  <1>10. AllReferenced'
    BY DEF AllReferenced
  <1> QED BY <1>3, <1>4, <1>5, <1>6, <1>7, <1>8, <1>9, <1>10 DEF SerialInv

\* No filter comes or goes, and no worker with one in hand moves.
LEMMA StillReferenced ==
  ASSUME AllReferenced, UNCHANGED <<kernel, appBlocks, pending>>,
         \A v \in Observers : worker'[v].handle = worker[v].handle \/ worker[v].handle = Nothing,
         Nothing \notin Handles
  PROVE  \A h \in Handles \ refused' : filters'[h] # Nothing => Referenced(h)'
  BY DEF AllReferenced, Referenced, kernel

\* A connection is observed when all are idle: what the lookup says holds.
LEMMA ObserveSerial ==
  ASSUME TypeInv, SerialInv, schedule.serial, NEW w \in Observers, SomeObservation(w)
  PROVE  SerialInv'
  <1>1. PICK p \in Paths, s \in schedule.seen, t \in Targets \cup {Nothing} : Observe(w, p, s, t)
    BY SeesPaths DEF SomeObservation
  <1>2. /\ ui.at = "idle" /\ ticker.at = "idle"
        /\ \A v \in Observers : worker[v].at = "idle" /\ worker[v].handle = Nothing
    BY <1>1 DEF Observe, MayStart, AllIdle, UiIdle, TickerIdle, Idle
  <1> DEFINE r == Find(p, s, t)
  <1>3. /\ r # Nothing => r \in Remembered \cup Session
        /\ r = Nothing => \A o \in Remembered \cup Session : ~ Matches(o, p, s, t)
    BY FindFinds
  <1>4. UNCHANGED <<rules, pending, appBlocks, kernel, ticker, ui, schedule>>
        /\ \A v \in Observers : v # w => worker'[v] = worker[v]
    BY <1>1 DEF Observe, commands, TypeInv, TypeOK
  <1>5. \/ worker'[w] = Idle
        \/ r = Nothing /\ worker'[w].at = "ask" /\ worker'[w].path = p
        \/ /\ r # Nothing /\ r.decision = "quarantine"
           /\ worker'[w].at = "matched" /\ worker'[w].rule = r
    <2> HIDE DEF r
    <2>1. worker'[w] = IF r = Nothing THEN [Idle EXCEPT !.at = "ask", !.path = p]
                       ELSE IF r.decision = "quarantine"
                            THEN [Idle EXCEPT !.at = "matched", !.path = p, !.rule = r]
                            ELSE Idle
      BY <1>1 DEF Observe, TypeInv, TypeOK, r
    <2> QED BY <2>1 DEF Idle
  <1> HIDE DEF r
  <1>6. worker'[w].at = "matched" => appBlocks[BlockKey(worker'[w].rule)] # Nothing
    <2> SUFFICES ASSUME worker'[w].at = "matched" PROVE appBlocks[BlockKey(worker'[w].rule)] # Nothing
      OBVIOUS
    <2>1. r \in Quarantines(Remembered \cup Session) /\ worker'[w].rule = r
      BY <1>3, <1>5 DEF Quarantines, Idle
    <2>2. r.target = "any" /\ r \in Rule
      BY <2>1, RuleTypes DEF SerialInv, Modest, Quarantines
    <2>3. BlockKey(r) = <<r.path>>
      BY <2>2, RuleTypes
    <2> QED BY <2>1, <2>3 DEF SerialInv, RulesBlock
  <1>7. worker'[w].at = "ask" =>
          (schedule.protocols \subseteq {"all"} => \A o \in Remembered : o.path # worker'[w].path)
    <2> SUFFICES ASSUME worker'[w].at = "ask", schedule.protocols \subseteq {"all"},
                        NEW o \in Remembered, o.path = p
                 PROVE  FALSE
      BY <1>5 DEF Idle
    <2>1. o \in Rule /\ o.target = "any" /\ o.expires = "never" /\ o.proto = "all"
      BY RuleTypes DEF SerialInv, Modest, OneRuleEach
    <2>2. Matches(o, p, s, t)
      BY <2>1 DEF Matches, SameApp
    <2> QED BY <1>3, <1>5, <2>2 DEF Idle
  <1>8. worker'[w].at \in {"idle", "ask", "matched"}
    BY <1>5 DEF Idle
  <1>9. \A h \in Handles \ refused' : filters'[h] # Nothing => Referenced(h)'
    BY <1>2, <1>4, StillReferenced, QuarantineAssumption DEF SerialInv
  <1> QED BY <1>2, <1>4, <1>6, <1>7, <1>8, <1>9, WorkerGoesOn


\* A worker with a filter in hand puts it in a prompt; the other steps change no
\* record.
LEMMA WorkerSerial ==
  ASSUME TypeInv, SerialInv, NEW w \in Observers, WorkerStep(w)
  PROVE  SerialInv'
  <1> DEFINE d == worker[w]
             p == worker[w].path
  <1>1. d \in Work /\ Placed(d) /\ worker \in [Observers -> Work]
    BY DEF TypeInv, WorkersOK, TypeOK, Work
  <1>2. d.at # "idle" /\ d.at \notin {"install", "record"}
    BY DEF WorkerStep, CheckBlock, InstallFilter, RecordBlock, CheckPending, CheckBlocked,
           TemporaryFilter, Prompt, SerialInv, WorkersMeanIt
  <1>3. ui.at = "idle" /\ ticker.at = "idle" /\ \A v \in Observers : v # w => worker[v].at = "idle"
    BY <1>2 DEF SerialInv, OneAtWork
  <1>4. /\ d.at \in {"blocked?", "filter", "prompt"} => pending[p] = Nothing
        /\ d.at \in {"filter", "prompt"} => appBlocks[<<p>>] = Nothing
        /\ d.at \in {"ask", "blocked?", "filter", "prompt"} =>
             (schedule.protocols \subseteq {"all"} => \A r \in Remembered : r.path # p)
    BY DEF SerialInv, WorkersMeanIt, OneRuleEach, Asks
  <1>5. ASSUME CheckBlock(w) \/ CheckPending(w) \/ CheckBlocked(w) PROVE SerialInv'
    <2>1. d.handle = Nothing
      BY <1>1, <1>5 DEF CheckBlock, CheckPending, CheckBlocked, Placed
    <2>2. UNCHANGED <<rules, pending, appBlocks, kernel, ticker, ui, schedule>>
      BY <1>5 DEF CheckBlock, CheckPending, CheckBlocked, commands
    <2>3. \/ worker' = [worker EXCEPT ![w] = Idle]
          \/ /\ d.at = "ask" /\ pending[p] = Nothing
             /\ worker' = [worker EXCEPT ![w] = [d EXCEPT !.at = "blocked?"]]
          \/ /\ d.at = "blocked?" /\ appBlocks[<<p>>] = Nothing
             /\ worker' = [worker EXCEPT ![w] = [d EXCEPT !.at = "filter"]]
      <3>1. CASE CheckBlock(w)
        BY <3>1 DEF CheckBlock, SerialInv, WorkersMeanIt
      <3>2. CASE CheckPending(w)
        <4>1. p \in Paths
          BY <1>1, <3>2 DEF CheckPending, Placed
        <4>2. SameApp(p, p)
          BY <4>1, RuleTypes
        <4> QED BY <3>2, <4>1, <4>2, Zenon DEF CheckPending
      <3>3. CASE CheckBlocked(w)
        BY <3>3, Zenon DEF CheckBlocked
      <3> QED BY <1>5, <3>1, <3>2, <3>3
    <2>4. \/ worker'[w] = Idle
          \/ /\ d.at = "ask" /\ pending[p] = Nothing
             /\ worker'[w].at = "blocked?" /\ worker'[w].path = p /\ worker'[w].handle = Nothing
          \/ /\ d.at = "blocked?" /\ appBlocks[<<p>>] = Nothing
             /\ worker'[w].at = "filter" /\ worker'[w].path = p /\ worker'[w].handle = Nothing
      BY <1>1, <2>1, <2>3 DEF Work
    <2>5. \A v \in Observers : v # w => worker'[v] = worker[v]
      BY <1>1, <2>3
    <2>6. \A h \in Handles \ refused' : filters'[h] # Nothing => Referenced(h)'
      BY <2>1, <2>2, <2>5, StillReferenced, QuarantineAssumption DEF SerialInv
    <2>7. /\ worker'[w].at \in {"idle", "blocked?", "filter"}
          /\ worker'[w].at # "idle" =>
               /\ worker'[w].path = p /\ pending[p] = Nothing
               /\ schedule.protocols \subseteq {"all"} => \A r \in Remembered : r.path # p
          /\ worker'[w].at = "filter" => appBlocks[<<p>>] = Nothing
      BY <1>4, <2>4 DEF Idle
    <2> HIDE DEF d, p
    <2> QED BY <1>3, <2>2, <2>5, <2>6, <2>7, WorkerGoesOn
  <1>6. ASSUME TemporaryFilter(w) PROVE SerialInv'
    <2>1. PICK g \in Handles \cup {Nothing} :
            /\ Holds(w, "prompt", g)
            /\ \A h \in Handles : h # g => filters'[h] = filters[h]
      BY <1>6 DEF TemporaryFilter, TypeInv, TypeOK
    <2>2. /\ worker'[w].at = "prompt" /\ worker'[w].path = p /\ worker'[w].handle = g
          /\ \A v \in Observers : v # w => worker'[v] = worker[v]
      BY <1>1, <2>1 DEF Holds
    <2>3. UNCHANGED <<rules, pending, appBlocks, refused, ticker, ui, schedule>> /\ d.at = "filter"
      BY <1>6 DEF TemporaryFilter, commands
    <2>4. d.handle = Nothing
      BY <1>1, <2>3 DEF Placed
    <2>5. \A h \in Handles \ refused' : filters'[h] # Nothing => Referenced(h)'
      BY <2>1, <2>2, <2>3, <2>4, QuarantineAssumption DEF SerialInv, AllReferenced, Referenced
    <2> HIDE DEF d, p
    <2> QED BY <1>3, <1>4, <2>2, <2>3, <2>5, WorkerGoesOn
  <1>7. ASSUME Prompt(w) PROVE SerialInv'
    <2>1. /\ worker'[w] = Idle /\ \A v \in Observers : v # w => worker'[v] = worker[v]
          /\ d.at = "prompt" /\ p \in Paths
          /\ UNCHANGED <<rules, filters, refused, appBlocks, ticker, ui, schedule>>
      BY <1>1, <1>7 DEF Prompt, Placed, commands, kernel
    <2>2. /\ pending'[p] = IF d.handle = Nothing THEN "unfiltered" ELSE d.handle
          /\ \A q \in Paths : q # p => pending'[q] = pending[q]
      BY <1>7, <2>1 DEF Prompt, TypeInv, TypeOK
    <2>3. pending[p] = Nothing
      BY <1>4, <2>1
    <2>4. \A h \in Handles \ refused' : filters'[h] # Nothing => Referenced(h)'
      BY <2>1, <2>2, <2>3, QuarantineAssumption DEF SerialInv, AllReferenced, Referenced
    <2>5. worker'[w].at = "idle"
      BY <2>1 DEF Idle
    <2> HIDE DEF d, p
    <2> QED BY <1>3, <1>4, <2>1, <2>2, <2>4, <2>5, WorkerGoesOn
  <1> QED BY <1>2, <1>5, <1>6, <1>7 DEF WorkerStep, InstallFilter, RecordBlock

\* Rules are weeded, or a timed one ends: what is left stands as it stood.
LEMMA RulesGo ==
  ASSUME SerialInv, UNCHANGED <<appBlocks, pending, kernel, worker, schedule>>,
         Remembered' \subseteq Remembered, Apart(programRules) => Apart(programRules'),
         Apart(sessionRules'),
         \A o \in Session' : \E s \in Session :
           s.path = o.path /\ s.decision = o.decision /\ s.target = o.target
  PROVE  /\ RulesApart' /\ RulesBlock' /\ PromptsUnblocked' /\ WorkersMeanIt' /\ AllReferenced'
         /\ \A r \in Remembered' : r.target = "any" /\ r.expires = "never"
         /\ \A r \in Session' : r.target = "any"
         /\ \A r \in Quarantines(Remembered \cup Session)' :
              \E s \in Quarantines(Remembered \cup Session) : s.path = r.path
         /\ ~ Deciding' => OneRuleEach'
  <1>1. \A r \in Quarantines(Remembered \cup Session)' :
          \E s \in Quarantines(Remembered \cup Session) : s.path = r.path
    BY DEF Quarantines
  <1>2. RulesApart'
    <2>1. \A r \in Quarantines(Remembered)' : r \in Quarantines(Remembered)
      BY DEF Quarantines
    <2> QED BY <2>1 DEF SerialInv, RulesApart
  <1>3. RulesBlock'
    <2>1. \A r \in Quarantines(Remembered \cup Session)' : appBlocks[<<r.path>>] # Nothing
      BY <1>1 DEF SerialInv, RulesBlock
    <2> QED BY <2>1 DEF RulesBlock
  <1>4. PromptsUnblocked' /\ WorkersMeanIt'
    BY DEF SerialInv, PromptsUnblocked, WorkersMeanIt
  <1>5. AllReferenced'
    BY DEF SerialInv, AllReferenced, Referenced, kernel
  <1>6. /\ \A r \in Remembered' : r.target = "any" /\ r.expires = "never"
        /\ \A r \in Session' : r.target = "any"
    BY DEF SerialInv, Modest
  <1>7. ~ Deciding' => OneRuleEach'
    BY DEF SerialInv, OneRuleEach, Asks
  <1> QED BY <1>1, <1>2, <1>3, <1>4, <1>5, <1>6, <1>7

\* What it means that all are idle.
LEMMA AllIdleMeans ==
  ASSUME AllIdle
  PROVE  /\ ui.at = "idle" /\ ticker.at = "idle" /\ ticker.expired = {}
         /\ \A w \in Observers : worker[w].at = "idle" /\ worker[w].handle = Nothing
         /\ ~ Deciding /\ ~ Removing
  BY DEF AllIdle, UiIdle, TickerIdle, Idle, Deciding, Removing

\* The answer to a prompt: its path has no block, so no rule quarantines it.
LEMMA DecideSerial ==
  ASSUME TypeInv, SerialInv, schedule.serial,
         NEW p \in Paths, NEW d \in Decisions, NEW s \in schedule.protocols,
         NEW c \in {"remember", "decide"}, NEW e \in {"never", "later"}, Decide(p, d, s, c, e)
  PROVE  SerialInv'
  <1> DEFINE r == RuleOf(p, d, s, "any", e)
  <1>1. AllIdle /\ pending[p] # Nothing
    BY DEF Decide, Command, MayStart
  <1>2. UNCHANGED <<programRules, sessionRules, appBlocks, worker, ticker, schedule>>
    BY DEF Decide, Command, rules
  <1>3. /\ r.path = p /\ r.target = "any" /\ r.expires = e /\ r.decision = d /\ r.proto = s
        /\ c = "remember" => e = "never"
    BY DEF RuleOf, Decide
  <1>4. /\ ui'.at \in {"quarantine", "session"} /\ ui'.cmd = c /\ ui'.path = p /\ ui'.rule = r
        /\ ui'.at = "quarantine" <=> d = "quarantine"
    BY DEF Decide, UiIdle
  <1> HIDE DEF r
  <1>5. Deciding' /\ ~ Removing'
    BY <1>4 DEF Deciding, Removing
  <1>6. /\ pending'[p] = Nothing /\ \A q \in Paths : q # p => pending'[q] = pending[q]
        /\ \A h \in Handles \ refused' :
             filters'[h] # Nothing => h \notin refused /\ filters[h] # Nothing /\ h # pending[p]
    <2>1. pending'[p] = Nothing /\ \A q \in Paths : q # p => pending'[q] = pending[q]
      BY DEF Decide, TypeInv, TypeOK
    <2>2. Deleted(filters, pending[p])
      BY DEF Decide
    <2>3. filters \in [Handles -> Filter \cup {Nothing}] /\ refused \subseteq Handles
      BY DEF TypeInv, TypeOK
    <2>4. /\ refused \subseteq refused'
          /\ \A h \in Handles : h # pending[p] => filters'[h] = filters[h]
          /\ pending[p] \in Handles => filters'[pending[p]] = Nothing \/ pending[p] \in refused'
      BY <2>2, <2>3, DeletedFacts
    <2> QED BY <2>1, <2>4
  <1>7. Remembered' = Remembered /\ Session' = Session
    BY <1>2 DEF Remembered, Session
  <1>8. appBlocks[<<p>>] = Nothing /\ \A o \in Quarantines(Remembered \cup Session) : o.path # p
    BY <1>1 DEF SerialInv, PromptsUnblocked, RulesBlock
  <1>9. OneAtWork'
    BY <1>1, <1>2, AllIdleMeans DEF OneAtWork
  <1>10. Modest'
    BY <1>1, <1>2, <1>3, <1>4, <1>5, <1>7, AllIdleMeans DEF SerialInv, Modest
  <1>11. RulesApart' /\ RulesBlock'
    BY <1>2, <1>7 DEF SerialInv, RulesApart, RulesBlock
  <1>12. PromptsUnblocked'
    BY <1>2, <1>6 DEF SerialInv, PromptsUnblocked
  <1>13. WorkersMeanIt'
    BY <1>1, <1>2, AllIdleMeans DEF WorkersMeanIt
  <1>14. CommandsMeanIt'
    BY <1>2, <1>3, <1>4, <1>5, <1>6, <1>7, <1>8 DEF CommandsMeanIt
  <1>15. TickerMeansIt'
    BY <1>1, <1>2, AllIdleMeans DEF TickerMeansIt
  <1>16. OneRuleEach'
    BY <1>1, <1>2, <1>3, <1>4, <1>6, <1>7, AllIdleMeans DEF SerialInv, OneRuleEach, Asks
  <1>17. AllReferenced'
    BY <1>2, <1>6 DEF SerialInv, AllReferenced, Referenced
  <1> QED BY <1>9, <1>10, <1>11, <1>12, <1>13, <1>14, <1>15, <1>16, <1>17 DEF SerialInv

\* The rules of an application go, or one rule: nothing is left of the path in
\* the map that was weeded, and nothing quarantines it from the other.
LEMMA RemovalSerial ==
  ASSUME TypeInv, SerialInv, AllIdle, NEW p \in Paths,
         UNCHANGED <<pending, appBlocks, kernel, worker, ticker, schedule>>,
         Remembered' \subseteq Remembered, Apart(programRules) => Apart(programRules'),
         Session' \subseteq Session, Apart(sessionRules'),
         \A r \in Remembered' : r.path # p,
         Removing', ui'.path = p,
         ui'.at \in {"session", "unblock"},
         ui'.at = "unblock" => \A r \in Session' : r.path # p
  PROVE  SerialInv'
  <1>1. ~ Deciding' /\ ui'.at \in {"session", "unblock"}
    BY DEF Deciding, Removing
  <1>2. /\ RulesApart' /\ RulesBlock' /\ PromptsUnblocked' /\ WorkersMeanIt' /\ AllReferenced'
        /\ \A r \in Remembered' : r.target = "any" /\ r.expires = "never"
        /\ \A r \in Session' : r.target = "any"
        /\ OneRuleEach'
    <2>1. \A o \in Session' : \E s \in Session :
            s.path = o.path /\ s.decision = o.decision /\ s.target = o.target
      OBVIOUS
    <2> QED BY <1>1, <2>1, RulesGo
  <1>3. OneAtWork'
    BY AllIdleMeans DEF OneAtWork
  <1>4. Modest'
    BY <1>1, <1>2, AllIdleMeans DEF Modest
  <1>5. CommandsMeanIt'
    BY <1>1 DEF CommandsMeanIt
  <1>6. TickerMeansIt'
    BY AllIdleMeans DEF TickerMeansIt
  <1> QED BY <1>2, <1>3, <1>4, <1>5, <1>6 DEF SerialInv

\* remove_program_rule starts with the remembered rules.
LEMMA RemoveAppSerial ==
  ASSUME TypeInv, SerialInv, schedule.serial, NEW p \in Paths, RemoveApp(p)
  PROVE  SerialInv'
  <1>1. AllIdle /\ UNCHANGED <<sessionRules, pending, appBlocks, kernel, worker, ticker, schedule>>
    BY DEF RemoveApp, Otherwise, Command, MayStart
  <1>2. programRules' = Without(programRules, {r \in Rule : r.path = p})
    BY DEF RemoveApp, WithoutPath
  <1>3. /\ Remembered' = Remembered \ {r \in Rule : r.path = p}
        /\ Apart(programRules) => Apart(programRules')
    BY <1>2, WeedingIn, RuleTypes DEF Remembered
  <1>4. \A r \in Remembered' : r.path # p
    BY <1>3, RuleTypes
  <1>5. Removing' /\ ui'.path = p /\ ui'.at = "session"
    BY DEF RemoveApp, UiIdle, Removing
  <1>6. Session' = Session /\ Apart(sessionRules')
    BY <1>1 DEF Session, SerialInv, RulesApart
  <1> QED BY <1>1, <1>3, <1>4, <1>5, <1>6, RemovalSerial

\* The rule removed is the only one of its path: every decision is about all
\* protocols.
LEMMA RemoveRuleSerial ==
  ASSUME TypeInv, SerialInv, schedule.serial, schedule.protocols \subseteq {"all"},
         NEW r \in Remembered \cup Session, RemoveRule(r)
  PROVE  SerialInv'
  <1>1. AllIdle /\ UNCHANGED <<pending, appBlocks, kernel, worker, ticker, schedule>>
    BY DEF RemoveRule, Otherwise, Command, MayStart
  <1>2. r \in Rule /\ r.path \in Paths /\ r.target = "any"
    BY RuleTypes DEF SerialInv, Modest
  <1>3. Removing' /\ ui'.path = r.path /\ ui'.at = "unblock"
    BY DEF RemoveRule, UiIdle, Removing
  <1>4. /\ Apart(programRules) /\ Apart(sessionRules)
        /\ \A o \in Remembered, s \in Session : o.path # s.path
        /\ \A o \in Remembered : o.proto = "all"
    BY DEF SerialInv, OneRuleEach, RulesApart
  <1>5. \A o, s \in Session : o.path = s.path => o = s
    BY <1>4 DEF Session, RulesIn, Apart
  <1>6. r \in SameKey(r)
    BY <1>2 DEF SameKey
  <1>7. CASE \E i \in DOMAIN programRules : programRules[i] \in SameKey(r)
    <2>1. programRules' = Without(programRules, SameKey(r)) /\ sessionRules' = sessionRules
      BY <1>7 DEF RemoveRule
    <2>2. Remembered' = Remembered \ SameKey(r) /\ Apart(programRules') /\ Session' = Session
          /\ Apart(sessionRules')
      BY <1>4, <2>1, WeedingIn, RuleTypes DEF Remembered, Session
    <2>3. PICK o \in Remembered : o \in SameKey(r)
      BY <1>7 DEF Remembered, RulesIn
    <2>4. o.path = r.path /\ o.proto = r.proto
      BY <2>3 DEF SameKey, StorageKey
    <2>5. \A s \in Session : s.path # r.path
      BY <1>4, <2>4
    <2>6. \A s \in Remembered' : s.path # r.path
      <3> SUFFICES ASSUME NEW s \in Remembered, s.path = r.path PROVE s \in SameKey(r)
        BY <2>2
      <3>1. s \in Rule /\ s.target = "any" /\ s.proto = r.proto
        BY <1>4, <2>4, RuleTypes DEF SerialInv, Modest
      <3> QED BY <1>2, <3>1 DEF SameKey, StorageKey
    <2> QED BY <1>1, <1>2, <1>3, <2>2, <2>5, <2>6, RemovalSerial
  <1>8. CASE ~ \E i \in DOMAIN programRules : programRules[i] \in SameKey(r)
    <2>1. sessionRules' = Without(sessionRules, SameKey(r)) /\ programRules' = programRules
      BY <1>8 DEF RemoveRule
    <2>2. Session' = Session \ SameKey(r) /\ Apart(programRules') /\ Remembered' = Remembered
          /\ Apart(sessionRules')
      BY <1>4, <2>1, WeedingIn, RuleTypes DEF Remembered, Session
    <2>3. r \in Session
      BY <1>6, <1>8 DEF Remembered, RulesIn
    <2>4. \A s \in Session' : s.path # r.path
      BY <1>5, <1>6, <2>2, <2>3
    <2>5. \A s \in Remembered' : s.path # r.path
      BY <1>4, <2>2, <2>3
    <2> QED BY <1>1, <1>2, <1>3, <2>2, <2>4, <2>5, RemovalSerial
  <1> QED BY <1>7, <1>8

\* The commands that may start keep the invariant.
LEMMA CommandSerial ==
  ASSUME TypeInv, SerialInv, schedule.serial, Undoing(schedule), StartCommand
  PROVE  SerialInv'
  <1>1. PICK p \in Paths :
    \/ \E d \in Decisions, s \in schedule.protocols, c \in {"remember", "decide"},
          e \in {"never", "later"} : Decide(p, d, s, c, e)
    \/ \E d \in Decisions : SetDecision(p, d) \/ \E t \in Targets : Upsert(p, d, t)
    \/ AllowForAWhile(p)
    \/ RemoveApp(p)
    \/ \E q \in {programRules, sessionRules} : \E i \in DOMAIN q : RemoveRule(q[i])
    \/ \E q \in {<<>>} \cup {<<RuleOf(p, d, "all", "any", "never")>> : d \in Decisions} :
          Import(q)
    BY Zenon DEF StartCommand
  <1>2. schedule.commands \subseteq {"decide", "remove", "removeRule"}
        /\ ("removeRule" \in schedule.commands => schedule.protocols \subseteq {"all"})
    BY DEF Undoing
  <1>3. ~ \E d \in Decisions : SetDecision(p, d) \/ \E t \in Targets : Upsert(p, d, t)
    BY <1>2 DEF SetDecision, Upsert, Otherwise, Command
  <1>4. ~ AllowForAWhile(p) /\ \A q : ~ Import(q)
    BY <1>2 DEF AllowForAWhile, Import, Otherwise, Command
  <1>5. ASSUME NEW q \in {programRules, sessionRules}, NEW i \in DOMAIN q, RemoveRule(q[i])
        PROVE  SerialInv'
    <2>1. q[i] \in Remembered \cup Session
      BY DEF Remembered, Session, RulesIn
    <2>2. schedule.protocols \subseteq {"all"}
      BY <1>2, <1>5 DEF RemoveRule, Otherwise, Command
    <2> QED BY <1>5, <2>1, <2>2, RemoveRuleSerial
  <1> QED BY <1>1, <1>3, <1>4, <1>5, DecideSerial, RemoveAppSerial

\* The UI thread goes on with a command, or ends it; nobody else is at work.
LEMMA UiBusy ==
  ASSUME TypeInv, SerialInv, ui.at # "idle"
  PROVE  /\ ticker.at = "idle" /\ ticker.expired = {}
         /\ \A w \in Observers : worker[w].at = "idle" /\ worker[w].handle = Nothing
         /\ Deciding \/ Removing
  <1>1. \A w \in Observers : worker[w].at = "idle"
    BY DEF SerialInv, OneAtWork
  <1>2. ticker.at = "idle"
    BY DEF SerialInv, OneAtWork
  <1> QED BY <1>1, <1>2 DEF SerialInv, Modest, TypeInv, WorkersOK, Placed

\* The lasting filter is on record at once.
LEMMA DecideQuarantineSerial ==
  ASSUME TypeInv, SerialInv, DecideQuarantine
  PROVE  SerialInv'
  <1> DEFINE p == ui.path
  <1>1. /\ ui.at = "quarantine" /\ p \in Paths /\ ui.rule \in Rule
        /\ UNCHANGED <<programRules, sessionRules, pending, refused, worker, ticker, schedule>>
    BY DEF DecideQuarantine, TypeInv, UiOK, rules, commands
  <1>2. Remembered' = Remembered /\ Session' = Session
    BY <1>1 DEF Remembered, Session
  <1>3. ui.cmd \in {"remember", "decide"}
    BY <1>1 DEF SerialInv, Modest, Deciding, Removing
  <1>4. \/ ui' = [ui EXCEPT !.at = "session"]
           /\ \E h \in Handles : /\ Free(h) /\ filters' = [filters EXCEPT ![h] = FilterFor(ui.rule)]
                                 /\ appBlocks' = [appBlocks EXCEPT ![<<p>>] = h]
        \/ ui' = UiIdle /\ UNCHANGED <<filters, appBlocks>>
    BY DEF DecideQuarantine
  <1>5. \/ ui'.at = "session" /\ ui'.cmd = ui.cmd /\ ui'.path = p /\ ui'.rule = ui.rule
        \/ ui'.at = "idle"
    <2>1. ui \in UiRecord
      BY DEF TypeInv, TypeOK, UiRecord
    <2> QED BY <1>4, <2>1 DEF UiIdle, UiRecord
  <1>6. \A k \in BlockKeys : appBlocks'[k] = appBlocks[k]
           \/ (k = <<p>> /\ appBlocks'[k] # Nothing /\ appBlocks[k] = Nothing)
    <2>1. appBlocks[<<p>>] = Nothing
      BY <1>1 DEF SerialInv, CommandsMeanIt
    <2> QED BY <1>4, <2>1, QuarantineAssumption DEF TypeInv, TypeOK
  <1>7. ui'.at = "session" => appBlocks'[<<p>>] # Nothing
    <2>1. <<p>> \in BlockKeys
      BY <1>1, RuleTypes
    <2> QED BY <1>4, <2>1, QuarantineAssumption DEF TypeInv, TypeOK, UiIdle
  <1>8. AllReferenced'
    <2>1. CASE UNCHANGED <<filters, appBlocks>>
      BY <1>1, <2>1 DEF SerialInv, AllReferenced, Referenced
    <2>2. ASSUME NEW h \in Handles, filters' = [filters EXCEPT ![h] = FilterFor(ui.rule)],
                 appBlocks' = [appBlocks EXCEPT ![<<p>>] = h]
          PROVE  AllReferenced'
      <3>1. <<p>> \in BlockKeys /\ appBlocks'[<<p>>] = h
        BY <1>1, <2>2, RuleTypes DEF TypeInv, TypeOK
      <3>2. \A g \in Handles : g # h => filters'[g] = filters[g]
        BY <2>2 DEF TypeInv, TypeOK
      <3>3. \A g \in Handles : g # h /\ Referenced(g) => Referenced(g)'
        BY <1>1, <1>6, QuarantineAssumption DEF Referenced
      <3>4. Referenced(h)'
        BY <3>1 DEF Referenced
      <3> QED BY <1>1, <3>2, <3>3, <3>4 DEF SerialInv, AllReferenced
    <2> QED BY <1>4, <2>1, <2>2
  <1> HIDE DEF p
  <1>9. Deciding /\ ~ Removing' /\ (Deciding' => ui'.at = "session")
    BY <1>1, <1>3, <1>5 DEF Deciding, Removing, p
  <1>10. OneAtWork'
    BY <1>1, UiBusy DEF OneAtWork
  <1>11. Modest'
    BY <1>1, <1>2, <1>5, <1>9, <1>3 DEF SerialInv, Modest, Deciding, p
  <1>12. RulesApart' /\ RulesBlock'
    <2>1. \A r \in Quarantines(Remembered \cup Session) : <<r.path>> \in BlockKeys
      BY RuleTypes DEF Quarantines
    <2> QED BY <1>1, <1>2, <1>6, <2>1 DEF SerialInv, RulesApart, RulesBlock
  <1>13. PromptsUnblocked'
    <2>1. pending[p] = Nothing
      BY <1>1 DEF SerialInv, CommandsMeanIt, p
    <2>2. \A q \in Paths : <<q>> \in BlockKeys /\ (<<q>> = <<p>> => q = p)
      BY RuleTypes
    <2> QED BY <1>1, <1>6, <2>1, <2>2 DEF SerialInv, PromptsUnblocked
  <1>14. WorkersMeanIt' /\ TickerMeansIt'
    BY <1>1, UiBusy DEF WorkersMeanIt, TickerMeansIt
  <1>15. CommandsMeanIt'
    BY <1>1, <1>2, <1>5, <1>7, <1>9 DEF SerialInv, CommandsMeanIt, p
  <1>16. OneRuleEach'
    BY <1>1, <1>2, <1>5, <1>9 DEF SerialInv, OneRuleEach, Asks, p
  <1> QED BY <1>8, <1>10, <1>11, <1>12, <1>13, <1>14, <1>15, <1>16 DEF SerialInv

\* The decision is stored in the session map, or the app's session rules make
\* way for the remembered one.
LEMMA StoreSessionSerial ==
  ASSUME TypeInv, SerialInv, StoreDecision
  PROVE  SerialInv'
  <1> DEFINE p == ui.path
             r == ui.rule
             same == {o \in Rule : SameApp(o.path, r.path)}
             rest == Without(sessionRules, same)
  <1>1. /\ ui.at = "session" /\ ui.cmd \notin {"remove", "import"}
        /\ p \in Paths /\ r \in Rule
        /\ UNCHANGED <<programRules, pending, appBlocks, kernel, worker, ticker, schedule>>
    BY DEF StoreDecision, StoreSession, TypeInv, UiOK, commands
  <1>2. Deciding /\ ui.cmd \in {"remember", "decide"}
    BY <1>1 DEF SerialInv, Modest, Deciding, Removing
  <1>3. \/ /\ sessionRules' = rest /\ ui' = [ui EXCEPT !.at = "program"] /\ ui.cmd = "remember"
        \/ /\ sessionRules' = Insert(rest, r) /\ ui' = UiIdle
    BY DEF StoreDecision, StoreSession, WithoutIdentity
  <1>4. ui \in UiRecord
    BY DEF TypeInv, TypeOK, UiRecord
  <1>5. /\ r.target = "any" /\ r.path = p /\ pending[p] = Nothing
        /\ \A o \in Quarantines(Remembered \cup Session) : o.path # p
        /\ r.decision = "quarantine" => appBlocks[<<p>>] # Nothing
        /\ schedule.protocols \subseteq {"all"} => \A o \in Remembered : o.path # p
    BY <1>1, <1>2 DEF SerialInv, Modest, CommandsMeanIt, OneRuleEach
  <1>6. /\ rest \in Seq(Rule) /\ RulesIn(rest) = Session \ same /\ Apart(rest)
    <2>1. Apart(sessionRules)
      BY DEF SerialInv, RulesApart
    <2> QED BY <2>1, WeedingIn, MapTypes, RuleTypes DEF Session
  <1>7. \A o \in RulesIn(rest) : o.path # p
    <2>1. \A o \in RulesIn(rest) : o \in Rule /\ o \notin same
      BY <1>6, RuleTypes
    <2> QED BY <1>1, <1>5, <2>1, RuleTypes
  <1>8. Remembered' = Remembered
    BY <1>1 DEF Remembered
  <1> HIDE DEF same, rest
  <1>9. CASE sessionRules' = rest /\ ui' = [ui EXCEPT !.at = "program"] /\ ui.cmd = "remember"
    <2>1. /\ ui'.at = "program" /\ ui'.cmd = "remember" /\ ui'.path = p /\ ui'.rule = r
      BY <1>4, <1>9 DEF UiRecord
    <2> HIDE DEF p, r
    <2>2. Session' = RulesIn(rest) /\ Session' \subseteq Session /\ Apart(sessionRules')
      BY <1>6, <1>9 DEF Session
    <2>3. Deciding' /\ ~ Removing'
      BY <2>1 DEF Deciding, Removing
    <2>4. /\ RulesApart' /\ RulesBlock' /\ PromptsUnblocked' /\ WorkersMeanIt' /\ AllReferenced'
          /\ \A o \in Remembered' : o.target = "any" /\ o.expires = "never"
          /\ \A o \in Session' : o.target = "any"
          /\ \A o \in Quarantines(Remembered \cup Session)' :
               \E s \in Quarantines(Remembered \cup Session) : s.path = o.path
      <3>1. Remembered' \subseteq Remembered /\ (Apart(programRules) => Apart(programRules'))
        BY <1>1, <1>8
      <3>2. \A o \in Session' : \E s \in Session :
              s.path = o.path /\ s.decision = o.decision /\ s.target = o.target
        BY <2>2
      <3> QED BY <1>1, <2>2, <3>1, <3>2, RulesGo
    <2>5. OneAtWork'
      BY <1>1, UiBusy DEF OneAtWork
    <2>6. r.expires = "never"
      BY <1>2, <1>9 DEF SerialInv, Modest, r
    <2>7. Modest'
      BY <1>1, <1>5, <2>1, <2>3, <2>4, <2>6, UiBusy DEF Modest
    <2>8. CommandsMeanIt'
      BY <1>1, <1>5, <1>7, <1>8, <2>1, <2>2, <2>3, <2>4 DEF CommandsMeanIt
    <2>9. TickerMeansIt'
      BY <1>1, UiBusy DEF TickerMeansIt
    <2>10. OneRuleEach'
      <3>1. schedule.protocols \subseteq {"all"} => r.proto = "all"
        BY <1>2 DEF SerialInv, OneRuleEach, r
      <3> QED BY <1>1, <1>5, <1>8, <2>1, <2>2, <3>1, UiBusy DEF SerialInv, OneRuleEach, Asks
    <2> QED BY <2>4, <2>5, <2>7, <2>8, <2>9, <2>10 DEF SerialInv
  <1>10. CASE sessionRules' = Insert(rest, r) /\ ui' = UiIdle
    <2>1. ui'.at = "idle" /\ ~ Deciding' /\ ~ Removing'
      BY <1>10 DEF UiIdle, Deciding, Removing
    <2>2. RulesIn(sessionRules') = RulesIn(rest) \cup {r} /\ Apart(sessionRules')
      BY <1>1, <1>5, <1>6, <1>7, <1>10, AppendingIn
    <2>3. Session' \subseteq Session \cup {r}
      BY <1>6, <2>2 DEF Session
    <2> HIDE DEF p, r
    <2>4. OneAtWork'
      BY <1>1, <2>1, UiBusy DEF OneAtWork
    <2>5. Modest'
      BY <1>1, <1>5, <1>8, <2>1, <2>3, UiBusy DEF SerialInv, Modest
    <2>6. RulesApart'
      <3>1. \A o \in Quarantines(Remembered) : o \in Quarantines(Remembered \cup Session)
        BY DEF Quarantines
      <3> QED BY <1>5, <1>8, <2>2, <2>3, <3>1 DEF SerialInv, RulesApart
    <2>7. RulesBlock'
      <3>1. \A o \in Quarantines(Remembered \cup Session)' :
              o \in Quarantines(Remembered \cup Session) \/ (o = r /\ r.decision = "quarantine")
        BY <1>8, <2>3 DEF Quarantines
      <3> QED BY <1>1, <1>5, <3>1 DEF SerialInv, RulesBlock
    <2>8. PromptsUnblocked' /\ WorkersMeanIt' /\ AllReferenced'
      BY <1>1 DEF SerialInv, PromptsUnblocked, WorkersMeanIt, AllReferenced, Referenced,
            kernel
    <2>9. CommandsMeanIt'
      BY <2>1 DEF CommandsMeanIt
    <2>10. TickerMeansIt'
      BY <1>1, UiBusy DEF TickerMeansIt
    <2>11. OneRuleEach'
      BY <1>1, <1>5, <1>8, <2>1, <2>3, UiBusy DEF SerialInv, OneRuleEach, Asks
    <2> QED BY <2>4, <2>5, <2>6, <2>7, <2>8, <2>9, <2>10, <2>11 DEF SerialInv
  <1> QED BY <1>3, <1>9, <1>10

\* The remembered decision takes the place of the app's rules.
LEMMA StoreProgramSerial ==
  ASSUME TypeInv, SerialInv, StoreProgram
  PROVE  SerialInv'
  <1> DEFINE p == ui.path
             r == ui.rule
             same == {o \in Rule : SameApp(o.path, r.path)}
             rest == Without(programRules, same)
  <1>1. /\ ui.at = "program" /\ p \in Paths /\ r \in Rule
        /\ UNCHANGED <<sessionRules, pending, appBlocks, kernel, worker, ticker, schedule>>
        /\ ui'.at = "idle"
    BY DEF StoreProgram, TypeInv, UiOK, commands, UiIdle
  <1>2. ui.cmd = "remember" /\ Deciding /\ ~ Deciding' /\ ~ Removing'
    BY <1>1 DEF SerialInv, CommandsMeanIt, Deciding, Removing
  <1>3. programRules' = Insert(rest, r)
    BY <1>2 DEF StoreProgram, WithoutIdentity
  <1>4. /\ r.target = "any" /\ r.expires = "never" /\ r.path = p /\ pending[p] = Nothing
        /\ \A o \in Quarantines(Remembered \cup Session) : o.path # p
        /\ \A o \in Session : o.path # p
        /\ r.decision = "quarantine" => appBlocks[<<p>>] # Nothing
        /\ schedule.protocols \subseteq {"all"} => r.proto = "all" /\ \A o \in Remembered : o.path # p
    BY <1>1, <1>2 DEF SerialInv, Modest, CommandsMeanIt, OneRuleEach
  <1>5. /\ rest \in Seq(Rule) /\ RulesIn(rest) = Remembered \ same
        /\ Apart(programRules) => Apart(rest)
    BY WeedingIn, MapTypes, RuleTypes DEF Remembered
  <1>6. \A o \in RulesIn(rest) : o.path # r.path
    BY <1>1, <1>4, <1>5, RuleTypes
  <1>7. RulesIn(programRules') = RulesIn(rest) \cup {r} /\ (Apart(rest) => Apart(programRules'))
    BY <1>1, <1>3, <1>5, <1>6, AppendingIn
  <1>8. Session' = Session /\ Remembered' \subseteq Remembered \cup {r}
    BY <1>1, <1>5, <1>7 DEF Session, Remembered
  <1> HIDE DEF p, r, same, rest
  <1>9. OneAtWork'
    BY <1>1, UiBusy DEF OneAtWork
  <1>10. Modest'
    BY <1>1, <1>2, <1>4, <1>8, UiBusy DEF SerialInv, Modest
  <1>11. RulesApart'
    BY <1>1, <1>4, <1>8 DEF SerialInv, RulesApart, Quarantines
  <1>12. RulesBlock'
    <2>1. \A o \in Quarantines(Remembered \cup Session)' :
            o \in Quarantines(Remembered \cup Session) \/ (o = r /\ r.decision = "quarantine")
      BY <1>8 DEF Quarantines
    <2> QED BY <1>1, <1>4, <2>1 DEF SerialInv, RulesBlock
  <1>13. PromptsUnblocked' /\ WorkersMeanIt' /\ AllReferenced'
    BY <1>1 DEF SerialInv, PromptsUnblocked, WorkersMeanIt, AllReferenced, Referenced,
            kernel
  <1>14. CommandsMeanIt'
    BY <1>1, <1>2 DEF CommandsMeanIt
  <1>15. TickerMeansIt'
    BY <1>1, UiBusy DEF TickerMeansIt
  <1>16. OneRuleEach'
    BY <1>1, <1>2, <1>4, <1>5, <1>7, <1>8, UiBusy DEF SerialInv, OneRuleEach, Asks
  <1> QED BY <1>9, <1>10, <1>11, <1>12, <1>13, <1>14, <1>15, <1>16 DEF SerialInv

\* remove_program_rule goes on with the session rules.
LEMMA RemoveAppSessionSerial ==
  ASSUME TypeInv, SerialInv, RemoveAppSession
  PROVE  SerialInv'
  <1> DEFINE p == ui.path
             own == {o \in Rule : o.path = p}
  <1>1. /\ ui.at = "session" /\ ui.cmd = "remove" /\ p \in Paths
        /\ UNCHANGED <<programRules, pending, appBlocks, kernel, worker, ticker, schedule>>
        /\ sessionRules' = Without(sessionRules, own)
        /\ ui' = [ui EXCEPT !.at = "unblock"]
    BY DEF RemoveAppSession, TypeInv, UiOK, WithoutPath, commands
  <1>2. ui'.at = "unblock" /\ ui'.cmd = "remove" /\ ui'.path = p
    BY <1>1 DEF TypeInv, TypeOK
  <1>3. Removing /\ Removing' /\ ~ Deciding'
    BY <1>1, <1>2 DEF Removing, Deciding
  <1>4. Session' = Session \ own /\ Apart(sessionRules')
    <2>1. Apart(sessionRules)
      BY DEF SerialInv, RulesApart
    <2> QED BY <1>1, <2>1, WeedingIn, RuleTypes DEF Session
  <1>5. \A o \in Session' : o.path # p
    BY <1>4, RuleTypes
  <1>6. Remembered' = Remembered
    BY <1>1 DEF Remembered
  <1> HIDE DEF p, own
  <1>7. /\ RulesApart' /\ RulesBlock' /\ PromptsUnblocked' /\ WorkersMeanIt' /\ AllReferenced'
        /\ \A o \in Remembered' : o.target = "any" /\ o.expires = "never"
        /\ \A o \in Session' : o.target = "any"
        /\ OneRuleEach'
    <2>1. Remembered' \subseteq Remembered /\ (Apart(programRules) => Apart(programRules'))
      BY <1>1, <1>6
    <2>2. \A o \in Session' : \E s \in Session :
            s.path = o.path /\ s.decision = o.decision /\ s.target = o.target
      BY <1>4
    <2> QED BY <1>1, <1>3, <1>4, <2>1, <2>2, RulesGo
  <1>8. OneAtWork'
    BY <1>1, UiBusy DEF OneAtWork
  <1>9. Modest'
    BY <1>1, <1>2, <1>3, <1>7, UiBusy DEF Modest
  <1>10. CommandsMeanIt'
    BY <1>1, <1>2, <1>3, <1>5, <1>6 DEF SerialInv, CommandsMeanIt, p
  <1>11. TickerMeansIt'
    BY <1>1, UiBusy DEF TickerMeansIt
  <1> QED BY <1>7, <1>8, <1>9, <1>10, <1>11 DEF SerialInv

\* The blocks of a path are looked up when no rule quarantines it.
LEMMA FindBlocksSerial ==
  ASSUME TypeInv, SerialInv, FindBlocks
  PROVE  SerialInv'
  <1> DEFINE keys == {k \in BlockKeys : k[1] = ui.path /\ appBlocks[k] # Nothing}
  <1>1. /\ ui.at = "unblock"
        /\ UNCHANGED <<programRules, sessionRules, pending, appBlocks, filters, refused, worker,
                       ticker, schedule>>
        /\ ui' = [ui EXCEPT !.at = "free", !.keys = keys]
    BY DEF FindBlocks, rules, kernel, commands
  <1>2. ui'.at = "free" /\ ui'.cmd = ui.cmd /\ ui'.path = ui.path /\ ui'.keys = keys
    BY <1>1 DEF TypeInv, TypeOK
  <1>3. \A k \in ui'.keys : k[1] = ui'.path
    BY <1>2
  <1> HIDE DEF keys
  <1>4. ~ Deciding /\ ~ Deciding' /\ Removing /\ Removing'
    BY <1>1, <1>2, UiBusy DEF Removing, Deciding
  <1>5. Remembered' = Remembered /\ Session' = Session
    BY <1>1 DEF Remembered, Session
  <1>6. OneAtWork' /\ RulesApart' /\ RulesBlock' /\ PromptsUnblocked' /\ AllReferenced'
    BY <1>1, <1>5, UiBusy DEF SerialInv, OneAtWork, RulesApart, RulesBlock, PromptsUnblocked,
         AllReferenced, Referenced
  <1>7. Modest'
    BY <1>1, <1>2, <1>4, <1>5, UiBusy DEF SerialInv, Modest
  <1>8. WorkersMeanIt' /\ TickerMeansIt'
    BY <1>1, UiBusy DEF WorkersMeanIt, TickerMeansIt
  <1>9. CommandsMeanIt'
    BY <1>1, <1>2, <1>3, <1>4, <1>5 DEF SerialInv, CommandsMeanIt
  <1>10. OneRuleEach'
    BY <1>1, <1>4, <1>5 DEF SerialInv, OneRuleEach, Asks
  <1> QED BY <1>6, <1>7, <1>8, <1>9, <1>10 DEF SerialInv

\* They go, one by one.
LEMMA FreeBlockSerial ==
  ASSUME TypeInv, SerialInv, FreeBlock
  PROVE  SerialInv'
  <1>1. /\ ui.at = "free" /\ ui.path \in Paths
        /\ UNCHANGED <<programRules, sessionRules, pending, worker, ticker, schedule>>
    BY DEF FreeBlock, TypeInv, UiOK, rules, commands
  <1>2. ~ Deciding /\ Removing
    BY <1>1, UiBusy DEF Removing, Deciding
  <1>3. \/ /\ ui' = UiIdle /\ UNCHANGED <<kernel, appBlocks>>
        \/ \E k \in ui.keys : /\ appBlocks' = [appBlocks EXCEPT ![k] = Nothing]
                              /\ Deleted(filters, appBlocks[k])
                              /\ ui' = [ui EXCEPT !.keys = @ \ {k}]
    BY <1>2 DEF FreeBlock, Removing
  <1>4. \/ ui'.at = "idle"
        \/ ui'.at = "free" /\ ui'.cmd = ui.cmd /\ ui'.path = ui.path /\ ui'.keys \subseteq ui.keys
    <2>1. ui \in UiRecord
      BY DEF TypeInv, TypeOK, UiRecord
    <2> QED BY <1>1, <1>3, <2>1 DEF UiRecord, UiIdle
  <1>5. ~ Deciding' /\ (ui'.at = "free" => Removing')
    BY <1>2, <1>4 DEF Deciding, Removing
  <1>6. Remembered' = Remembered /\ Session' = Session
    BY <1>1 DEF Remembered, Session
  <1>7. /\ \A r \in Remembered \cup Session : r.path # ui.path
        /\ \A k \in ui.keys : k \in BlockKeys /\ k[1] = ui.path
    BY <1>1, <1>2 DEF SerialInv, CommandsMeanIt, TypeInv, TypeOK
  <1>8. PICK freed : /\ freed \subseteq ui.keys
                     /\ \A k \in BlockKeys : appBlocks'[k] = IF k \in freed THEN Nothing ELSE appBlocks[k]
                     /\ \A h \in Handles \ refused' : filters'[h] # Nothing =>
                          /\ h \notin refused /\ filters[h] # Nothing
                          /\ \A k \in freed : h # appBlocks[k]
    <2>1. CASE ui' = UiIdle /\ UNCHANGED <<kernel, appBlocks>>
      <3> DEFINE freed == {}
      <3>1. /\ freed \subseteq ui.keys
            /\ \A k \in BlockKeys : appBlocks'[k] = IF k \in freed THEN Nothing ELSE appBlocks[k]
            /\ \A h \in Handles \ refused' : filters'[h] # Nothing =>
                 /\ h \notin refused /\ filters[h] # Nothing
                 /\ \A k \in freed : h # appBlocks[k]
        BY <2>1 DEF kernel
      <3> HIDE DEF freed
      <3> QED BY <3>1
    <2>2. ASSUME NEW k \in ui.keys, appBlocks' = [appBlocks EXCEPT ![k] = Nothing],
                 Deleted(filters, appBlocks[k])
          PROVE  \E freed : /\ freed \subseteq ui.keys
                            /\ \A l \in BlockKeys :
                                 appBlocks'[l] = IF l \in freed THEN Nothing ELSE appBlocks[l]
                            /\ \A h \in Handles \ refused' : filters'[h] # Nothing =>
                                 /\ h \notin refused /\ filters[h] # Nothing
                                 /\ \A l \in freed : h # appBlocks[l]
      <3> DEFINE freed == {k}
      <3>1. /\ freed \subseteq ui.keys
            /\ \A l \in BlockKeys : appBlocks'[l] = IF l \in freed THEN Nothing ELSE appBlocks[l]
            /\ \A h \in Handles \ refused' : filters'[h] # Nothing =>
                 /\ h \notin refused /\ filters[h] # Nothing
                 /\ \A l \in freed : h # appBlocks[l]
        BY <2>2, DeletedFacts DEF TypeInv, TypeOK
      <3> HIDE DEF freed
      <3> QED BY <3>1
    <2> QED BY <1>3, <2>1, <2>2
  <1>9. AllReferenced'
    <2> SUFFICES ASSUME NEW h \in Handles \ refused', filters'[h] # Nothing PROVE Referenced(h)'
      BY DEF AllReferenced
    <2>1. Referenced(h) /\ \A k \in freed : h # appBlocks[k]
      BY <1>8 DEF SerialInv, AllReferenced
    <2>2. \A k \in BlockKeys : appBlocks[k] = h => appBlocks'[k] = h
      BY <1>8, <2>1
    <2> QED BY <1>1, <2>1, <2>2 DEF Referenced
  <1>10. \A q \in Paths : <<q>> \in BlockKeys /\ <<q>>[1] = q
    BY RuleTypes
  <1>11. RulesBlock'
    <2>1. \A r \in Quarantines(Remembered \cup Session) :
            r.path \in Paths /\ <<r.path>> \notin freed
      BY <1>7, <1>8, <1>10, RuleTypes DEF Quarantines
    <2> QED BY <1>6, <1>8, <1>10, <2>1 DEF SerialInv, RulesBlock
  <1>12. PromptsUnblocked'
    BY <1>1, <1>8, <1>10 DEF SerialInv, PromptsUnblocked
  <1>13. OneAtWork' /\ RulesApart'
    BY <1>1, <1>6, UiBusy DEF SerialInv, OneAtWork, RulesApart
  <1>14. Modest'
    BY <1>1, <1>4, <1>5, <1>6, UiBusy DEF SerialInv, Modest
  <1>15. WorkersMeanIt' /\ TickerMeansIt'
    BY <1>1, UiBusy DEF WorkersMeanIt, TickerMeansIt
  <1>16. CommandsMeanIt'
    BY <1>4, <1>5, <1>6, <1>7 DEF CommandsMeanIt, Removing
  <1>17. OneRuleEach'
    BY <1>1, <1>5, <1>6 DEF SerialInv, OneRuleEach, Asks
  <1> QED BY <1>9, <1>11, <1>12, <1>13, <1>14, <1>15, <1>16, <1>17 DEF SerialInv

\* The commands keep the invariant as they go on.
LEMMA UiSerial ==
  ASSUME TypeInv, SerialInv, UiStep
  PROVE  SerialInv'
  <1>1. ~ Enforce /\ ~ ImportSession /\ ~ ImportPrompts
    BY DEF Enforce, ImportSession, ImportPrompts, SerialInv, Modest, Deciding, Removing
  <1> QED BY <1>1, DecideQuarantineSerial, StoreSessionSerial, StoreProgramSerial,
             RemoveAppSessionSerial, FindBlocksSerial, FreeBlockSerial DEF UiStep

\* Only the session has timed rules, and a path has one rule there: when it is
\* due no other quarantines the path.
LEMMA TickerSerial ==
  ASSUME TypeInv, SerialInv, schedule.serial, TickerStep
  PROVE  SerialInv'
  <1>1. ASSUME PruneProgram PROVE SerialInv'
    <2> DEFINE due == {r \in Rule : r.expires = "due"}
    <2>1. AllIdle
          /\ UNCHANGED <<sessionRules, pending, appBlocks, kernel, worker, ui, schedule>>
          /\ programRules' = Without(programRules, due)
          /\ ticker' = [at |-> "session", expired |-> Due(programRules, FALSE)]
      BY <1>1 DEF PruneProgram, MayStart, NotDue, commands
    <2>2. \A i \in DOMAIN programRules : programRules[i].expires = "never"
      BY DEF SerialInv, Modest, Remembered, RulesIn
    <2>3. Due(programRules, FALSE) = {}
      BY <2>2 DEF Due
    <2>4. ticker'.at = "session" /\ ticker'.expired = {}
      BY <2>1, <2>3
    <2>5. Remembered' \subseteq Remembered /\ (Apart(programRules) => Apart(programRules'))
      BY <2>1, WeedingIn, RuleTypes DEF Remembered
    <2>6. Session' = Session /\ Apart(sessionRules')
      BY <2>1 DEF Session, SerialInv, RulesApart
    <2> HIDE DEF due
    <2>7. ~ Deciding' /\ ~ Removing' /\ ui'.at = "idle"
      BY <2>1, AllIdleMeans DEF Deciding, Removing
    <2>8. /\ RulesApart' /\ RulesBlock' /\ PromptsUnblocked' /\ WorkersMeanIt' /\ AllReferenced'
          /\ \A o \in Remembered' : o.target = "any" /\ o.expires = "never"
          /\ \A o \in Session' : o.target = "any"
          /\ OneRuleEach'
      <3>1. \A o \in Session' : \E s \in Session :
              s.path = o.path /\ s.decision = o.decision /\ s.target = o.target
        BY <2>6
      <3> QED BY <2>1, <2>5, <2>6, <2>7, <3>1, RulesGo
    <2>9. OneAtWork'
      BY <2>1, <2>7, AllIdleMeans DEF OneAtWork
    <2>10. Modest' /\ CommandsMeanIt' /\ TickerMeansIt'
      BY <2>4, <2>7, <2>8 DEF Modest, CommandsMeanIt, TickerMeansIt
    <2> QED BY <2>8, <2>9, <2>10 DEF SerialInv
  <1>2. ASSUME PruneSession PROVE SerialInv'
    <2> DEFINE due == {r \in Rule : r.expires = "due"}
    <2>1. /\ ticker.at = "session"
          /\ UNCHANGED <<programRules, pending, appBlocks, kernel, worker, ui, schedule>>
          /\ sessionRules' = Without(sessionRules, due)
          /\ ticker'.at = "unblock"
          /\ ticker'.expired = ticker.expired \cup Due(sessionRules, TRUE)
      BY <1>2 DEF PruneSession, NotDue, commands
    <2>2. Apart(sessionRules)
      BY DEF SerialInv, RulesApart
    <2>3. Session' = Session \ due /\ Apart(sessionRules')
      BY <2>1, <2>2, WeedingIn, RuleTypes DEF Session
    <2>4. \A e \in ticker'.expired : e[1] \in Session /\ e[1] \in due
      <3>1. ticker.expired = {}
        BY <2>1 DEF SerialInv, Modest
      <3>2. \A e \in Due(sessionRules, TRUE) : e[1] \in Session /\ e[1].expires = "due"
        <4>1. ASSUME NEW i \in DOMAIN sessionRules, sessionRules[i].expires = "due", NEW e,
                     e = <<sessionRules[i], TRUE>>
              PROVE  e[1] \in Session /\ e[1].expires = "due"
          BY <4>1 DEF Session, RulesIn
        <4> QED BY <4>1 DEF Due
      <3> QED BY <2>1, <3>1, <3>2, RuleTypes
    <2>5. \A o, s \in Session : o.path = s.path => o = s
      BY <2>2 DEF Session, RulesIn, Apart
    <2>6. Remembered' = Remembered
      BY <2>1 DEF Remembered
    <2> HIDE DEF due
    <2>7. ~ Deciding' /\ ~ Removing' /\ ui'.at = "idle" /\ \A w \in Observers : worker[w].at = "idle"
      BY <2>1 DEF SerialInv, OneAtWork, Deciding, Removing
    <2>8. /\ RulesApart' /\ RulesBlock' /\ PromptsUnblocked' /\ WorkersMeanIt' /\ AllReferenced'
          /\ \A o \in Remembered' : o.target = "any" /\ o.expires = "never"
          /\ \A o \in Session' : o.target = "any"
          /\ OneRuleEach'
      <3>1. \A o \in Session' : \E s \in Session :
              s.path = o.path /\ s.decision = o.decision /\ s.target = o.target
        BY <2>3
      <3>2. Remembered' \subseteq Remembered /\ (Apart(programRules) => Apart(programRules'))
        BY <2>1, <2>6
      <3> QED BY <2>1, <2>3, <2>7, <3>1, <3>2, RulesGo
    <2>9. OneAtWork'
      BY <2>1, <2>7 DEF OneAtWork
    <2>10. Modest'
      BY <2>1, <2>4, <2>7, <2>8 DEF Modest, SerialInv
    <2>11. CommandsMeanIt'
      BY <2>7 DEF CommandsMeanIt
    <2>12. TickerMeansIt'
      <3> SUFFICES ASSUME NEW e \in ticker'.expired, NEW r \in Quarantines(Remembered \cup Session)',
                          r.path = e[1].path
                   PROVE  FALSE
        BY DEF TickerMeansIt
      <3>1. e[1] \in Session /\ e[1] \notin Session'
        BY <2>3, <2>4
      <3>2. r \notin Session'
        BY <2>3, <2>5, <3>1
      <3>3. r \in Quarantines(Remembered)
        BY <2>6, <3>2 DEF Quarantines
      <3> QED BY <3>1, <3>3 DEF SerialInv, RulesApart
    <2> QED BY <2>8, <2>9, <2>10, <2>11, <2>12 DEF SerialInv
  <1>3. ASSUME PruneBlock PROVE SerialInv'
    <2>1. /\ ticker.at = "unblock"
          /\ UNCHANGED <<programRules, sessionRules, pending, worker, ui, schedule>>
      BY <1>3 DEF PruneBlock, rules, commands
    <2>2. Remembered' = Remembered /\ Session' = Session
      BY <2>1 DEF Remembered, Session
    <2>3. ~ Deciding' /\ ~ Removing' /\ ui'.at = "idle" /\ \A w \in Observers : worker[w].at = "idle"
      BY <2>1 DEF SerialInv, OneAtWork, Deciding, Removing
    <2>4. ticker \in [at : {"idle", "session", "unblock"}, expired : SUBSET (Rule \X BOOLEAN)]
      BY DEF TypeInv, TypeOK
    <2>5. OneAtWork' /\ RulesApart' /\ CommandsMeanIt' /\ OneRuleEach'
      BY <2>1, <2>2, <2>3 DEF SerialInv, OneAtWork, RulesApart, CommandsMeanIt, OneRuleEach, Asks
    <2>6. WorkersMeanIt'
      BY <2>1, <2>3 DEF WorkersMeanIt
    <2>7. CASE ticker' = TickerIdle /\ UNCHANGED <<appBlocks, kernel>>
      <3>1. ticker'.at = "idle" /\ ticker'.expired = {}
        BY <2>7 DEF TickerIdle
      <3>2. Modest' /\ TickerMeansIt'
        BY <2>2, <2>3, <3>1 DEF SerialInv, Modest, TickerMeansIt
      <3>3. RulesBlock' /\ PromptsUnblocked' /\ AllReferenced'
        BY <2>1, <2>2, <2>7 DEF SerialInv, RulesBlock, PromptsUnblocked, AllReferenced, Referenced,
             kernel
      <3> QED BY <2>5, <2>6, <3>2, <3>3 DEF SerialInv
    <2>8. ASSUME NEW e \in ticker.expired,
                 appBlocks' = [appBlocks EXCEPT ![BlockKey(e[1])] = Nothing],
                 Deleted(filters, appBlocks[BlockKey(e[1])]),
                 ticker' = [ticker EXCEPT !.expired = @ \ {e}]
          PROVE  SerialInv'
      <3> DEFINE k == BlockKey(e[1])
      <3>1. ticker'.at = "unblock" /\ ticker'.expired \subseteq ticker.expired
        BY <2>1, <2>4, <2>8
      <3>2. k = <<e[1].path>> /\ k \in BlockKeys
        <4>1. e[1] \in Rule
          BY <2>4
        <4>2. e[1].target = "any"
          BY DEF SerialInv, Modest
        <4> QED BY <4>1, <4>2, RuleTypes
      <3>3. \A l \in BlockKeys : appBlocks'[l] = IF l = k THEN Nothing ELSE appBlocks[l]
        BY <2>8 DEF TypeInv, TypeOK
      <3>4. \A h \in Handles \ refused' :
              filters'[h] # Nothing => h \notin refused /\ filters[h] # Nothing /\ h # appBlocks[k]
        BY <2>8, DeletedFacts DEF TypeInv, TypeOK
      <3> HIDE DEF k
      <3>5. Modest' /\ TickerMeansIt'
        BY <2>2, <2>3, <3>1 DEF SerialInv, Modest, TickerMeansIt
      <3>6. RulesBlock'
        <4>1. \A r \in Quarantines(Remembered \cup Session) : <<r.path>> # k /\ <<r.path>> \in BlockKeys
          BY <3>2, RuleTypes DEF SerialInv, TickerMeansIt, Quarantines
        <4> QED BY <2>2, <3>3, <4>1 DEF SerialInv, RulesBlock
      <3>7. PromptsUnblocked'
        BY <2>1, <3>3, RuleTypes DEF SerialInv, PromptsUnblocked
      <3>8. AllReferenced'
        <4> SUFFICES ASSUME NEW h \in Handles \ refused', filters'[h] # Nothing PROVE Referenced(h)'
          BY DEF AllReferenced
        <4>1. Referenced(h) /\ h # appBlocks[k]
          BY <3>4 DEF SerialInv, AllReferenced
        <4> QED BY <2>1, <3>3, <4>1 DEF Referenced
      <3> QED BY <2>5, <2>6, <3>5, <3>6, <3>7, <3>8 DEF SerialInv
    <2> QED BY <1>3, <2>7, <2>8 DEF PruneBlock
  <1> QED BY <1>1, <1>2, <1>3 DEF TickerStep

\* The end of a timed session rule.
LEMMA ExpireSerial ==
  ASSUME TypeInv, SerialInv, Expire
  PROVE  SerialInv'
  <1>1. UNCHANGED <<pending, appBlocks, kernel, worker, ticker, ui, schedule>> /\ ticker.at # "session"
    BY DEF Expire, commands
  <1>2. \A j \in DOMAIN programRules : programRules[j].expires = "never"
    BY DEF SerialInv, Modest, Remembered, RulesIn
  <1>3. PICK i \in DOMAIN sessionRules :
          /\ sessionRules' = [sessionRules EXCEPT ![i].expires = "due"]
          /\ UNCHANGED programRules
    BY <1>2 DEF Expire
  <1> DEFINE r == [sessionRules[i] EXCEPT !.expires = "due"]
  <1>4. /\ Apart(sessionRules')
        /\ Session' \subseteq Session \cup {r}
        /\ r.path = sessionRules[i].path /\ r.decision = sessionRules[i].decision
        /\ r.target = sessionRules[i].target /\ sessionRules[i] \in Session
    <2>1. sessionRules \in Seq(Rule) /\ Apart(sessionRules)
      BY RuleTypes DEF SerialInv, RulesApart
    <2> DEFINE s == [sessionRules EXCEPT ![i].expires = "due"]
    <2>2. /\ Apart(s) /\ RulesIn(s) \subseteq RulesIn(sessionRules) \cup {r}
          /\ r.path = sessionRules[i].path /\ r.decision = sessionRules[i].decision
          /\ r.target = sessionRules[i].target
      BY <2>1, ExpiringIn
    <2>3. sessionRules' = s
      BY <1>3
    <2> HIDE DEF s, r
    <2> QED BY <2>2, <2>3 DEF Session, RulesIn
  <1> HIDE DEF r
  <1>5. \A o \in Session' : \E s \in Session :
          s.path = o.path /\ s.decision = o.decision /\ s.target = o.target
    BY <1>4
  <1>6. Remembered' = Remembered
    BY <1>3 DEF Remembered
  <1>7. /\ RulesApart' /\ RulesBlock' /\ PromptsUnblocked' /\ WorkersMeanIt' /\ AllReferenced'
        /\ \A o \in Remembered' : o.target = "any" /\ o.expires = "never"
        /\ \A o \in Session' : o.target = "any"
        /\ \A o \in Quarantines(Remembered \cup Session)' :
             \E s \in Quarantines(Remembered \cup Session) : s.path = o.path
    <2>1. Remembered' \subseteq Remembered /\ (Apart(programRules) => Apart(programRules'))
      BY <1>3, <1>6
    <2> QED BY <1>1, <1>4, <1>5, <2>1, RulesGo
  <1>8. (Deciding' <=> Deciding) /\ (Removing' <=> Removing)
    BY <1>1 DEF Deciding, Removing
  <1>9. OneAtWork'
    BY <1>1 DEF SerialInv, OneAtWork
  <1>10. Modest'
    BY <1>1, <1>7, <1>8 DEF SerialInv, Modest
  <1>11. CommandsMeanIt'
    <2>1. \A p : (\A o \in Session : o.path # p) => \A o \in Session' : o.path # p
      BY <1>5
    <2>2. \A p : (\A o \in Quarantines(Remembered \cup Session) : o.path # p)
                   => \A o \in Quarantines(Remembered \cup Session)' : o.path # p
      BY <1>7
    <2>3. CommandsMeanIt
      BY DEF SerialInv
    <2> QED BY <1>1, <1>6, <1>8, <2>1, <2>2, <2>3 DEF CommandsMeanIt
  <1>12. TickerMeansIt'
    <2>1. \A e \in ticker.expired, o \in Quarantines(Remembered \cup Session)' : o.path # e[1].path
      BY <1>7 DEF SerialInv, TickerMeansIt
    <2> QED BY <1>1, <2>1 DEF TickerMeansIt
  <1>13. OneRuleEach'
    BY <1>1, <1>3, <1>5, <1>6, <1>8 DEF SerialInv, OneRuleEach, Asks
  <1> QED BY <1>7, <1>9, <1>10, <1>11, <1>12, <1>13 DEF SerialInv

\* The schedule is chosen once, and no answer is forgotten.
LEMMA ScheduleStays ==
  ASSUME [Next]_vars
  PROVE  schedule' = schedule /\ answered \subseteq answered'
  <1>1. CASE \E w \in Observers : SomeObservation(w) \/ WorkerStep(w)
    BY <1>1 DEF SomeObservation, Observe, WorkerStep, CheckBlock, InstallFilter, RecordBlock,
         CheckPending, CheckBlocked, TemporaryFilter, Prompt, commands
  <1>2. CASE StartCommand
    BY <1>2 DEF StartCommand, Decide, SetDecision, Upsert, AllowForAWhile, RemoveApp, RemoveRule,
         Import, Otherwise, Command
  <1>3. CASE UiStep
    BY <1>3 DEF UiStep, DecideQuarantine, Enforce, StoreDecision, StoreSession, StoreProgram,
         RemoveAppSession, FindBlocks, FreeBlock, ImportSession, ImportPrompts, commands
  <1>4. CASE TickerStep \/ Expire
    BY <1>4 DEF TickerStep, PruneProgram, PruneSession, PruneBlock, Expire, commands
  <1>5. CASE UNCHANGED vars
    BY <1>5 DEF vars
  <1> QED BY <1>1, <1>2, <1>3, <1>4, <1>5 DEF Next

\* Every step keeps SerialInv.
LEMMA StepSerial ==
  ASSUME TypeInv, SerialInv, schedule.serial, Undoing(schedule), [Next]_vars
  PROVE  SerialInv'
  <1>1. CASE UNCHANGED vars
    <2>1. UNCHANGED <<programRules, sessionRules, pending, appBlocks, filters, refused, worker, ticker,
                    ui, schedule>>
      BY <1>1 DEF vars
    <2> QED BY <2>1 DEF SerialInv, OneAtWork, Modest, RulesApart, RulesBlock, PromptsUnblocked,
              WorkersMeanIt, CommandsMeanIt, TickerMeansIt, OneRuleEach, AllReferenced, Referenced,
              Deciding, Removing, Asks, Remembered, Session, Quarantines
  <1>2. CASE Next
    BY <1>2, ObserveSerial, WorkerSerial, CommandSerial, UiSerial, TickerSerial, ExpireSerial DEF Next
  <1> QED BY <1>1, <1>2

\* While activities follow one another, and single rules are only removed when
\* every decision is about all protocols, no filter outlives its record: to
\* undo what decide_program, the rules and their end blocked, the prompts and
\* app_blocks are enough.
THEOREM NoFilterIsStray ==
  ASSUME \A s \in Schedules : s.serial => Undoing(s)
  PROVE  Spec => []NoStrayFilter
  <1> DEFINE Inv == TypeInv /\ (schedule.serial => SerialInv)
  <1>1. Init => Inv
    BY InitTypes, InitSerial
  <1>2. Inv /\ [Next]_vars => Inv'
    <2> SUFFICES ASSUME Inv, [Next]_vars PROVE Inv'
      OBVIOUS
    <2>1. schedule \in Schedules
      BY DEF TypeInv, TypeOK
    <2> QED BY <2>1, StepTypes, StepSerial, ScheduleStays
  <1>3. Inv => NoStrayFilter
    BY DEF SerialInv, AllReferenced, NoStrayFilter
  <1> QED BY <1>1, <1>2, <1>3, PTL DEF Spec

-----------------------------------------------------------------------------
(* What is allowed connects. *)

\* What a block is there for: a rule that quarantines, in a map or about to be
\* stored or taken back.
StandsFor(r, k) ==
  r.decision = "quarantine" /\ k = <<r.path>> /\ filters[appBlocks[k]] = FilterFor(r)
BeingFreed(k) == Removing /\ k = <<ui.path>> /\ (ui.at = "free" => k \in ui.keys)
BlocksHaveRules ==
  \A k \in BlockKeys : appBlocks[k] # Nothing /\ AnsweredAsOne(k[1]) =>
    \/ \E r \in Remembered \cup Session : StandsFor(r, k)
    \/ Deciding /\ StandsFor(ui.rule, k)
    \/ BeingFreed(k)
    \/ \E e \in ticker.expired : StandsFor(e[1], k)

\* Rules come from answers to prompts.
RulesAnswered ==
  /\ \A r \in Remembered \cup Session : r.path \in answered
  /\ Deciding => ui.path \in answered

\* A remembered rule that quarantines is the only remembered one of its path.
AllowInv == Alone(programRules) /\ BlocksHaveRules

\* At the start there are no rules and no blocks.
LEMMA InitAllow == Init => AllowInv
  BY DEF Init, AllowInv, Alone, BlocksHaveRules

\* At the start there are no rules.
LEMMA InitAnswered == Init => RulesAnswered
  BY DEF Init, RulesAnswered, Remembered, Session, RulesIn, Deciding, UiIdle

\* What Insert adds is the rule.
LEMMA InsertingIn ==
  ASSUME NEW q \in Seq(Rule), NEW r \in Rule
  PROVE  RulesIn(Insert(q, r)) \subseteq RulesIn(q) \cup {r}
  <1> DEFINE s == Without(q, SameKey(r))
             t == Append(s, r)
  <1>1. s \in Seq(Rule) /\ RulesIn(s) \subseteq RulesIn(q)
    BY WeedingIn, MapTypes
  <1> HIDE DEF s
  <1>2. /\ DOMAIN t = 1 .. Len(s) + 1 /\ DOMAIN s = 1 .. Len(s) /\ Len(s) \in Nat
        /\ t[Len(s) + 1] = r /\ \A i \in DOMAIN s : t[i] = s[i]
    BY <1>1, AppendProperties, LenProperties
  <1> HIDE DEF t
  <1>3. \A i \in DOMAIN t : i = Len(s) + 1 \/ i \in DOMAIN s
    BY <1>2
  <1>4. RulesIn(t) \subseteq RulesIn(s) \cup {r}
    BY <1>2, <1>3 DEF RulesIn
  <1> QED BY <1>1, <1>4 DEF Insert, s, t

\* No other rule comes, whatever step is taken.
LEMMA StepAnswered ==
  ASSUME TypeInv, SerialInv, RulesAnswered, schedule.serial, Undoing(schedule), [Next]_vars
  PROVE  RulesAnswered'
  <1>0. answered \subseteq answered'
    BY ScheduleStays
  <1>1. ASSUME \A r \in Remembered' \cup Session' :
                 \/ \E o \in Remembered \cup Session : o.path = r.path
                 \/ Deciding /\ r.path = ui.path,
               Deciding' => Deciding /\ ui'.path = ui.path
        PROVE  RulesAnswered'
    BY <1>0, <1>1 DEF RulesAnswered
  <1>2. ASSUME UNCHANGED <<programRules, sessionRules, ui>> PROVE RulesAnswered'
    BY <1>1, <1>2 DEF Remembered, Session, Deciding
  <1>3. CASE UNCHANGED vars
    BY <1>2, <1>3 DEF vars
  <1>4. CASE \E w \in Observers : SomeObservation(w) \/ WorkerStep(w)
    BY <1>2, <1>4 DEF SomeObservation, Observe, WorkerStep, CheckBlock, InstallFilter, RecordBlock,
         CheckPending, CheckBlocked, TemporaryFilter, Prompt, rules
  <1>5. ASSUME NEW p \in Paths, NEW d, NEW s, NEW c, NEW e, Decide(p, d, s, c, e)
        PROVE  RulesAnswered'
    <2>1. UNCHANGED <<programRules, sessionRules>> /\ answered' = answered \cup {p} /\ ui'.path = p
      BY <1>5 DEF Decide, rules, UiIdle
    <2>2. Remembered' = Remembered /\ Session' = Session
      BY <2>1 DEF Remembered, Session
    <2> QED BY <2>1, <2>2 DEF RulesAnswered
  <1>6. ASSUME Remembered' \subseteq Remembered, Session' \subseteq Session,
               Deciding' => Deciding /\ ui'.path = ui.path
        PROVE  RulesAnswered'
    BY <1>1, <1>6
  <1>7. \A gone : /\ RulesIn(Without(programRules, gone)) \subseteq Remembered
                  /\ RulesIn(Without(sessionRules, gone)) \subseteq Session
    BY WeedingIn, RuleTypes DEF Remembered, Session
  <1>8. ASSUME NEW p \in Paths, RemoveApp(p) PROVE RulesAnswered'
    <2>1. ~ Deciding' /\ sessionRules' = sessionRules
      BY <1>8 DEF RemoveApp, Deciding, UiIdle
    <2> QED BY <1>6, <1>7, <1>8, <2>1 DEF RemoveApp, WithoutPath, Remembered, Session
  <1>9. ASSUME NEW r, RemoveRule(r) PROVE RulesAnswered'
    <2>1. ~ Deciding'
      BY <1>9 DEF RemoveRule, Deciding, UiIdle
    <2> QED BY <1>6, <1>7, <1>9, <2>1 DEF RemoveRule, Remembered, Session
  <1>10. CASE StartCommand
    <2>1. ASSUME NEW p \in Paths
          PROVE  /\ ~ \E d \in Decisions : SetDecision(p, d) \/ \E t \in Targets : Upsert(p, d, t)
                 /\ ~ AllowForAWhile(p)
                 /\ \A q : ~ Import(q)
      BY DEF Undoing, SetDecision, Upsert, AllowForAWhile, Import, Otherwise, Command
    <2> QED BY <1>5, <1>8, <1>9, <1>10, <2>1, Zenon DEF StartCommand
  <1>11. CASE DecideQuarantine \/ FindBlocks \/ FreeBlock
    <2>1. UNCHANGED <<programRules, sessionRules>>
      BY <1>11 DEF DecideQuarantine, FindBlocks, FreeBlock, rules
    <2>2. ui \in UiRecord
      BY DEF TypeInv, TypeOK, UiRecord
    <2>3. Deciding' => Deciding /\ ui'.path = ui.path
      <3>1. CASE DecideQuarantine
        BY <2>2, <3>1 DEF DecideQuarantine, Deciding, UiIdle, UiRecord
      <3>2. CASE FindBlocks
        BY <2>2, <3>2 DEF FindBlocks, Deciding, UiRecord
      <3>3. CASE FreeBlock
        <4>1. ui.cmd = "remove"
          BY <3>3 DEF FreeBlock, SerialInv, Modest, Deciding, Removing
        <4> QED BY <2>2, <3>3, <4>1 DEF FreeBlock, Deciding, UiIdle, UiRecord
      <3> QED BY <1>11, <3>1, <3>2, <3>3
    <2> QED BY <1>1, <2>1, <2>3 DEF Remembered, Session
  <1>12. CASE StoreDecision \/ StoreProgram
    <2>1. Deciding /\ ui.rule \in Rule /\ ui.rule.path = ui.path
      <3>1. ui.at \in {"session", "program"} /\ ui.cmd \notin {"remove", "import"}
        BY <1>12 DEF StoreDecision, StoreSession, StoreProgram, TypeInv, UiOK
      <3>2. Deciding
        BY <3>1 DEF SerialInv, Modest, Removing
      <3> QED BY <3>1, <3>2 DEF SerialInv, Modest, TypeInv, UiOK
    <2>2. ui \in UiRecord
      BY DEF TypeInv, TypeOK, UiRecord
    <2>3. Deciding' => ui'.path = ui.path
      BY <1>12, <2>2 DEF StoreDecision, StoreSession, StoreProgram, Deciding, UiIdle, UiRecord
    <2>4. Remembered' \cup Session' \subseteq Remembered \cup Session \cup {ui.rule}
      <3>1. CASE StoreDecision
        <4> DEFINE rest == WithoutIdentity(sessionRules, ui.rule.path)
        <4>1. rest \in Seq(Rule) /\ RulesIn(rest) \subseteq Session
          BY <1>7, MapTypes, RuleTypes DEF WithoutIdentity
        <4>2. sessionRules' \in {rest, Insert(rest, ui.rule)} /\ programRules' = programRules
          BY <3>1 DEF StoreDecision, StoreSession
        <4> HIDE DEF rest
        <4> QED BY <2>1, <4>1, <4>2, InsertingIn DEF Remembered, Session
      <3>2. CASE StoreProgram
        <4> DEFINE rest == IF ui.cmd = "remember" THEN WithoutIdentity(programRules, ui.rule.path)
                           ELSE programRules
        <4>1. rest \in Seq(Rule) /\ RulesIn(rest) \subseteq Remembered
          BY <1>7, MapTypes, RuleTypes DEF WithoutIdentity, Remembered
        <4>2. programRules' = Insert(rest, ui.rule) /\ sessionRules' = sessionRules
          BY <3>2 DEF StoreProgram
        <4> HIDE DEF rest
        <4> QED BY <2>1, <4>1, <4>2, InsertingIn DEF Remembered, Session
      <3> QED BY <1>12, <3>1, <3>2
    <2> QED BY <1>1, <2>1, <2>3, <2>4
  <1>13. CASE RemoveAppSession
    <2>1. ~ Deciding'
      BY <1>13 DEF RemoveAppSession, Deciding, TypeInv, TypeOK
    <2> QED BY <1>6, <1>7, <1>13, <2>1 DEF RemoveAppSession, WithoutPath, Remembered, Session
  <1>14. ~ Enforce /\ ~ ImportSession /\ ~ ImportPrompts
    BY DEF Enforce, ImportSession, ImportPrompts, SerialInv, Modest, Deciding, Removing
  <1>15. CASE TickerStep
    <2>1. UNCHANGED ui
      BY <1>15 DEF TickerStep, PruneProgram, PruneSession, PruneBlock
    <2>2. Remembered' \subseteq Remembered /\ Session' \subseteq Session
      BY <1>7, <1>15 DEF TickerStep, PruneProgram, PruneSession, PruneBlock, NotDue, rules,
           Remembered, Session
    <2> QED BY <1>6, <2>1, <2>2 DEF Deciding
  <1>16. CASE Expire
    <2>1. UNCHANGED ui
      BY <1>16 DEF Expire
    <2>2. ASSUME NEW q \in Seq(Rule), NEW i \in DOMAIN q, NEW r \in RulesIn([q EXCEPT ![i].expires = "due"])
          PROVE  \E o \in RulesIn(q) : o.path = r.path
      <3> DEFINE s == [q EXCEPT ![i].expires = "due"]
                 n == [q[i] EXCEPT !.expires = "due"]
      <3>1. RulesIn(s) \subseteq RulesIn(q) \cup {n} /\ n.path = q[i].path
        BY ExpiringIn
      <3>2. r \in RulesIn(s) /\ q[i] \in RulesIn(q)
        BY <2>2 DEF RulesIn
      <3> HIDE DEF s, n
      <3> QED BY <3>1, <3>2
    <2>3. \A r \in Remembered' \cup Session' : \E o \in Remembered \cup Session : o.path = r.path
      BY <1>16, <2>2, RuleTypes DEF Expire, Remembered, Session
    <2> QED BY <1>1, <2>1, <2>3 DEF Deciding
  <1> QED BY <1>3, <1>4, <1>10, <1>11, <1>12, <1>13, <1>14, <1>15, <1>16 DEF Next, UiStep

\* No block is made, and what those left are there for is still there.
LEMMA BlocksGoOn ==
  ASSUME BlocksHaveRules, answered \subseteq answered',
         \A k \in BlockKeys : appBlocks'[k] # Nothing =>
           appBlocks'[k] = appBlocks[k] /\ filters'[appBlocks[k]] = filters[appBlocks[k]],
         \A r \in Remembered \cup Session : r.decision = "quarantine" /\ AnsweredAsOne(r.path) =>
           \/ \E o \in Remembered' \cup Session' :
                o.decision = r.decision /\ o.path = r.path /\ FilterFor(o) = FilterFor(r)
           \/ BeingFreed(<<r.path>>)'
           \/ \E e \in ticker'.expired : e[1] = r,
         Deciding /\ ui.rule.decision = "quarantine" =>
           \/ Deciding' /\ ui'.rule = ui.rule
           \/ ui.rule \in Remembered' \cup Session'
           \/ appBlocks'[<<ui.rule.path>>] = Nothing,
         \A j \in BlockKeys : BeingFreed(j) => BeingFreed(j)' \/ appBlocks'[j] = Nothing,
         \A e \in ticker.expired :
           e \in ticker'.expired \/ appBlocks'[<<e[1].path>>] = Nothing
  PROVE  BlocksHaveRules'
  <1> SUFFICES ASSUME NEW k \in BlockKeys, appBlocks'[k] # Nothing, AnsweredAsOne(k[1])'
               PROVE  \/ \E r \in Remembered' \cup Session' : StandsFor(r, k)'
                      \/ Deciding' /\ StandsFor(ui.rule, k)'
                      \/ BeingFreed(k)'
                      \/ \E e \in ticker'.expired : StandsFor(e[1], k)'
    BY DEF BlocksHaveRules
  <1>1. appBlocks'[k] = appBlocks[k] /\ filters'[appBlocks[k]] = filters[appBlocks[k]]
    OBVIOUS
  <1>0. AnsweredAsOne(k[1])
    BY DEF AnsweredAsOne
  <1>2. \A r : StandsFor(r, k)' <=> StandsFor(r, k)
    BY <1>1 DEF StandsFor
  <1>3. ASSUME NEW r \in Remembered \cup Session, StandsFor(r, k)
        PROVE  \/ \E o \in Remembered' \cup Session' : StandsFor(o, k)'
               \/ BeingFreed(k)'
               \/ \E e \in ticker'.expired : StandsFor(e[1], k)'
    <2>1. /\ r.decision = "quarantine" /\ k = <<r.path>> /\ filters[appBlocks[k]] = FilterFor(r)
          /\ AnsweredAsOne(r.path)
      BY <1>0, <1>3 DEF StandsFor
    <2>2. CASE \E o \in Remembered' \cup Session' :
                 o.decision = r.decision /\ o.path = r.path /\ FilterFor(o) = FilterFor(r)
      BY <1>2, <2>1, <2>2 DEF StandsFor
    <2>3. CASE BeingFreed(<<r.path>>)'
      BY <2>1, <2>3
    <2>4. CASE \E e \in ticker'.expired : e[1] = r
      BY <1>2, <1>3, <2>4
    <2> QED BY <2>1, <2>2, <2>3, <2>4
  <1>4. ASSUME Deciding, StandsFor(ui.rule, k)
        PROVE  \/ \E o \in Remembered' \cup Session' : StandsFor(o, k)'
               \/ Deciding' /\ StandsFor(ui.rule, k)'
    <2>1. ui.rule.decision = "quarantine" /\ k = <<ui.rule.path>>
      BY <1>4 DEF StandsFor
    <2>2. (Deciding' /\ ui'.rule = ui.rule) \/ ui.rule \in Remembered' \cup Session'
      BY <1>4, <2>1
    <2>3. CASE ui.rule \in Remembered' \cup Session'
      BY <1>2, <1>4, <2>3
    <2>4. CASE Deciding' /\ ui'.rule = ui.rule
      BY <1>1, <1>4, <2>4 DEF StandsFor
    <2> QED BY <2>2, <2>3, <2>4
  <1>5. ASSUME NEW e \in ticker.expired, StandsFor(e[1], k)
        PROVE  \E f \in ticker'.expired : StandsFor(f[1], k)'
    <2>1. k = <<e[1].path>>
      BY <1>5 DEF StandsFor
    <2>2. e \in ticker'.expired
      BY <2>1
    <2> QED BY <1>2, <1>5, <2>2
  <1>6. BeingFreed(k) => BeingFreed(k)'
    OBVIOUS
  <1> QED BY <1>0, <1>1, <1>3, <1>4, <1>5, <1>6 DEF BlocksHaveRules

\* The observers make no block while activities follow one another.
LEMMA WorkerAllow ==
  ASSUME TypeInv, SerialInv, AllowInv, answered \subseteq answered',
         NEW w \in Observers, SomeObservation(w) \/ WorkerStep(w)
  PROVE  AllowInv'
  <1>1. ~ InstallFilter(w) /\ ~ RecordBlock(w)
    BY DEF InstallFilter, RecordBlock, SerialInv, WorkersMeanIt
  <1>2. UNCHANGED <<programRules, sessionRules, appBlocks, ui, ticker>>
    BY <1>1 DEF SomeObservation, Observe, WorkerStep, CheckBlock, CheckPending, CheckBlocked,
         TemporaryFilter, Prompt, rules
  <1>3. \A k \in BlockKeys : appBlocks[k] # Nothing => filters'[appBlocks[k]] = filters[appBlocks[k]]
    <2>1. CASE UNCHANGED filters
      BY <2>1
    <2>2. ASSUME NEW h \in Handles, Free(h), NEW f, filters' = [filters EXCEPT ![h] = f]
          PROVE  \A k \in BlockKeys : appBlocks[k] # Nothing =>
                   filters'[appBlocks[k]] = filters[appBlocks[k]]
      <3>1. \A k \in BlockKeys : appBlocks[k] # h
        BY <2>2 DEF Free, Referenced
      <3> QED BY <2>2, <3>1, HandTypes
    <2> QED BY <1>1, <2>1, <2>2 DEF SomeObservation, Observe, WorkerStep, CheckBlock, CheckPending,
              CheckBlocked, TemporaryFilter, Prompt, kernel
  <1>4. Remembered' = Remembered /\ Session' = Session
    BY <1>2 DEF Remembered, Session
  <1>5. Deciding' = Deciding /\ \A k : BeingFreed(k)' = BeingFreed(k)
    BY <1>2 DEF Deciding, Removing, BeingFreed
  <1>6. BlocksHaveRules'
    BY <1>2, <1>3, <1>4, <1>5, BlocksGoOn DEF AllowInv
  <1> QED BY <1>2, <1>6 DEF AllowInv

\* What a removal of filters leaves to the blocks that stay.
LEMMA OthersKeep ==
  ASSUME TypeInv, RecordsInv, NEW own, own \subseteq BlockKeys, NEW X,
         \A h \in X : (\E k \in own : appBlocks[k] = h) \/ (\E p \in Paths : pending[p] = h),
         \A h \in Handles : h \notin X => filters'[h] = filters[h],
         \A k \in BlockKeys : appBlocks'[k] = IF k \in own THEN Nothing ELSE appBlocks[k]
  PROVE  \A k \in BlockKeys : appBlocks'[k] # Nothing =>
           appBlocks'[k] = appBlocks[k] /\ filters'[appBlocks[k]] = filters[appBlocks[k]]
  <1> SUFFICES ASSUME NEW k \in BlockKeys, appBlocks'[k] # Nothing
               PROVE  appBlocks'[k] = appBlocks[k] /\ filters'[appBlocks[k]] = filters[appBlocks[k]]
    OBVIOUS
  <1>1. k \notin own /\ appBlocks'[k] = appBlocks[k] /\ appBlocks[k] \in Handles
    BY HandTypes
  <1>2. appBlocks[k] \notin X
    BY <1>1 DEF RecordsInv, RecordsLive
  <1> QED BY <1>1, <1>2

\* A command that starts makes no block, and a rule it removes is being removed.
LEMMA CommandAllow ==
  ASSUME TypeInv, RecordsInv, SerialInv, AllowInv, answered \subseteq answered',
         schedule.serial, Undoing(schedule), StartCommand
  PROVE  AllowInv'
  <1>1. PICK p \in Paths :
    \/ \E d \in Decisions, s \in schedule.protocols, c \in {"remember", "decide"},
          e \in {"never", "later"} : Decide(p, d, s, c, e)
    \/ \E d \in Decisions : SetDecision(p, d) \/ \E t \in Targets : Upsert(p, d, t)
    \/ AllowForAWhile(p)
    \/ RemoveApp(p)
    \/ \E q \in {programRules, sessionRules} : \E i \in DOMAIN q : RemoveRule(q[i])
    \/ \E q \in {<<>>} \cup {<<RuleOf(p, d, "all", "any", "never")>> : d \in Decisions} :
          Import(q)
    BY Zenon DEF StartCommand
  <1>2. /\ ~ \E d \in Decisions : SetDecision(p, d) \/ \E t \in Targets : Upsert(p, d, t)
        /\ ~ AllowForAWhile(p)
        /\ \A q : ~ Import(q)
    BY DEF Undoing, SetDecision, Upsert, AllowForAWhile, Import, Otherwise, Command
  <1>3. AllIdle
    <2>1. MayStart
      BY <1>1, <1>2, Zenon DEF Decide, RemoveApp, RemoveRule, Otherwise, Command
    <2> QED BY <2>1 DEF MayStart
  <1>4. ASSUME NEW d \in Decisions, NEW s \in schedule.protocols, NEW c \in {"remember", "decide"},
               NEW e \in {"never", "later"}, Decide(p, d, s, c, e)
        PROVE  AllowInv'
    <2>1. UNCHANGED <<programRules, sessionRules, appBlocks, ticker>>
          /\ Deleted(filters, pending[p])
      BY <1>4 DEF Decide, rules
    <2>2. Remembered' = Remembered /\ Session' = Session
      BY <2>1 DEF Remembered, Session
    <2> DEFINE own == {}  X == {pending[p]}
    <2>3. own \subseteq BlockKeys
          /\ \A h \in X : (\E k \in own : appBlocks[k] = h) \/ (\E q \in Paths : pending[q] = h)
      OBVIOUS
    <2>4. /\ \A h \in Handles : h \notin X => filters'[h] = filters[h]
          /\ \A k \in BlockKeys : appBlocks'[k] = IF k \in own THEN Nothing ELSE appBlocks[k]
      BY <2>1, DeletedFacts DEF TypeInv, TypeOK
    <2> HIDE DEF own, X
    <2>5. \A k \in BlockKeys : appBlocks'[k] # Nothing =>
            appBlocks'[k] = appBlocks[k] /\ filters'[appBlocks[k]] = filters[appBlocks[k]]
      BY <2>3, <2>4, OthersKeep
    <2>6. BlocksHaveRules'
      BY <1>3, <2>1, <2>2, <2>5, AllIdleMeans, BlocksGoOn DEF AllowInv, BeingFreed
    <2> QED BY <2>1, <2>6 DEF AllowInv
  <1>5. ASSUME NEW path, UNCHANGED <<appBlocks, filters, ticker>>, Removing', ui'.path = path,
               ui'.at # "free",
               Alone(programRules'),
               \A r \in Remembered \cup Session : r \in Remembered' \cup Session' \/ r.path = path
        PROVE  AllowInv'
    <2>1. BlocksHaveRules'
      <3>1. BeingFreed(<<path>>)'
        BY <1>5 DEF BeingFreed
      <3> QED BY <1>3, <1>5, <3>1, AllIdleMeans, BlocksGoOn DEF AllowInv, BeingFreed
    <2> QED BY <1>5, <2>1 DEF AllowInv
  <1>6. ASSUME RemoveApp(p) PROVE AllowInv'
    <2>1. UNCHANGED <<sessionRules, appBlocks, filters, ticker>> /\ Removing' /\ ui'.path = p
          /\ ui'.at # "free"
      BY <1>6 DEF RemoveApp, Removing, UiIdle, kernel
    <2>2. programRules' = Without(programRules, {r \in Rule : r.path = p})
      BY <1>6 DEF RemoveApp, WithoutPath
    <2>3. Alone(programRules') /\ Remembered' = Remembered \ {r \in Rule : r.path = p}
      BY <2>2, WeedingIn, RuleTypes DEF Remembered, AllowInv
    <2>4. Session' = Session
      BY <2>1 DEF Session
    <2> QED BY <1>5, <2>1, <2>3, <2>4
  <1>7. ASSUME NEW q \in {programRules, sessionRules}, NEW i \in DOMAIN q, RemoveRule(q[i])
        PROVE  AllowInv'
    <2> DEFINE r == q[i]
    <2>1. UNCHANGED <<appBlocks, filters, ticker>> /\ Removing' /\ ui'.path = r.path
          /\ ui'.at # "free"
      BY <1>7 DEF RemoveRule, Removing, UiIdle, kernel
    <2>2. \A o \in SameKey(r) : o.path = r.path
      BY DEF SameKey, StorageKey
    <2>3. CASE programRules' = Without(programRules, SameKey(r)) /\ UNCHANGED sessionRules
      <3>1. Alone(programRules') /\ Remembered' = Remembered \ SameKey(r) /\ Session' = Session
        BY <2>3, WeedingIn, RuleTypes DEF Remembered, Session, AllowInv
      <3> QED BY <1>5, <2>1, <2>2, <3>1
    <2>4. CASE sessionRules' = Without(sessionRules, SameKey(r)) /\ UNCHANGED programRules
      <3>1. Alone(programRules') /\ Session' = Session \ SameKey(r) /\ Remembered' = Remembered
        BY <2>4, WeedingIn, RuleTypes DEF Remembered, Session, AllowInv
      <3> QED BY <1>5, <2>1, <2>2, <3>1
    <2> QED BY <1>7, <2>3, <2>4 DEF RemoveRule
  <1> QED BY <1>1, <1>2, <1>4, <1>6, <1>7

\* A decision makes its block before its rule; the block goes after the rules.
LEMMA UiAllow ==
  ASSUME TypeInv, RecordsInv, SerialInv, AllowInv, RulesAnswered, answered \subseteq answered',
         UiStep
  PROVE  AllowInv'
  <1> DEFINE p == ui.path
             r == ui.rule
  <1>1. ~ Enforce /\ ~ ImportSession /\ ~ ImportPrompts
    BY DEF Enforce, ImportSession, ImportPrompts, SerialInv, Modest, Deciding, Removing
  <1>2. ui \in UiRecord
    BY DEF TypeInv, TypeOK, UiRecord
  <1>3. UiStep => ticker.expired = {}
    <2>1. ui.at # "idle"
      BY <1>1 DEF UiStep, DecideQuarantine, StoreDecision, StoreSession, StoreProgram,
           RemoveAppSession, FindBlocks, FreeBlock
    <2> QED BY <2>1, UiBusy
  <1>4. ASSUME DecideQuarantine PROVE AllowInv'
    <2>1. /\ ui.at = "quarantine" /\ p \in Paths /\ r \in Rule /\ r.path = p
          /\ UNCHANGED <<programRules, sessionRules, ticker>>
      BY <1>4 DEF DecideQuarantine, TypeInv, UiOK, rules
    <2>2. Remembered' = Remembered /\ Session' = Session
      BY <2>1 DEF Remembered, Session
    <2>3. Deciding /\ ~ Removing /\ r.decision = "quarantine" /\ appBlocks[<<p>>] = Nothing
      BY <2>1 DEF SerialInv, Modest, CommandsMeanIt, Deciding, Removing
    <2>4. CASE ui' = UiIdle /\ UNCHANGED <<filters, appBlocks>>
      <3>1. BlocksHaveRules'
        BY <1>3, <2>1, <2>2, <2>3, <2>4, BlocksGoOn DEF AllowInv, BeingFreed
      <3> QED BY <2>1, <3>1 DEF AllowInv
    <2>5. ASSUME NEW h \in Handles, Free(h), filters' = [filters EXCEPT ![h] = FilterFor(r)],
                 appBlocks' = [appBlocks EXCEPT ![<<p>>] = h], ui' = [ui EXCEPT !.at = "session"]
          PROVE  AllowInv'
      <3>1. <<p>> \in BlockKeys
        BY <2>1, RuleTypes
      <3>2. ui'.at = "session" /\ ui'.cmd = ui.cmd /\ ui'.path = p /\ ui'.rule = r
        BY <1>2, <2>5 DEF UiRecord
      <3>3. Deciding'
        BY <2>3, <3>2 DEF Deciding
      <3>4. appBlocks'[<<p>>] = h /\ filters'[h] = FilterFor(r)
        BY <2>5, <3>1 DEF TypeInv, TypeOK
      <3>5. ASSUME NEW k \in BlockKeys, k # <<p>>, appBlocks'[k] # Nothing
            PROVE  appBlocks'[k] = appBlocks[k] /\ filters'[appBlocks[k]] = filters[appBlocks[k]]
        <4>1. appBlocks'[k] = appBlocks[k] /\ appBlocks[k] \in Handles
          BY <2>5, <3>5, HandTypes DEF TypeInv, TypeOK
        <4>2. appBlocks[k] # h
          BY <2>5 DEF Free, Referenced
        <4> QED BY <2>5, <4>1, <4>2
      <3>6. StandsFor(ui.rule, <<p>>)'
        BY <2>1, <2>3, <3>2, <3>4 DEF StandsFor
      <3>7. ASSUME NEW k \in BlockKeys, k # <<p>>, appBlocks'[k] # Nothing,
                   AnsweredAsOne(k[1])
            PROVE  \E o \in Remembered' \cup Session' : StandsFor(o, k)'
        <4>1. \A o : StandsFor(o, k) <=> StandsFor(o, k)'
          BY <3>5, <3>7 DEF StandsFor
        <4>2. \E o \in Remembered \cup Session : StandsFor(o, k)
          BY <1>3, <2>1, <2>3, <3>5, <3>7 DEF AllowInv, BlocksHaveRules, StandsFor, BeingFreed
        <4> QED BY <2>2, <4>1, <4>2
      <3> HIDE DEF p, r
      <3>8. BlocksHaveRules'
        <4> SUFFICES ASSUME NEW k \in BlockKeys, appBlocks'[k] # Nothing, AnsweredAsOne(k[1])'
                     PROVE  \/ \E o \in Remembered' \cup Session' : StandsFor(o, k)'
                            \/ Deciding' /\ StandsFor(ui.rule, k)'
          BY DEF BlocksHaveRules
        <4>1. CASE k = <<p>>
          BY <3>2, <3>3, <3>6, <4>1 DEF p
        <4>2. CASE k # <<p>>
          <5>1. AnsweredAsOne(k[1])
            BY DEF AnsweredAsOne
          <5> QED BY <3>7, <4>2, <5>1
        <4> QED BY <4>1, <4>2
      <3> QED BY <2>1, <3>8 DEF AllowInv
    <2> QED BY <1>4, <2>4, <2>5 DEF DecideQuarantine
  <1>5. ASSUME StoreDecision PROVE AllowInv'
    <2> DEFINE same == {o \in Rule : SameApp(o.path, r.path)}
               rest == Without(sessionRules, same)
    <2>1. /\ ui.at = "session" /\ ui.cmd \notin {"remove", "import"}
          /\ p \in Paths /\ r \in Rule
          /\ UNCHANGED <<programRules, appBlocks, filters, ticker>>
      BY <1>5 DEF StoreDecision, StoreSession, TypeInv, UiOK, kernel
    <2>2. Deciding /\ ~ Removing
      BY <2>1 DEF SerialInv, Modest, Deciding, Removing
    <2>3. \/ /\ sessionRules' = rest /\ ui' = [ui EXCEPT !.at = "program"] /\ ui.cmd = "remember"
          \/ /\ sessionRules' = Insert(rest, r) /\ ui' = UiIdle
      BY <1>5 DEF StoreDecision, StoreSession, WithoutIdentity
    <2>4. r.path = p /\ \A o \in Quarantines(Remembered \cup Session) : o.path # p
      BY <2>2 DEF SerialInv, Modest, CommandsMeanIt
    <2>5. rest \in Seq(Rule) /\ RulesIn(rest) = Session \ same
      BY WeedingIn, MapTypes, RuleTypes DEF Session
    <2>6. \A o \in Remembered \cup Session : o \in same /\ AnsweredAsOne(o.path) => o.path = p
      <3>1. \A o \in Remembered \cup Session : o.path \in answered
        BY DEF RulesAnswered
      <3>2. p \in answered
        BY <2>2 DEF RulesAnswered
      <3>3. \A o \in Remembered \cup Session :
              o \in same => SameApp(p, o.path) /\ SameApp(o.path, o.path)
        BY <2>4 DEF SameApp
      <3> QED BY <3>1, <3>2, <3>3 DEF AnsweredAsOne
    <2>7. \A o \in RulesIn(rest) : o.path # r.path
      BY <2>1, <2>5, RuleTypes
    <2>8. \A o \in Session :
            o.decision = "quarantine" /\ AnsweredAsOne(o.path) => o \in RulesIn(rest)
      BY <2>4, <2>5, <2>6 DEF Quarantines
    <2>9. Remembered' = Remembered
      BY <2>1 DEF Remembered
    <2> HIDE DEF same, rest
    <2>10. CASE sessionRules' = rest /\ ui' = [ui EXCEPT !.at = "program"] /\ ui.cmd = "remember"
      <3>1. ui'.at = "program" /\ ui'.cmd = "remember" /\ ui'.rule = r
        BY <1>2, <2>10 DEF UiRecord
      <3>2. Deciding' /\ Session' = RulesIn(rest)
        BY <2>10, <3>1 DEF Deciding, Session
      <3>3. BlocksHaveRules'
        BY <1>3, <2>1, <2>2, <2>8, <2>9, <3>1, <3>2, BlocksGoOn DEF AllowInv, BeingFreed
      <3> QED BY <2>1, <3>3 DEF AllowInv
    <2>11. CASE sessionRules' = Insert(rest, r) /\ ui' = UiIdle
      <3>1. Session' = RulesIn(rest) \cup {r}
        BY <2>1, <2>5, <2>7, <2>11, AppendingIn DEF Session
      <3>2. BlocksHaveRules'
        BY <1>3, <2>1, <2>2, <2>8, <2>9, <3>1, BlocksGoOn DEF AllowInv, BeingFreed
      <3> QED BY <2>1, <3>2 DEF AllowInv
    <2> QED BY <2>3, <2>10, <2>11
  <1>6. ASSUME StoreProgram PROVE AllowInv'
    <2> DEFINE same == {o \in Rule : SameApp(o.path, r.path)}
               rest == Without(programRules, same)
    <2>1. /\ ui.at = "program" /\ p \in Paths /\ r \in Rule
          /\ UNCHANGED <<sessionRules, appBlocks, filters, ticker>>
      BY <1>6 DEF StoreProgram, TypeInv, UiOK, kernel
    <2>2. ui.cmd = "remember" /\ Deciding /\ ~ Removing
      BY <2>1 DEF SerialInv, CommandsMeanIt, Deciding, Removing
    <2>3. programRules' = Insert(rest, r)
      BY <1>6, <2>2 DEF StoreProgram, WithoutIdentity
    <2>4. r.path = p /\ \A o \in Quarantines(Remembered \cup Session) : o.path # p
      BY <2>2 DEF SerialInv, Modest, CommandsMeanIt
    <2>5. rest \in Seq(Rule) /\ RulesIn(rest) = Remembered \ same /\ Alone(rest)
      BY WeedingIn, MapTypes, RuleTypes DEF Remembered, AllowInv
    <2>6. \A o \in Remembered \cup Session : o \in same /\ AnsweredAsOne(o.path) => o.path = p
      <3>1. \A o \in Remembered \cup Session : o.path \in answered
        BY DEF RulesAnswered
      <3>2. p \in answered
        BY <2>2 DEF RulesAnswered
      <3>3. \A o \in Remembered \cup Session :
              o \in same => SameApp(p, o.path) /\ SameApp(o.path, o.path)
        BY <2>4 DEF SameApp
      <3> QED BY <3>1, <3>2, <3>3 DEF AnsweredAsOne
    <2>7. \A o \in RulesIn(rest) : o.path # r.path
      BY <2>1, <2>5, RuleTypes
    <2>8. \A o \in Remembered :
            o.decision = "quarantine" /\ AnsweredAsOne(o.path) => o \in RulesIn(rest)
      BY <2>4, <2>5, <2>6 DEF Quarantines
    <2>9. Remembered' = RulesIn(rest) \cup {r} /\ Alone(programRules') /\ Session' = Session
      BY <2>1, <2>3, <2>5, <2>7, AppendingIn DEF Remembered, Session
    <2> HIDE DEF same, rest
    <2>10. BlocksHaveRules'
      BY <1>3, <2>1, <2>2, <2>8, <2>9, BlocksGoOn DEF AllowInv, BeingFreed
    <2> QED BY <2>9, <2>10 DEF AllowInv
  <1>7. ASSUME RemoveAppSession PROVE AllowInv'
    <2>1. /\ ui.at = "session" /\ ui.cmd = "remove" /\ p \in Paths
          /\ UNCHANGED <<programRules, appBlocks, filters, ticker>>
          /\ sessionRules' = Without(sessionRules, {o \in Rule : o.path = p})
          /\ ui'.at = "unblock" /\ ui'.cmd = "remove" /\ ui'.path = p
      BY <1>2, <1>7 DEF RemoveAppSession, TypeInv, UiOK, WithoutPath, kernel, UiRecord
    <2>2. Removing /\ Removing' /\ ~ Deciding
      BY <2>1 DEF Removing, Deciding
    <2>3. Session' = Session \ {o \in Rule : o.path = p} /\ Remembered' = Remembered
      BY <2>1, WeedingIn, RuleTypes DEF Session, Remembered
    <2>4. \A o \in Remembered \cup Session : o \in Remembered' \cup Session' \/ o.path = p
      BY <2>3
    <2>5. \A j \in BlockKeys : BeingFreed(j) => BeingFreed(j)' \/ appBlocks'[j] = Nothing
      BY <2>1, <2>2 DEF BeingFreed
    <2>6. UNCHANGED <<appBlocks, filters, ticker>> /\ BlocksHaveRules /\ Alone(programRules)'
      BY <2>1 DEF AllowInv
    <2>7. \A o \in Remembered \cup Session : o \in Remembered' \cup Session' \/ BeingFreed(<<o.path>>)'
      BY <2>1, <2>2, <2>4 DEF BeingFreed
    <2> HIDE DEF p, BeingFreed
    <2>8. BlocksHaveRules'
      BY <1>3, <2>2, <2>5, <2>6, <2>7, BlocksGoOn
    <2> QED BY <2>6, <2>8 DEF AllowInv
  <1>8. ASSUME FindBlocks PROVE AllowInv'
    <2> DEFINE keys == {k \in BlockKeys : k[1] = p /\ appBlocks[k] # Nothing}
    <2>1. /\ ui.at = "unblock" /\ p \in Paths
          /\ UNCHANGED <<programRules, sessionRules, appBlocks, filters, ticker>>
          /\ ui' = [ui EXCEPT !.at = "free", !.keys = keys]
      BY <1>8 DEF FindBlocks, rules, kernel, TypeInv, UiOK
    <2>2. ui'.at = "free" /\ ui'.cmd = ui.cmd /\ ui'.path = p /\ ui'.keys = keys
      BY <1>2, <2>1 DEF UiRecord
    <2>3. ~ Deciding /\ (Removing => Removing')
      BY <2>1, <2>2 DEF Deciding, Removing
    <2>4. appBlocks[<<p>>] # Nothing => <<p>> \in keys
      BY <2>1, RuleTypes
    <2>5. Session' = Session /\ Remembered' = Remembered
      BY <2>1 DEF Session, Remembered
    <2> HIDE DEF keys
    <2>6. \A j \in BlockKeys : BeingFreed(j) => BeingFreed(j)' \/ appBlocks'[j] = Nothing
      BY <2>1, <2>2, <2>3, <2>4 DEF BeingFreed
    <2> HIDE DEF p
    <2>7. BlocksHaveRules'
      BY <1>3, <2>1, <2>3, <2>5, <2>6, BlocksGoOn DEF AllowInv
    <2> QED BY <2>1, <2>7 DEF AllowInv
  <1>9. ASSUME FreeBlock PROVE AllowInv'
    <2>1. /\ ui.at = "free" /\ p \in Paths
          /\ UNCHANGED <<programRules, sessionRules, ticker>>
      BY <1>9 DEF FreeBlock, rules, TypeInv, UiOK
    <2>2. ~ Deciding /\ Removing /\ ui.cmd = "remove"
      BY <2>1 DEF SerialInv, Modest, Deciding, Removing
    <2>3. Session' = Session /\ Remembered' = Remembered
      BY <2>1 DEF Session, Remembered
    <2>4. CASE ui.keys = {} /\ UNCHANGED <<kernel, appBlocks>>
      <3>1. \A j \in BlockKeys : ~ BeingFreed(j)
        BY <2>1, <2>4 DEF BeingFreed
      <3>2. BlocksHaveRules'
        BY <1>3, <2>1, <2>2, <2>3, <2>4, <3>1, BlocksGoOn DEF AllowInv, kernel
      <3> QED BY <2>1, <3>2 DEF AllowInv
    <2>5. ASSUME NEW k \in ui.keys, appBlocks' = [appBlocks EXCEPT ![k] = Nothing],
                 Deleted(filters, appBlocks[k]), ui' = [ui EXCEPT !.keys = @ \ {k}]
          PROVE  AllowInv'
      <3> DEFINE own == {k}  X == {appBlocks[k]}
      <3>1. k \in BlockKeys /\ own \subseteq BlockKeys
            /\ \A h \in X : \E l \in own : appBlocks[l] = h
        BY DEF TypeInv, TypeOK
      <3>2. \A l \in BlockKeys : appBlocks'[l] = IF l \in own THEN Nothing ELSE appBlocks[l]
        BY <2>5 DEF TypeInv, TypeOK
      <3>3. \A h \in Handles : h \notin X => filters'[h] = filters[h]
        BY <2>5, DeletedFacts DEF TypeInv, TypeOK
      <3>4. appBlocks'[k] = Nothing
        BY <3>1, <3>2
      <3> HIDE DEF own, X
      <3>5. \A l \in BlockKeys : appBlocks'[l] # Nothing =>
              appBlocks'[l] = appBlocks[l] /\ filters'[appBlocks[l]] = filters[appBlocks[l]]
        BY <3>1, <3>2, <3>3, OthersKeep
      <3>6. ui'.at = "free" /\ ui'.cmd = ui.cmd /\ ui'.path = p /\ ui'.keys = ui.keys \ {k}
        BY <1>2, <2>1, <2>5 DEF UiRecord
      <3>7. Removing'
        BY <2>2, <3>6 DEF Removing
      <3>8. \A j \in BlockKeys : BeingFreed(j) => BeingFreed(j)' \/ appBlocks'[j] = Nothing
        BY <2>1, <3>4, <3>6, <3>7 DEF BeingFreed
      <3> HIDE DEF p
      <3>9. BlocksHaveRules'
        BY <1>3, <2>1, <2>2, <2>3, <3>5, <3>8, BlocksGoOn DEF AllowInv
      <3> QED BY <2>1, <3>9 DEF AllowInv
    <2> QED BY <1>9, <2>4, <2>5 DEF FreeBlock
  <1> QED BY <1>1, <1>4, <1>5, <1>6, <1>7, <1>8, <1>9 DEF UiStep

\* A rule that has ended is in the ticker's hands until its block is gone.
LEMMA TickerAllow ==
  ASSUME TypeInv, RecordsInv, SerialInv, AllowInv, answered \subseteq answered',
         TickerStep \/ Expire
  PROVE  AllowInv'
  <1>1. ASSUME PruneProgram PROVE AllowInv'
    <2>1. UNCHANGED <<sessionRules, appBlocks, filters, ui>>
          /\ programRules' = Without(programRules, {r \in Rule : r.expires = "due"})
          /\ ticker.expired = {}
      BY <1>1 DEF PruneProgram, NotDue, TickerIdle, kernel
    <2>2. Alone(programRules') /\ Session' = Session
          /\ Remembered' = Remembered \ {r \in Rule : r.expires = "due"}
      BY <2>1, WeedingIn, RuleTypes DEF Remembered, Session, AllowInv
    <2>3. Remembered' = Remembered
      <3>1. \A r \in Remembered : r.expires = "never"
        BY DEF SerialInv, Modest
      <3> QED BY <2>2, <3>1
    <2>4. Deciding' = Deciding /\ \A k : BeingFreed(k)' = BeingFreed(k)
      BY <2>1 DEF Deciding, Removing, BeingFreed
    <2>5. BlocksHaveRules'
      BY <2>1, <2>2, <2>3, <2>4, BlocksGoOn DEF AllowInv
    <2> QED BY <2>2, <2>5 DEF AllowInv
  <1>2. ASSUME PruneSession PROVE AllowInv'
    <2> DEFINE due == {r \in Rule : r.expires = "due"}
    <2>1. UNCHANGED <<programRules, appBlocks, filters, ui>>
          /\ sessionRules' = Without(sessionRules, due)
          /\ ticker'.expired = ticker.expired \cup Due(sessionRules, TRUE)
      BY <1>2 DEF PruneSession, NotDue, kernel
    <2>2. Remembered' = Remembered /\ Session' = Session \ due
      BY <2>1, WeedingIn, RuleTypes DEF Remembered, Session
    <2>3. ASSUME NEW r \in Session, r \notin Session'
          PROVE  \E e \in ticker'.expired : e[1] = r
      <3>1. PICK i \in DOMAIN sessionRules : r = sessionRules[i]
        BY DEF Session, RulesIn
      <3>2. sessionRules[i].expires = "due"
        BY <2>2, <2>3, <3>1
      <3>3. <<r, TRUE>> \in Due(sessionRules, TRUE)
        BY <3>1, <3>2 DEF Due
      <3> DEFINE e == <<r, TRUE>>
      <3>4. e \in ticker'.expired /\ e[1] = r
        BY <2>1, <3>3
      <3> HIDE DEF e
      <3> QED BY <3>4
    <2>4. Deciding' = Deciding /\ \A k : BeingFreed(k)' = BeingFreed(k)
      BY <2>1 DEF Deciding, Removing, BeingFreed
    <2>5. BlocksHaveRules'
      BY <2>1, <2>2, <2>3, <2>4, BlocksGoOn DEF AllowInv
    <2> QED BY <2>1, <2>5 DEF AllowInv
  <1>3. ASSUME PruneBlock PROVE AllowInv'
    <2>1. UNCHANGED <<programRules, sessionRules, ui>> /\ ticker.at = "unblock"
      BY <1>3 DEF PruneBlock, rules
    <2>2. Remembered' = Remembered /\ Session' = Session
          /\ Deciding' = Deciding /\ \A k : BeingFreed(k)' = BeingFreed(k)
      BY <2>1 DEF Remembered, Session, Deciding, Removing, BeingFreed
    <2>3. ticker \in [at : {"idle", "session", "unblock"}, expired : SUBSET (Rule \X BOOLEAN)]
      BY DEF TypeInv, TypeOK
    <2>4. CASE ticker.expired = {} /\ UNCHANGED <<appBlocks, kernel>>
      <3>1. BlocksHaveRules'
        BY <2>1, <2>2, <2>4, BlocksGoOn DEF AllowInv, kernel
      <3> QED BY <2>1, <3>1 DEF AllowInv
    <2>5. ASSUME NEW e \in ticker.expired,
                 appBlocks' = [appBlocks EXCEPT ![BlockKey(e[1])] = Nothing],
                 Deleted(filters, appBlocks[BlockKey(e[1])]),
                 ticker' = [ticker EXCEPT !.expired = @ \ {e}]
          PROVE  AllowInv'
      <3> DEFINE k == BlockKey(e[1])  own == {k}  X == {appBlocks[k]}
      <3>1. k = <<e[1].path>> /\ k \in BlockKeys
        <4>1. e[1] \in Rule /\ e[1].target = "any"
          BY <2>3 DEF SerialInv, Modest
        <4> QED BY <4>1, RuleTypes
      <3>2. ticker'.expired = ticker.expired \ {e}
        BY <2>3, <2>5
      <3>3. \A l \in BlockKeys : appBlocks'[l] = IF l \in own THEN Nothing ELSE appBlocks[l]
        BY <2>5 DEF TypeInv, TypeOK
      <3>4. /\ \A h \in Handles : h \notin X => filters'[h] = filters[h]
            /\ own \subseteq BlockKeys /\ \A h \in X : \E l \in own : appBlocks[l] = h
        <4>1. \A h \in Handles : h # appBlocks[k] => filters'[h] = filters[h]
          BY <2>5, DeletedFacts DEF TypeInv, TypeOK
        <4> QED BY <3>1, <4>1
      <3>5. appBlocks'[<<e[1].path>>] = Nothing
        BY <3>1, <3>3
      <3> HIDE DEF k, own, X
      <3>6. \A l \in BlockKeys : appBlocks'[l] # Nothing =>
              appBlocks'[l] = appBlocks[l] /\ filters'[appBlocks[l]] = filters[appBlocks[l]]
        BY <3>3, <3>4, OthersKeep
      <3>7. ~ Removing /\ ~ Deciding
        BY <2>1 DEF SerialInv, OneAtWork, Removing, Deciding
      <3>8. BlocksHaveRules'
        BY <2>2, <3>2, <3>5, <3>6, <3>7, BlocksGoOn DEF AllowInv, BeingFreed
      <3> QED BY <2>1, <3>8 DEF AllowInv
    <2> QED BY <1>3, <2>4, <2>5 DEF PruneBlock
  <1>4. ASSUME Expire PROVE AllowInv'
    <2>1. UNCHANGED <<appBlocks, filters, ticker, ui>>
      BY <1>4 DEF Expire, kernel
    <2>2. \A j \in DOMAIN programRules : programRules[j].expires = "never"
      BY DEF SerialInv, Modest, Remembered, RulesIn
    <2>3. PICK i \in DOMAIN sessionRules :
            /\ sessionRules' = [sessionRules EXCEPT ![i].expires = "due"]
            /\ UNCHANGED programRules
      BY <1>4, <2>2 DEF Expire
    <2> DEFINE s == [sessionRules EXCEPT ![i].expires = "due"]
               r == [sessionRules[i] EXCEPT !.expires = "due"]
    <2>4. /\ r \in RulesIn(s)
          /\ \A o \in RulesIn(sessionRules) : o \in RulesIn(s) \/ o = sessionRules[i]
          /\ r.path = sessionRules[i].path /\ r.decision = sessionRules[i].decision
          /\ r.proto = sessionRules[i].proto /\ r.target = sessionRules[i].target
      BY ExpiringIn, RuleTypes
    <2>5. sessionRules' = s
      BY <2>3
    <2> HIDE DEF s, r
    <2>6. FilterFor(r) = FilterFor(sessionRules[i])
      BY <2>4 DEF FilterFor
    <2>7. \A o \in Session : \E n \in Session' :
            n.decision = o.decision /\ n.path = o.path /\ FilterFor(n) = FilterFor(o)
      BY <2>4, <2>5, <2>6 DEF Session
    <2>8. Remembered' = Remembered /\ Deciding' = Deciding /\ \A k : BeingFreed(k)' = BeingFreed(k)
      BY <2>1, <2>3 DEF Remembered, Deciding, Removing, BeingFreed
    <2>9. BlocksHaveRules'
      BY <2>1, <2>7, <2>8, BlocksGoOn DEF AllowInv
    <2> QED BY <2>3, <2>9 DEF AllowInv
  <1> QED BY <1>1, <1>2, <1>3, <1>4 DEF TickerStep

\* Every step keeps AllowInv.
LEMMA StepAllow ==
  ASSUME TypeInv, RecordsInv, SerialInv, AllowInv, RulesAnswered,
         schedule.serial, Undoing(schedule), [Next]_vars
  PROVE  AllowInv'
  <1>1. CASE UNCHANGED vars
    <2>1. UNCHANGED <<programRules, sessionRules, appBlocks, filters, ticker, ui, answered>>
      BY <1>1 DEF vars
    <2> QED BY <2>1 DEF AllowInv, BlocksHaveRules, StandsFor, Deciding, Removing, BeingFreed,
              AnsweredAsOne, Remembered, Session
  <1>2. CASE Next
    BY <1>2, ScheduleStays, WorkerAllow, CommandAllow, UiAllow, TickerAllow DEF Next
  <1> QED BY <1>1, <1>2

\* When all is quiet, the block that covers a connection stands for a rule that
\* applies to it, and no rule that allows it can come before that one.
LEMMA AllowedConnect ==
  ASSUME TypeInv, RecordsInv, SerialInv, AllowInv, RulesAnswered
  PROVE  AllowedConnectsSerially
  <1> SUFFICES ASSUME AllIdle, NoneDue, NEW p \in Paths, NEW s \in schedule.seen,
                      NEW t \in Targets \cup {Nothing}, NEW h \in Handles \ refused,
                      AnsweredAsOne(p), RuleSays(p, s, t, "allow"), Covers(filters[h], p, s, t)
               PROVE  BelongsToPrompt(h)
    BY DEF AllowedConnectsSerially
  <1> DEFINE a == Find(p, s, t)
  <1>1. /\ a \in Remembered \cup Session /\ Matches(a, p, s, t) /\ a.decision = "allow"
        /\ \A o \in Session : Matches(o, p, s, t) => a \in Session
    BY FindFinds DEF RuleSays
  <1> HIDE DEF a
  <1>2. filters[h] # Nothing /\ filters[h].app = IdOf[p]
        /\ filters[h].proto \in {"all", s} /\ filters[h].target \in {"any", t}
    BY DEF Covers
  <1>3. Referenced(h)
    BY <1>2 DEF SerialInv, AllReferenced
  <1>4. \A w \in Observers : worker[w].handle # h
    BY AllIdleMeans, QuarantineAssumption
  <1>5. ASSUME NEW k \in BlockKeys, appBlocks[k] = h PROVE FALSE
    <2>0. AnsweredAsOne(k[1])
      <3>1. appBlocks[k] # Nothing
        BY <1>5, QuarantineAssumption
      <3>2. IdOf[k[1]] = IdOf[p]
        BY <1>2, <1>5, <3>1 DEF RecordsInv, RecordsLive
      <3> QED BY <3>2 DEF AnsweredAsOne, SameApp
    <2>1. PICK r \in Remembered \cup Session : StandsFor(r, k)
      <3>1. ~ Deciding /\ ~ BeingFreed(k) /\ ticker.expired = {}
        BY AllIdleMeans DEF BeingFreed
      <3>2. appBlocks[k] # Nothing
        BY <1>5, QuarantineAssumption
      <3> QED BY <2>0, <3>1, <3>2 DEF AllowInv, BlocksHaveRules
    <2>2. r \in Rule /\ r.target = "any" /\ r.decision = "quarantine" /\ filters[h] = FilterFor(r)
      BY <1>5, <2>1, RuleTypes DEF StandsFor, SerialInv, Modest
    <2>3. r.path \in Paths /\ SameApp(r.path, p) /\ r.proto \in {"all", s}
      BY <1>2, <2>2, RuleTypes DEF FilterFor, SameApp
    <2>4. a.path = r.path
      <3>1. SameApp(a.path, p)
        BY <1>1 DEF Matches
      <3>2. a.path \in answered /\ r.path \in answered
        BY <1>1, <2>1 DEF RulesAnswered
      <3> QED BY <2>3, <3>1, <3>2 DEF AnsweredAsOne
    <2>5. r.expires # "due"
      <3>1. \A i \in DOMAIN programRules : programRules[i].expires # "due"
        BY Zenon DEF NoneDue, Due
      <3>2. \A i \in DOMAIN sessionRules : sessionRules[i].expires # "due"
        BY Zenon DEF NoneDue, Due
      <3> QED BY <3>1, <3>2 DEF Remembered, Session, RulesIn
    <2>6. Matches(r, p, s, t)
      BY <2>2, <2>3, <2>5 DEF Matches
    <2>7. a # r
      BY <1>1, <2>2
    <2>8. r \in Quarantines(Remembered) \/ r \in Session
      BY <2>1, <2>2 DEF Quarantines
    <2>9. CASE r \in Session
      <3>1. a \in Session
        BY <1>1, <2>6, <2>9
      <3> QED BY <2>4, <2>7, <2>9, <3>1 DEF SerialInv, RulesApart, Apart, Session, RulesIn
    <2>10. CASE r \in Quarantines(Remembered)
      <3>1. a \in Remembered
        BY <1>1, <2>4, <2>10 DEF SerialInv, RulesApart
      <3> QED BY <2>2, <2>4, <2>7, <2>10, <3>1 DEF AllowInv, Alone, Remembered, RulesIn, Quarantines
    <2> QED BY <2>8, <2>9, <2>10
  <1> QED BY <1>3, <1>4, <1>5 DEF Referenced, BelongsToPrompt

\* While activities follow one another, as for NoFilterIsStray, and however the
\* observers spell the executables: once decide_program, remove_rule and
\* remove_program_rule are through, nothing that an earlier rule or decision left
\* behind blocks what a rule allows to an app whose prompts were all answered
\* under one spelling, but for filters that WFP refused to delete.
THEOREM AllowedConnectionsConnect ==
  ASSUME \A s \in Schedules : s.serial => Undoing(s)
  PROVE  Spec => []AllowedConnectsSerially
  <1> DEFINE Inv == /\ TypeInv /\ RecordsInv
                    /\ schedule.serial => SerialInv /\ AllowInv /\ RulesAnswered
  <1>1. Init => Inv
    BY InitTypes, InitRecords, InitSerial, InitAllow, InitAnswered
  <1>2. Inv /\ [Next]_vars => Inv'
    <2> SUFFICES ASSUME Inv, [Next]_vars PROVE Inv'
      OBVIOUS
    <2>1. schedule \in Schedules
      BY DEF TypeInv, TypeOK
    <2> QED BY <2>1, StepTypes, StepRecords, StepSerial, StepAllow, StepAnswered, ScheduleStays
  <1>3. Inv => AllowedConnectsSerially
    BY AllowedConnect DEF AllowedConnectsSerially
  <1> QED BY <1>1, <1>2, <1>3, PTL DEF Spec
=============================================================================
