-------------------------- MODULE RuleEngine_proofs --------------------------
(***************************************************************************)
(* Proofs about RuleEngine, for any finite set of rules and any width of   *)
(* an address: the lookup decides on the rule that is meant, and the       *)
(* conditions given to WFP are those the lookup tests.                     *)
(***************************************************************************)
EXTENDS RuleEngine, TLAPS, FiniteSetTheorems, WellFoundedInduction

-----------------------------------------------------------------------------
(* The recursion of find_rule_in. *)

\* Every nonempty set of naturals has a least element.
LEMMA LeastNat ==
  ASSUME NEW S, S \subseteq Nat, S # {}
  PROVE  \E x \in S : \A y \in S : x <= y
  <1> DEFINE R == {ss \in Nat \X Nat : ss[1] < ss[2]}
  <1>1. IsWellFoundedOn(R, Nat)
    BY NatLessThanWellFounded, Zenon DEF OpToRel
  <1>2. \E x \in S : \A y \in S : <<y, x>> \notin R
    <2> HIDE DEF R
    <2> QED BY <1>1, WFMin
  <1>3. PICK x \in S : \A y \in S : <<y, x>> \notin R
    BY <1>2
  <1>4. ASSUME NEW y \in S PROVE x <= y
    <2>1. x \in Nat /\ y \in Nat
      OBVIOUS
    <2>2. ~ (y < x)
      BY <1>3, <2>1
    <2> QED BY <2>1, <2>2
  <1> QED BY <1>4

\* One step of the recursion: any of the rules seen came last.
Merge(g, p, s, seen) ==
  IF seen = {} THEN {Nobody}
  ELSE UNION {{Round(r, best, p, s) : best \in g[seen \ {r}]} : r \in seen}

\* A function that goes through the sets of rules like this.
Unfolds(g, fit, p, s) == g = [seen \in SUBSET fit |-> Merge(g, p, s, seen)]

\* The rules it does not step over.
Fitting(rs, c, p, s) == {r \in rs : Fits(r, c, p, s)}

\* The sets of at most n of the rules.
Few(fit, n) == {seen \in SUBSET fit : Cardinality(seen) <= n}

\* A set of rules is smaller without one of them.
LEMMA FewerFacts ==
  ASSUME NEW fit, IsFiniteSet(fit), NEW n \in Nat
  PROVE  /\ Few(fit, Cardinality(fit)) = SUBSET fit /\ Cardinality(fit) \in Nat
         /\ \A seen \in Few(fit, 0) : seen = {}
         /\ \A seen \in Few(fit, n + 1) : \A r \in seen : seen \ {r} \in Few(fit, n)
         /\ Few(fit, n) \subseteq Few(fit, n + 1)
         /\ \A seen \in SUBSET fit : IsFiniteSet(seen) /\ Cardinality(seen) \in Nat
  <1>1. \A seen \in SUBSET fit :
          /\ IsFiniteSet(seen) /\ Cardinality(seen) \in Nat /\ Cardinality(seen) <= Cardinality(fit)
    BY FS_Subset, FS_CardinalityType
  <1>2. Cardinality(fit) \in Nat
    BY FS_CardinalityType
  <1>3. \A seen \in Few(fit, 0) : seen = {}
    BY <1>1, FS_EmptySet DEF Few
  <1>4. ASSUME NEW seen \in Few(fit, n + 1), NEW r \in seen PROVE seen \ {r} \in Few(fit, n)
    <2>1. Cardinality(seen \ {r}) = Cardinality(seen) - 1
      BY <1>1, FS_RemoveElement DEF Few
    <2> QED BY <1>1, <2>1 DEF Few
  <1> QED BY <1>1, <1>2, <1>3, <1>4 DEF Few

\* The recursive function of find_rule_in is defined on every set of rules.
LEMMA MergeExists ==
  ASSUME NEW fit, IsFiniteSet(fit), NEW p, NEW s
  PROVE  \E g : g = [seen \in SUBSET fit |-> Merge(g, p, s, seen)]
  <1> DEFINE On(few) == \E g : g = [seen \in few |-> Merge(g, p, s, seen)]
             Bad == {n \in Nat : ~ On(Few(fit, n))}
  <1>1. SUFFICES ASSUME Bad # {} PROVE FALSE
    <2>1. 0 \in Nat
      OBVIOUS
    <2>2. Few(fit, Cardinality(fit)) = SUBSET fit /\ Cardinality(fit) \in Nat
      BY <2>1, FewerFacts
    <2> HIDE DEF On
    <2>3. Bad = {} => On(SUBSET fit)
      BY <2>2
    <2> QED BY <2>3 DEF On
  <1>2. PICK m \in Bad : \A k \in Bad : m <= k
    <2> HIDE DEF Bad
    <2>1. Bad \subseteq Nat
      BY DEF Bad
    <2> QED BY <1>1, <2>1, LeastNat
  <1>3. m \in Nat /\ ~ On(Few(fit, m))
    OBVIOUS
  <1>4. m # 0
    <2> DEFINE g == [seen \in Few(fit, 0) |-> {Nobody}]
    <2>1. g = [seen \in Few(fit, 0) |-> Merge(g, p, s, seen)]
      BY FewerFacts DEF Merge
    <2>2. On(Few(fit, 0))
      BY <2>1
    <2> QED BY <1>3, <2>2
  <1>5. m - 1 \in Nat /\ m - 1 \notin Bad /\ m = (m - 1) + 1
    <2> HIDE DEF Bad
    <2> QED BY <1>2, <1>3, <1>4
  <1> DEFINE n == m - 1
  <1>6. PICK g : g = [seen \in Few(fit, n) |-> Merge(g, p, s, seen)]
    BY <1>5
  <1>7. /\ \A seen \in Few(fit, m) : \A r \in seen : seen \ {r} \in Few(fit, n)
        /\ Few(fit, n) \subseteq Few(fit, m)
    BY <1>5, FewerFacts
  <1> HIDE DEF n
  <1> DEFINE h == [seen \in Few(fit, m) |-> Merge(g, p, s, seen)]
  <1>8. \A seen \in Few(fit, n) : h[seen] = g[seen]
    BY <1>6, <1>7
  <1>9. ASSUME NEW seen \in Few(fit, m) PROVE h[seen] = Merge(h, p, s, seen)
    <2>1. h[seen] = Merge(g, p, s, seen)
      OBVIOUS
    <2>2. \A r \in seen : h[seen \ {r}] = g[seen \ {r}]
      BY <1>7, <1>8
    <2> HIDE DEF h
    <2> DEFINE U(f) == UNION {{Round(r, best, p, s) : best \in f[seen \ {r}]} : r \in seen}
    <2>3. \A f, x : x \in U(f) <=> \E r \in seen : \E best \in f[seen \ {r}] : x = Round(r, best, p, s)
      OBVIOUS
    <2>4. Merge(g, p, s, seen) = (IF seen = {} THEN {Nobody} ELSE U(g))
          /\ Merge(h, p, s, seen) = (IF seen = {} THEN {Nobody} ELSE U(h))
      BY DEF Merge
    <2> HIDE DEF U
    <2>5. \A x : x \in U(g) <=> x \in U(h)
      <3> SUFFICES ASSUME NEW x PROVE x \in U(g) <=> x \in U(h)
        OBVIOUS
      <3>1. x \in U(g) <=> \E r \in seen : \E best \in g[seen \ {r}] : x = Round(r, best, p, s)
        BY <2>3
      <3>2. x \in U(h) <=> \E r \in seen : \E best \in h[seen \ {r}] : x = Round(r, best, p, s)
        BY <2>3
      <3> QED BY <2>2, <3>1, <3>2
    <2>6. U(g) = U(h)
      BY <2>5
    <2>7. Merge(g, p, s, seen) = Merge(h, p, s, seen)
      BY <2>4, <2>6
    <2> QED BY <2>1, <2>7
  <1>10. h = [seen \in Few(fit, m) |-> Merge(h, p, s, seen)]
    BY <1>9
  <1> QED BY <1>3, <1>10

\* Found, one rule more at a time.
LEMMA FoundUnfolds ==
  ASSUME NEW rs, IsFiniteSet(rs), NEW c, NEW p, NEW s
  PROVE  \E g : /\ Unfolds(g, Fitting(rs, c, p, s), p, s)
                /\ Found(rs, c, p, s) = g[Fitting(rs, c, p, s)]
  <1> DEFINE fit == Fitting(rs, c, p, s)
             g == CHOOSE g : g = [seen \in SUBSET fit |-> Merge(g, p, s, seen)]
  <1>1. IsFiniteSet(fit)
    BY FS_Subset DEF Fitting
  <1>2. g = [seen \in SUBSET fit |-> Merge(g, p, s, seen)]
    <2> HIDE DEF fit
    <2> QED BY <1>1, MergeExists
  <1>3. Found(rs, c, p, s) = g[fit]
    BY DEF Found, Merge, Fitting
  <1> QED BY <1>2, <1>3 DEF Unfolds

-----------------------------------------------------------------------------
(* What find_rule_in decides on. *)

\* The rules of a set that none of them is better than.
Best(seen, p, s) == {r \in seen : \A q \in seen : ~ IsBetter(q, r, p, s)}

\* The measures of a rule.
LEMMA Measures ==
  ASSUME NEW r \in Rule, NEW p, NEW s
  PROVE  /\ Precedence(r, p, s) \in 0 .. 6 /\ TargetRank(r) \in 0 .. 1 /\ r.updated \in Nat
         /\ r # Nobody
  BY RuleAssumption DEF Precedence, TargetRank, Rule

\* No rule is better than itself, and better than better is better.
LEMMA BetterIsAnOrder ==
  ASSUME NEW p, NEW s, NEW q \in Rule, NEW r \in Rule, NEW t \in Rule
  PROVE  /\ ~ IsBetter(r, r, p, s)
         /\ IsBetter(q, r, p, s) /\ IsBetter(r, t, p, s) => IsBetter(q, t, p, s)
  BY Measures DEF IsBetter

\* Whatever the order in which the rules come, one that none is better than is
\* left, and any such may be.
LEMMA FoundIsBest ==
  ASSUME NEW rs \in SUBSET Rule, IsFiniteSet(rs), NEW c, NEW p, NEW s
  PROVE  Found(rs, c, p, s) =
           IF Fitting(rs, c, p, s) = {} THEN {Nobody} ELSE Best(Fitting(rs, c, p, s), p, s)
  <1> DEFINE fit == Fitting(rs, c, p, s)
  <1>1. PICK g : /\ g = [seen \in SUBSET fit |-> Merge(g, p, s, seen)]
                 /\ Found(rs, c, p, s) = g[fit]
    <2>1. PICK g : /\ Unfolds(g, Fitting(rs, c, p, s), p, s)
                   /\ Found(rs, c, p, s) = g[Fitting(rs, c, p, s)]
      BY FoundUnfolds
    <2> QED BY <2>1 DEF Unfolds
  <1>2. IsFiniteSet(fit) /\ fit \subseteq Rule
    BY FS_Subset DEF Fitting
  <1> HIDE DEF fit
  <1> DEFINE Right(seen) == g[seen] = IF seen = {} THEN {Nobody} ELSE Best(seen, p, s)
             Bad == {n \in Nat : \E seen \in SUBSET fit : Cardinality(seen) = n /\ ~ Right(seen)}
  <1>3. SUFFICES Bad = {}
    <2>1. Cardinality(fit) \in Nat /\ fit \in SUBSET fit
      BY <1>2, FewerFacts
    <2> QED BY <1>1, <2>1 DEF fit
  <1>4. SUFFICES ASSUME Bad # {} PROVE FALSE
    OBVIOUS
  <1>5. PICK m \in Bad : \A k \in Bad : m <= k
    <2> HIDE DEF Bad
    <2>1. Bad \subseteq Nat
      BY DEF Bad
    <2> QED BY <1>4, <2>1, LeastNat
  <1>6. PICK seen \in SUBSET fit : Cardinality(seen) = m /\ ~ Right(seen)
    BY <1>5
  <1>7. g[seen] = Merge(g, p, s, seen)
    BY <1>1
  <1>8. seen # {}
    BY <1>6, <1>7 DEF Merge
  <1>9. ASSUME NEW r \in seen PROVE Right(seen \ {r})
    <2>1. IsFiniteSet(seen) /\ m \in Nat
      BY <1>2, <1>6, FewerFacts
    <2>2. Cardinality(seen \ {r}) = m - 1 /\ IsFiniteSet(seen \ {r})
      BY <1>6, <2>1, FS_RemoveElement
    <2>3. Cardinality(seen \ {r}) \in Nat
      BY <2>2, FS_CardinalityType
    <2>4. m - 1 \notin Bad
      <3> HIDE DEF Bad
      <3> QED BY <1>5, <2>1, <2>2, <2>3
    <2>5. seen \ {r} \in SUBSET fit
      OBVIOUS
    <2> HIDE DEF Right
    <2> QED BY <2>2, <2>3, <2>4, <2>5
  <1>10. g[seen] = UNION {{Round(r, best, p, s) : best \in g[seen \ {r}]} : r \in seen}
    BY <1>7, <1>8 DEF Merge
  <1>11. \A x : x \in g[seen] <=> \E r \in seen : \E best \in g[seen \ {r}] : x = Round(r, best, p, s)
    BY <1>10
  <1>12. seen \subseteq Rule
    BY <1>2
  <1>13. ASSUME NEW x \in g[seen] PROVE x \in Best(seen, p, s)
    <2>1. PICK r \in seen : \E best \in g[seen \ {r}] : x = Round(r, best, p, s)
      BY <1>11
    <2>2. PICK best \in g[seen \ {r}] : x = Round(r, best, p, s)
      BY <2>1
    <2>3. CASE seen \ {r} = {}
      <3>1. best = Nobody
        BY <1>9, <2>2, <2>3
      <3>2. x = r /\ seen = {r}
        BY <2>2, <2>3, <3>1 DEF Round
      <3> QED BY <1>12, <3>2, BetterIsAnOrder DEF Best
    <2>4. CASE seen \ {r} # {}
      <3>1. best \in Best(seen \ {r}, p, s)
        BY <1>9, <2>2, <2>4
      <3>2. best \in seen /\ best # Nobody /\ \A q \in seen : q # r => ~ IsBetter(q, best, p, s)
        BY <1>12, <3>1, Measures DEF Best
      <3>3. CASE IsBetter(r, best, p, s)
        <4>1. x = r
          BY <2>2, <3>3 DEF Round
        <4>2. ASSUME NEW q \in seen PROVE ~ IsBetter(q, r, p, s)
          BY <1>12, <3>2, <3>3, BetterIsAnOrder
        <4> QED BY <4>1, <4>2 DEF Best
      <3>4. CASE ~ IsBetter(r, best, p, s)
        <4>1. x = best
          BY <2>2, <3>2, <3>4 DEF Round
        <4> QED BY <3>2, <3>4, <4>1 DEF Best
      <3> QED BY <3>3, <3>4
    <2> QED BY <2>3, <2>4
  <1>14. ASSUME NEW x \in Best(seen, p, s) PROVE x \in g[seen]
    <2>1. x \in seen /\ \A q \in seen : ~ IsBetter(q, x, p, s)
      BY DEF Best
    <2>2. CASE seen \ {x} = {}
      <3>1. g[seen \ {x}] = {Nobody}
        BY <1>9, <2>1, <2>2
      <3>2. x = Round(x, Nobody, p, s)
        BY DEF Round
      <3> QED BY <1>11, <2>1, <3>1, <3>2
    <2>3. CASE seen \ {x} # {}
      <3>1. PICK r \in seen : r # x
        BY <2>3
      <3>2. seen \ {r} # {}
        BY <2>1, <3>1
      <3>3. x \in Best(seen \ {r}, p, s)
        BY <2>1, <3>1 DEF Best
      <3>4. x \in g[seen \ {r}]
        BY <1>9, <3>2, <3>3
      <3>5. x = Round(r, x, p, s)
        BY <1>12, <2>1, Measures DEF Round
      <3> QED BY <1>11, <3>4, <3>5
    <2> QED BY <2>2, <2>3
  <1>15. g[seen] = Best(seen, p, s)
    BY <1>13, <1>14
  <1> QED BY <1>6, <1>8, <1>15

\* The rules of a class that come first in it.
Sharpest(class) ==
  LET narrow == {r \in class : IsSpecific(r.target)}
      sharp  == IF narrow # {} THEN narrow ELSE class
  IN {r \in sharp : \A q \in sharp : q.updated <= r.updated}

\* Where a class comes before the other rules, and its rules about one target
\* before the rest of it, the best rules are the sharpest of the class.
LEMMA SharpIsBest ==
  ASSUME NEW fit \in SUBSET Rule, NEW class \in SUBSET fit, class # {}, NEW p, NEW s,
         \A q \in class, r \in fit \ class : Precedence(q, p, s) < Precedence(r, p, s),
         \A q, r \in class : IsSpecific(q.target) /\ ~ IsSpecific(r.target) =>
                               Precedence(q, p, s) <= Precedence(r, p, s),
         \A q, r \in class : (IsSpecific(q.target) <=> IsSpecific(r.target)) =>
                               Precedence(q, p, s) = Precedence(r, p, s)
  PROVE  Best(fit, p, s) = Sharpest(class)
  <1> DEFINE narrow == {r \in class : IsSpecific(r.target)}
             sharp == IF narrow # {} THEN narrow ELSE class
  <1>1. \A r \in fit : Precedence(r, p, s) \in Int /\ r.updated \in Int
    BY Measures
  <1>2. \A q \in class, r \in fit \ class :
          IsBetter(q, r, p, s) /\ ~ IsBetter(r, q, p, s)
    BY <1>1 DEF IsBetter
  <1>3. \A q, r \in class : IsSpecific(q.target) /\ ~ IsSpecific(r.target) =>
          IsBetter(q, r, p, s) /\ ~ IsBetter(r, q, p, s)
    <2> SUFFICES ASSUME NEW q \in class, NEW r \in class, IsSpecific(q.target), ~ IsSpecific(r.target)
                 PROVE  IsBetter(q, r, p, s) /\ ~ IsBetter(r, q, p, s)
      OBVIOUS
    <2>1. TargetRank(q) = 0 /\ TargetRank(r) = 1
      BY DEF TargetRank
    <2>2. Precedence(q, p, s) <= Precedence(r, p, s)
      OBVIOUS
    <2>3. Precedence(q, p, s) \in Int /\ Precedence(r, p, s) \in Int
      BY <1>1
    <2> QED BY <2>1, <2>2, <2>3 DEF IsBetter
  <1>4. \A q, r \in class : (IsSpecific(q.target) <=> IsSpecific(r.target)) =>
          (IsBetter(q, r, p, s) <=> q.updated > r.updated)
    <2> SUFFICES ASSUME NEW q \in class, NEW r \in class, IsSpecific(q.target) <=> IsSpecific(r.target)
                 PROVE  IsBetter(q, r, p, s) <=> q.updated > r.updated
      OBVIOUS
    <2>1. TargetRank(q) = TargetRank(r) /\ TargetRank(r) \in Int
      BY DEF TargetRank
    <2>2. Precedence(q, p, s) = Precedence(r, p, s)
      OBVIOUS
    <2>3. Precedence(r, p, s) \in Int
      BY <1>1
    <2> QED BY <2>1, <2>2, <2>3 DEF IsBetter
  <1>5. ASSUME NEW r \in Best(fit, p, s) PROVE r \in sharp /\ \A q \in sharp : q.updated <= r.updated
    <2>1. r \in fit /\ \A q \in fit : ~ IsBetter(q, r, p, s)
      BY DEF Best
    <2>2. r \in class
      BY <1>2, <2>1
    <2>3. r \in sharp
      BY <1>3, <2>1, <2>2
    <2>4. ASSUME NEW q \in sharp PROVE q.updated <= r.updated
      <3>1. q \in class /\ (IsSpecific(q.target) <=> IsSpecific(r.target))
        BY <2>3
      <3>2. ~ (q.updated > r.updated)
        BY <1>4, <2>1, <2>2, <3>1
      <3> QED BY <1>1, <2>1, <3>1, <3>2
    <2> QED BY <2>3, <2>4
  <1>6. ASSUME NEW r \in sharp, \A q \in sharp : q.updated <= r.updated PROVE r \in Best(fit, p, s)
    <2>1. r \in class
      OBVIOUS
    <2>2. ASSUME NEW q \in fit PROVE ~ IsBetter(q, r, p, s)
      <3>1. CASE q \notin class
        BY <1>2, <2>1, <3>1
      <3>2. CASE q \in class /\ (IsSpecific(q.target) <=> IsSpecific(r.target))
        <4>1. q \in sharp
          BY <3>2
        <4>2. q.updated <= r.updated
          BY <1>6, <4>1
        <4> QED BY <1>1, <1>4, <2>1, <3>2, <4>2
      <3>3. CASE q \in class /\ ~ (IsSpecific(q.target) <=> IsSpecific(r.target))
        BY <1>3, <2>1, <3>3
      <3> QED BY <3>1, <3>2, <3>3
    <2> QED BY <2>1, <2>2 DEF Best
  <1> QED BY <1>5, <1>6 DEF Sharpest

\* In whatever order the rules come out of the hash map, find_rule_in decides on
\* one the rules are meant to give: by class, then by target, then by age.
THEOREM LookupIsIntended ==
  ASSUME NEW rs \in SUBSET Rule, IsFiniteSet(rs), NEW c, NEW p \in Profiles
  PROVE  Found(rs, c, p, FALSE) = Intended(rs, c, p)
  <1> PICK s : s = FALSE
    OBVIOUS
  <1>0. \A r : Precedence(r, p, s) =
          IF r.expires # "never" THEN 1
          ELSE IF r.profile = p THEN IF IsSpecific(r.target) THEN 2 ELSE 3
          ELSE IF r.profile = "global" THEN IF IsSpecific(r.target) THEN 4 ELSE 5
          ELSE IF IsSpecific(r.target) THEN 0 ELSE 6
    BY DEF Precedence
  <1> SUFFICES Found(rs, c, p, s) = Intended(rs, c, p)
    OBVIOUS
  <1> DEFINE about  == {r \in rs : Matches(r, c) /\ IsActive(r)}
             timed  == {r \in about : r.expires # "never"}
             mine   == {r \in about : r.profile = p}
             global == {r \in about : r.profile = "global"}
             legacy == {r \in about : ~ IsSpecific(r.target)}
             class  == CASE timed # {} -> timed
                         [] timed = {} /\ mine # {} -> mine
                         [] timed = {} /\ mine = {} /\ global # {} -> global
                         [] OTHER -> legacy
             fit    == Fitting(rs, c, p, s)
  <1>1. Intended(rs, c, p) = IF class = {} THEN {Nobody} ELSE Sharpest(class)
    BY DEF Intended, Sharpest
  <1>2. p # "global"
    BY RuleAssumption
  <1>3. fit = {r \in about : Precedence(r, p, s) > 0}
    BY DEF Fitting, Fits
  <1>4. fit \in SUBSET Rule
    BY <1>3
  <1> HIDE DEF fit
  <1>5. ASSUME NEW k, k \in SUBSET fit, k # {}, class = k,
               \A q \in k, r \in fit \ k : Precedence(q, p, s) < Precedence(r, p, s),
               \A q, r \in k : IsSpecific(q.target) /\ ~ IsSpecific(r.target) =>
                                 Precedence(q, p, s) <= Precedence(r, p, s),
               \A q, r \in k : (IsSpecific(q.target) <=> IsSpecific(r.target)) =>
                                 Precedence(q, p, s) = Precedence(r, p, s)
        PROVE  Found(rs, c, p, s) = Intended(rs, c, p)
    <2> HIDE DEF class
    <2>1. Best(fit, p, s) = Sharpest(k)
      BY <1>4, <1>5, SharpIsBest
    <2>2. Found(rs, c, p, s) = IF fit = {} THEN {Nobody} ELSE Best(fit, p, s)
      BY FoundIsBest DEF fit
    <2>3. fit # {} /\ class # {}
      BY <1>5
    <2> QED BY <1>1, <1>5, <2>1, <2>2, <2>3
  <1>6. CASE timed # {}
    <2>1. class = timed
      BY <1>6
    <2>2. timed \in SUBSET fit
      BY <1>3, <1>0
    <2>3. \A q \in timed : Precedence(q, p, s) = 1
      BY <1>0
    <2>4. \A r \in fit \ timed : Precedence(r, p, s) \in {2, 3, 4, 5, 6}
      BY <1>3, <1>0
    <2> HIDE DEF timed, class
    <2> QED BY <1>5, <1>6, <2>1, <2>2, <2>3, <2>4
  <1>7. CASE timed = {} /\ mine # {}
    <2>1. class = mine
      BY <1>7
    <2>2. \A r \in about : r.expires = "never"
      BY <1>7
    <2>3. \A q \in mine : Precedence(q, p, s) = IF IsSpecific(q.target) THEN 2 ELSE 3
      BY <2>2, <1>0
    <2>4. mine \in SUBSET fit
      BY <1>3, <2>3
    <2>5. \A r \in fit \ mine : Precedence(r, p, s) \in {4, 5, 6}
      BY <1>3, <2>2, <1>0
    <2>6. mine # {}
      BY <1>7
    <2> HIDE DEF mine, class
    <2> QED BY <1>5, <2>1, <2>3, <2>4, <2>5, <2>6
  <1>8. CASE timed = {} /\ mine = {} /\ global # {}
    <2>1. class = global
      BY <1>8
    <2>2. \A r \in about : r.expires = "never" /\ r.profile # p
      BY <1>8
    <2>3. \A q \in global : Precedence(q, p, s) = IF IsSpecific(q.target) THEN 4 ELSE 5
      BY <2>2, <1>0
    <2>4. global \in SUBSET fit
      BY <1>3, <2>3
    <2>5. \A r \in fit \ global : Precedence(r, p, s) = 6
      BY <1>3, <2>2, <1>0
    <2>6. global # {}
      BY <1>8
    <2> HIDE DEF global, class
    <2> QED BY <1>5, <2>1, <2>3, <2>4, <2>5, <2>6
  <1>9. CASE timed = {} /\ mine = {} /\ global = {}
    <2>1. class = legacy
      BY <1>9
    <2>2. \A r \in about : r.expires = "never" /\ r.profile # p /\ r.profile # "global"
      BY <1>9
    <2>3. \A q \in about : Precedence(q, p, s) = IF IsSpecific(q.target) THEN 0 ELSE 6
      BY <2>2, <1>0
    <2>4. legacy = fit /\ \A q \in fit : Precedence(q, p, s) = 6
      BY <1>3, <2>3
    <2>5. Found(rs, c, p, s) = IF fit = {} THEN {Nobody} ELSE Best(fit, p, s)
      BY FoundIsBest DEF fit
    <2> HIDE DEF legacy, class
    <2>6. CASE fit = {}
      BY <1>1, <2>1, <2>4, <2>5, <2>6
    <2>7. CASE fit # {}
      BY <1>5, <2>1, <2>4, <2>7
    <2> QED BY <2>6, <2>7
  <1> QED BY <1>6, <1>7, <1>8, <1>9

-----------------------------------------------------------------------------
(* The conditions given to WFP. *)

\* A power of two is a number above 0.
LEMMA TwoToThe == ASSUME NEW n \in Nat PROVE 2 ^ n \in Nat \ {0}
  <1> DEFINE upto == 1 .. n
  <1>1. IsFiniteSet(upto) /\ Cardinality(upto) = n
    BY FS_Interval
  <1> HIDE DEF upto
  <1>2. IsFiniteSet(SUBSET upto) /\ Cardinality(SUBSET upto) = 2 ^ n
    BY <1>1, FS_SUBSET
  <1>3. Cardinality(SUBSET upto) \in Nat
    BY <1>2, FS_CardinalityType
  <1>4. Cardinality(SUBSET upto) # 0
    BY <1>2, FS_EmptySet
  <1> QED BY <1>2, <1>3, <1>4

\* The part of an address under the mask determines its network and follows from
\* it, whatever the prefix: that of 0 takes in every address of the family.
LEMMA MaskIsNetwork ==
  ASSUME NEW a \in Address, NEW b \in Address, NEW prefix \in 0 .. Width,
         a.family = b.family
  PROVE  NetworkPart(a, prefix) = NetworkPart(b, prefix) <=> SameNetwork(a, b, prefix)
  <1>1. a.bits \in Nat /\ b.bits \in Nat /\ a.bits < 2 ^ Width /\ b.bits < 2 ^ Width
    BY RuleAssumption, TwoToThe DEF Address
  <1>2. CASE prefix = 0
    <2>1. Width - prefix = Width
      BY <1>2, RuleAssumption
    <2> DEFINE d == 2 ^ Width
    <2>2. d \in Nat \ {0}
      BY RuleAssumption, TwoToThe
    <2>3. \A x \in Nat : x < d => x \div d = 0
      <3> HIDE DEF d
      <3> QED BY <2>2
    <2>4. SameNetwork(a, b, prefix)
      BY <1>1, <2>1, <2>3 DEF SameNetwork
    <2>5. NetworkPart(a, prefix) = NetworkPart(b, prefix)
      BY <1>1, <1>2 DEF NetworkPart
    <2> QED BY <2>4, <2>5
  <1>3. CASE prefix # 0
    <2> DEFINE d == 2 ^ (Width - prefix)
    <2>1. d \in Nat \ {0}
      BY RuleAssumption, TwoToThe
    <2>2. NetworkPart(a, prefix) = a.bits - (a.bits % d) /\ NetworkPart(b, prefix) = b.bits - (b.bits % d)
      BY <1>3 DEF NetworkPart
    <2>3. SameNetwork(a, b, prefix) <=> a.bits \div d = b.bits \div d
      BY DEF SameNetwork
    <2> HIDE DEF d
    <2>4. \A x \in Nat : x - (x % d) = d * (x \div d) /\ x \div d \in Nat
      BY <2>1
    <2>5. \A x, y \in Nat : d * x = d * y => x = y
      BY <2>1
    <2>6. a.bits \div d \in Nat /\ b.bits \div d \in Nat
      BY <1>1, <2>4
    <2> QED BY <1>1, <2>2, <2>3, <2>4, <2>5, <2>6
  <1> QED BY <1>2, <1>3

\* The filters made of a plain rule stop the connections of its application that
\* the lookup takes the rule to be about, and no others
\* (add_identity_block_filter and target_matches).
LEMMA FiltersAreMatches ==
  ASSUME NEW r \in Rule, NEW c \in Conn, IsPlain(r), r.id = c.id
  PROVE  (\E layer \in LayersOf(r) : FilterMatches(r, layer, c)) <=> Matches(r, c)
  <1>1. /\ r.target \in Target /\ c.remote \in Address
        /\ r.target.port \in Ports \cup {AnyPort} /\ r.target.prefix \in 0 .. Width
        /\ c.remote.family \in Families
    BY DEF Rule, Conn, Target, Address
  <1>2. AppMatches(r, c) /\ DirectionMatches(r)
    BY DEF AppMatches, DirectionMatches, IsPlain
  <1>3. Matches(r, c) <=> ProtocolMatches(r, c) /\ TargetMatches(r.target, c)
    BY <1>2 DEF Matches
  <1>4. CASE r.target.kind \in {"none", "any"} /\ r.target.text = "empty"
    <2>1. LayersOf(r) = Families
      BY <1>4 DEF LayersOf, HasRemote
    <2> QED BY <1>1, <1>3, <1>4, <2>1 DEF FilterMatches, TargetMatches
  <1>5. CASE r.target.kind \in {"ip", "cidr"} /\ r.target.text = "plain"
    <2>1. r.target.addr \in Address /\ LayersOf(r) = {r.target.addr.family}
      BY <1>1, <1>5 DEF Target, LayersOf, HasRemote
    <2>2. (\E layer \in LayersOf(r) : FilterMatches(r, layer, c))
            <=> FilterMatches(r, r.target.addr.family, c)
      BY <2>1
    <2>3. CASE r.target.kind = "ip"
      BY <1>1, <1>3, <1>5, <2>1, <2>2, <2>3 DEF FilterMatches, TargetMatches
    <2>4. CASE r.target.kind = "cidr"
      <3>1. c.remote.family = r.target.addr.family =>
              (NetworkPart(c.remote, r.target.prefix) = NetworkPart(r.target.addr, r.target.prefix)
                 <=> SameNetwork(c.remote, r.target.addr, r.target.prefix))
        BY <1>1, <2>1, MaskIsNetwork
      <3>2. SameNetwork(c.remote, r.target.addr, r.target.prefix) =>
              c.remote.family = r.target.addr.family
        BY DEF SameNetwork
      <3>3. IsAddress(r.target)
        BY <1>5 DEF IsAddress
      <3> QED BY <1>3, <2>2, <2>4, <3>1, <3>2, <3>3 DEF FilterMatches, TargetMatches
    <2> QED BY <1>5, <2>3, <2>4
  <1> QED BY <1>4, <1>5 DEF IsPlain
=============================================================================
