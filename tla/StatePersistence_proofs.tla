----------------------- MODULE StatePersistence_proofs ----------------------
(***************************************************************************)
(* Proofs about StatePersistence: what the file holds of what is in memory *)
(* and of what the user was told.                                          *)
(***************************************************************************)
EXTENDS StatePersistence, TLAPS, SequenceTheorems, FiniteSetTheorems

-----------------------------------------------------------------------------
(* The inductive invariant. *)

Saves == {"must", "save"}
Whole == {"rules", "profiles", "notes"}   \* what an import replaces
Has(q, ops) == \E i \in DOMAIN q : q[i].op \in ops

\* What a thread may have left to do: only the UI thread changes more than the
\* notifications, all it changes is saved, and what an import replaces it
\* replaces before its save.
Shape(t, q) ==
  \A i \in DOMAIN q :
    /\ q[i].op \notin {"put", "drop", "profile"}
    /\ t # "ui" => q[i].op \in {"note", "save"}
    /\ q[i].op \in Changes => \E j \in DOMAIN q : j > i /\ q[j].op \in Saves
    /\ q[i].op \in Whole => \E j \in DOMAIN q : j > i /\ q[j].op = "must"
    /\ q[i].op \in Saves => \A j \in DOMAIN q : j > i => q[j].op \notin Whole
    /\ q[i].op = "gone" => \A j \in DOMAIN q : q[j].op \notin Whole
    /\ q[i].op \in {"kept", "gone"} => \A j \in DOMAIN q : j > i => q[j].op # "must"

Saving(t) == at[t] # "run"

ThreadsOK ==
  \A t \in Threads :
    /\ Shape(t, todo[t])
    /\ Saving(t) => todo[t] # <<>> /\ Next1(t).op \in Saves

\* Wherever profiles are kept there are some, and the active profile is among those
\* an import brings, or the one to fall back to.
ProfilesOK ==
  /\ mem.profiles # {}
  /\ file \in Content => file.profiles # {}
  /\ \A t \in Threads : copy[t].profiles # {}
  /\ \A i \in DOMAIN todo["ui"] : todo["ui"][i].op = "profiles" =>
       todo["ui"][i].arg # {} /\ mem.profile \in todo["ui"][i].arg \cup {Home}
  /\ ActiveKnown

\* While solo holds, one thread saves, into an empty file.
OneSaver ==
  solo =>
    /\ \A t, u \in Threads : Saving(t) /\ Saving(u) => t = u
    /\ \A t \in Threads : at[t] = "write" => file = Empty

\* What is not in the file is in the save under way, or yet to be saved.
AnotherSave(t) ==
  \E u \in Threads : \E i \in DOMAIN todo[u] : todo[u][i].op \in Saves /\ (u # t \/ i # 1)
NoSaves == \A t \in Threads : ~ Has(todo[t], Saves)
Followed ==
  /\ solo => \A t \in Threads : Saving(t) => copy[t] = mem \/ AnotherSave(t)
  /\ fileIs = "whole" /\ NoSaves => Load(file) = mem

\* A rule that is in the file and in any save under way, and one that is in none.
IsKept(r) ==
  /\ fileIs # "unsure" => r \in Load(file).rules
  /\ solo => \A t \in Threads : Saving(t) => r \in copy[t].rules
IsGone(r) ==
  /\ fileIs # "unsure" => r \notin Load(file).rules
  /\ solo => \A t \in Threads : Saving(t) => r \notin copy[t].rules

\* So are the rules of which the user was told ...
Lasts ==
  /\ \A r \in kept : r \in mem.rules /\ IsKept(r)
  /\ \A r \in gone : r \notin mem.rules /\ IsGone(r)

\* ... and those that a command has yet to tell of: as soon as it has saved ...
ToTell(op) == UNION {todo["ui"][i].arg : i \in {j \in DOMAIN todo["ui"] : todo["ui"][j].op = op}}
WillLast ==
  /\ \A r \in ToTell("gone") : r \notin mem.rules
  /\ ~ Has(todo["ui"], {"must"}) =>
       /\ \A r \in ToTell("kept") : r \in mem.rules => IsKept(r)
       /\ \A r \in ToTell("gone") : IsGone(r)

\* ... and, in its own save, those it is about to save.
Includes ==
  Saving("ui") =>
    /\ \A r \in ToTell("kept") : r \in mem.rules => r \in copy["ui"].rules
    /\ \A r \in ToTell("gone") : r \notin copy["ui"].rules

TypeInv == TypeOK /\ ThreadsOK /\ ProfilesOK
SaveInv == TypeInv /\ OneSaver /\ Followed /\ Lasts /\ WillLast /\ Includes
-----------------------------------------------------------------------------
(* Loading. *)

\* What normalize_state makes of a state from a file or an import.
LEMMA NormalFacts ==
  ASSUME NEW c \in Content
  PROVE  /\ Normal(c) \in Content
         /\ Normal(c).rules = c.rules
         /\ Normal(c).profiles # {}
         /\ Normal(c).profile \in Normal(c).profiles \cup {Home}
         /\ c.profiles # {} /\ c.profile \in c.profiles \cup {Home} => Normal(c) = c
  <1> DEFINE ps == IF c.profiles = {} THEN DefaultProfiles ELSE c.profiles
             p  == IF c.profile \in ps THEN c.profile ELSE Home
             n  == [rules |-> c.rules, profile |-> p, profiles |-> ps, notes |-> c.notes]
  <1>1. c = [rules |-> c.rules, profile |-> c.profile, profiles |-> c.profiles,
             notes |-> c.notes]
    BY DEF Content
  <1>2. /\ c.rules \subseteq Rules /\ c.profile \in Profiles
        /\ c.profiles \subseteq Profiles /\ c.notes \in Nat
    BY DEF Content
  <1>3. /\ Home \in DefaultProfiles /\ DefaultProfiles \subseteq Profiles
    BY PersistenceAssumption
  <1>4. ps \subseteq Profiles /\ ps # {} /\ p \in Profiles /\ p \in ps \cup {Home}
    BY <1>2, <1>3
  <1>5. Normal(c) = n
    <2>1. Normal(c) = [c EXCEPT !.profiles = ps, !.profile = p]
      BY DEF Normal
    <2> HIDE DEF ps, p
    <2> QED BY <2>1, <1>1
  <1>6. c.profiles # {} /\ c.profile \in c.profiles \cup {Home} => ps = c.profiles /\ p = c.profile
    OBVIOUS
  <1> HIDE DEF ps, p
  <1>7. n \in Content
    BY <1>2, <1>4 DEF Content
  <1> QED BY <1>1, <1>4, <1>5, <1>6, <1>7

\* What a start makes of a file.
LEMMA LoadFacts ==
  ASSUME NEW f \in Content \cup NoState, f \in Content => f.profiles # {}
  PROVE  /\ Load(f) \in Content
         /\ Load(f).profiles # {}
         /\ Load(f).profile \in Load(f).profiles \cup {Home}
         /\ f \in Content => Load(f).rules = f.rules
         /\ f \in Content /\ f.profile \in f.profiles \cup {Home} => Load(f) = f
  <1> DEFINE d == IF f \in NoState THEN DefaultState ELSE f
  <1>1. DefaultState \in Content /\ DefaultState.profiles # {}
    BY PersistenceAssumption DEF DefaultState, Content
  <1>2. f \in Content => f \notin NoState
    BY PersistenceAssumption
  <1>3. d \in Content /\ d.profiles # {} /\ (f \in Content => d = f)
    BY <1>1, <1>2
  <1>4. Load(f) = Normal(d)
    BY DEF Load
  <1> HIDE DEF d
  <1> QED BY <1>3, <1>4, NormalFacts

-----------------------------------------------------------------------------
(* Steps. *)

\* The steps that have a meaning, one by one.
LEMMA StepFacts ==
  ASSUME NEW s \in Steps
  PROVE  /\ s.op \in Changes \cup Saves \cup {"kept", "gone"}
         /\ s.op \in {"put", "drop", "rules", "kept", "gone"} => s.arg \subseteq Rules
         /\ s.op = "profile" => s.arg \in Profiles
         /\ s.op = "profiles" => s.arg \subseteq Profiles
         /\ s.op = "notes" => s.arg \in Nat
  BY DEF Steps, Changes, Saves

\* What each leaves in memory.
LEMMA EffectFacts ==
  ASSUME NEW s \in Steps, NEW m \in Content, s.op \in Changes
  PROVE  /\ Effect(s, m) \in Content
         /\ s.op = "put" => Effect(s, m).rules = m.rules \cup s.arg
         /\ s.op = "drop" => Effect(s, m).rules = m.rules \ s.arg
         /\ s.op \notin {"put", "drop", "rules"} => Effect(s, m).rules = m.rules
         /\ s.op = "profile" => Effect(s, m).profile = s.arg
         /\ s.op # "profile" => Effect(s, m).profile = m.profile
         /\ s.op = "profiles" => Effect(s, m).profiles = s.arg
         /\ s.op # "profiles" => Effect(s, m).profiles = m.profiles
  <1>1. m = [rules |-> m.rules, profile |-> m.profile, profiles |-> m.profiles, notes |-> m.notes]
    BY DEF Content
  <1>2. /\ m.rules \subseteq Rules /\ m.profile \in Profiles
        /\ m.profiles \subseteq Profiles /\ m.notes \in Nat
    BY DEF Content
  <1>3. CASE s.op = "put"
    <2>1. Effect(s, m) = [m EXCEPT !.rules = m.rules \cup s.arg]
      BY <1>3 DEF Effect
    <2> QED BY <1>1, <1>2, <1>3, <2>1, StepFacts DEF Content
  <1>4. CASE s.op = "drop"
    <2>1. Effect(s, m) = [m EXCEPT !.rules = m.rules \ s.arg]
      BY <1>4 DEF Effect
    <2> QED BY <1>1, <1>2, <1>4, <2>1, StepFacts DEF Content
  <1>5. CASE s.op = "rules"
    <2>1. Effect(s, m) = [m EXCEPT !.rules = s.arg]
      BY <1>5 DEF Effect
    <2> QED BY <1>1, <1>2, <1>5, <2>1, StepFacts DEF Content
  <1>6. CASE s.op = "profile"
    <2>1. Effect(s, m) = [m EXCEPT !.profile = s.arg]
      BY <1>6 DEF Effect
    <2> QED BY <1>1, <1>2, <1>6, <2>1, StepFacts DEF Content
  <1>7. CASE s.op = "profiles"
    <2>1. Effect(s, m) = [m EXCEPT !.profiles = s.arg]
      BY <1>7 DEF Effect
    <2> QED BY <1>1, <1>2, <1>7, <2>1, StepFacts DEF Content
  <1>8. CASE s.op = "notes"
    <2>1. Effect(s, m) = [m EXCEPT !.notes = s.arg]
      BY <1>8 DEF Effect
    <2> QED BY <1>1, <1>2, <1>8, <2>1, StepFacts DEF Content
  <1>9. CASE s.op = "note"
    <2>1. Effect(s, m) = [m EXCEPT !.notes = m.notes + 1]
      BY <1>9 DEF Effect
    <2> QED BY <1>1, <1>2, <1>9, <2>1 DEF Content
  <1> QED BY <1>3, <1>4, <1>5, <1>6, <1>7, <1>8, <1>9 DEF Changes

\* What is left after the first of a list of steps.
LEMMA TailFacts ==
  ASSUME NEW q \in Seq(Steps), q # <<>>
  PROVE  /\ Tail(q) \in Seq(Steps)
         /\ 1 \in DOMAIN q /\ Head(q) = q[1]
         /\ \A i \in DOMAIN Tail(q) : i + 1 \in DOMAIN q /\ Tail(q)[i] = q[i + 1] /\ i \in Nat /\ i >= 1
         /\ \A i \in DOMAIN q : i # 1 => i - 1 \in DOMAIN Tail(q) /\ Tail(q)[i - 1] = q[i]
         /\ \A i \in DOMAIN q : i \in Nat /\ i >= 1
  <1>1. /\ Len(q) \in Nat /\ Len(q) # 0 /\ DOMAIN q = 1 .. Len(q)
        /\ Tail(q) \in Seq(Steps) /\ Len(Tail(q)) = Len(q) - 1
        /\ DOMAIN Tail(q) = 1 .. Len(Tail(q))
        /\ \A i \in 1 .. Len(q) - 1 : Tail(q)[i] = q[i + 1]
        /\ Head(q) = q[1]
    BY HeadTailProperties, EmptySeq, LenProperties
  <1> HIDE DEF Steps
  <1>2. \A i \in DOMAIN q : i # 1 => i - 1 \in DOMAIN Tail(q) /\ Tail(q)[i - 1] = q[i]
    <2> SUFFICES ASSUME NEW i \in DOMAIN q, i # 1
                 PROVE  i - 1 \in DOMAIN Tail(q) /\ Tail(q)[i - 1] = q[i]
      OBVIOUS
    <2>1. i - 1 \in 1 .. Len(q) - 1 /\ (i - 1) + 1 = i
      BY <1>1
    <2> QED BY <1>1, <2>1
  <1> QED BY <1>1, <1>2

\* A list keeps its shape as its steps are taken.
LEMMA ShapeTail ==
  ASSUME NEW t, NEW q \in Seq(Steps), q # <<>>, Shape(t, q)
  PROVE  Shape(t, Tail(q))
  <1> DEFINE w == Tail(q)
  <1>1. \A i \in DOMAIN w : i + 1 \in DOMAIN q /\ w[i] = q[i + 1] /\ i \in Nat /\ i >= 1
    BY TailFacts
  <1>2. \A i \in DOMAIN q : i \in Nat /\ (i # 1 => i - 1 \in DOMAIN w /\ w[i - 1] = q[i])
    BY TailFacts
  <1> HIDE DEF w
  <1> SUFFICES ASSUME NEW i \in DOMAIN w
               PROVE  /\ w[i].op \notin {"put", "drop", "profile"}
                      /\ t # "ui" => w[i].op \in {"note", "save"}
                      /\ w[i].op \in Changes => \E j \in DOMAIN w : j > i /\ w[j].op \in Saves
                      /\ w[i].op \in Whole => \E j \in DOMAIN w : j > i /\ w[j].op = "must"
                      /\ w[i].op \in Saves => \A j \in DOMAIN w : j > i => w[j].op \notin Whole
                      /\ w[i].op = "gone" => \A j \in DOMAIN w : w[j].op \notin Whole
                      /\ w[i].op \in {"kept", "gone"} =>
                           \A j \in DOMAIN w : j > i => w[j].op # "must"
    BY DEF Shape, w
  <1>3. i + 1 \in DOMAIN q /\ w[i] = q[i + 1] /\ i \in Nat /\ i >= 1
    BY <1>1
  <1>4. /\ w[i].op \notin {"put", "drop", "profile"}
        /\ t # "ui" => w[i].op \in {"note", "save"}
        /\ w[i].op \in Changes => \E j \in DOMAIN q : j > i + 1 /\ q[j].op \in Saves
        /\ w[i].op \in Whole => \E j \in DOMAIN q : j > i + 1 /\ q[j].op = "must"
        /\ w[i].op \in Saves => \A j \in DOMAIN q : j > i + 1 => q[j].op \notin Whole
        /\ w[i].op = "gone" => \A j \in DOMAIN q : q[j].op \notin Whole
        /\ w[i].op \in {"kept", "gone"} => \A j \in DOMAIN q : j > i + 1 => q[j].op # "must"
    BY <1>3 DEF Shape
  <1>5. \A j \in DOMAIN q : j > i + 1 => j - 1 \in DOMAIN w /\ j - 1 > i /\ w[j - 1] = q[j]
    BY <1>2, <1>3
  <1>6. \A j \in DOMAIN w : j + 1 \in DOMAIN q /\ w[j] = q[j + 1] /\ (j > i => j + 1 > i + 1)
    BY <1>1, <1>3
  <1>7. w[i].op \in Changes => \E j \in DOMAIN w : j > i /\ w[j].op \in Saves
    BY <1>4, <1>5
  <1>8. w[i].op \in Whole => \E j \in DOMAIN w : j > i /\ w[j].op = "must"
    BY <1>4, <1>5
  <1>9. w[i].op \in Saves => \A j \in DOMAIN w : j > i => w[j].op \notin Whole
    BY <1>4, <1>6
  <1>10. w[i].op = "gone" => \A j \in DOMAIN w : w[j].op \notin Whole
    BY <1>4, <1>6
  <1>11. w[i].op \in {"kept", "gone"} => \A j \in DOMAIN w : j > i => w[j].op # "must"
    BY <1>4, <1>6
  <1> QED BY <1>4, <1>7, <1>8, <1>9, <1>10, <1>11

\* Nothing is left of nothing.
LEMMA ShapeEmpty ==
  ASSUME NEW t
  PROVE  Shape(t, <<>>) /\ (\A ops : ~ Has(<<>>, ops))
  BY DEF Shape, Has

-----------------------------------------------------------------------------
(* What is begun. *)

\* The first step of what a thread begins, and what follows it.
BeginsWell(t, first, rest) ==
  /\ t \in Threads /\ first \in Steps /\ rest \in Seq(Steps)
  /\ first.op \in {"put", "drop", "profile", "note"}
  /\ t # "ui" => first.op \in {"drop", "note"}
  /\ first.op = "profile" => first.arg \in mem.profiles \/ Has(rest, {"profiles"})
  /\ Shape(t, rest) /\ Has(rest, Saves)
  /\ Has(rest, {"kept", "gone"}) => Has(rest, {"must"})
  /\ \A i \in DOMAIN rest :
       /\ rest[i].op = "gone" => first.op = "drop" /\ rest[i].arg \subseteq first.arg
       /\ rest[i].op = "profiles" =>
            first.op = "profile" /\ first.arg \in rest[i].arg \cup {Home} /\ rest[i].arg # {}

\* The steps are what they are.
LEMMA StepsAre ==
  /\ \A r \in SUBSET Rules, op \in {"put", "drop", "rules", "kept", "gone"} :
       Step(op, r) \in Steps /\ Step(op, r).op = op /\ Step(op, r).arg = r
  /\ \A p \in Profiles : Step("profile", p) \in Steps /\ Step("profile", p).op = "profile"
                           /\ Step("profile", p).arg = p
  /\ \A ps \in SUBSET Profiles : Step("profiles", ps) \in Steps
                           /\ Step("profiles", ps).op = "profiles" /\ Step("profiles", ps).arg = ps
  /\ \A n \in Nat : Step("notes", n) \in Steps /\ Step("notes", n).op = "notes"
  /\ Note \in Steps /\ Note.op = "note"
  /\ Must \in Steps /\ Must.op = "must"
  /\ Save \in Steps /\ Save.op = "save"
  BY DEF Step, Steps, Note, Must, Save

\* A list that starts with a save its command waits for, goes on with
\* notifications, each of them saved, and ends with the answer, if any.
Stores(q, answers) ==
  /\ q \in Seq(Steps)
  /\ \A i \in DOMAIN q : q[i] \in {Must, Note, Save} \cup answers
  /\ 1 \in DOMAIN q /\ q[1] = Must
  /\ \A i \in DOMAIN q : q[i] = Must => i = 1
  /\ \A i \in DOMAIN q : q[i] = Note => i + 1 \in DOMAIN q /\ q[i + 1] = Save

\* So do the commands' lists.
LEMMA StoreStores ==
  ASSUME NEW answer \in Steps, answer.op \in {"kept", "gone"}, NEW push \in {Push, <<>>}
  PROVE  Stores(Store(answer, push), {answer}) /\ Stores(<<Must>> \o push, {})
  <1> DEFINE q == Store(answer, push)
             s == <<Must>> \o push
             m == Must
             n == Note
             v == Save
  <1>1. /\ m.op = "must" /\ n.op = "note" /\ v.op = "save"
        /\ m \in Steps /\ n \in Steps /\ v \in Steps
    BY StepsAre
  <1>2. answer # n /\ m # n /\ v # n /\ answer # m /\ v # m
    BY <1>1
  <1>3. q = (<<m>> \o push) \o <<answer>> /\ s = <<m>> \o push
    BY DEF Store
  <1>4. Push = <<n, v>>
    BY DEF Push
  <1> HIDE DEF q, s, m, n, v
  <1> DEFINE S == {m, n, v, answer}
             one == <<m>>
             last == <<answer>>
  <1>5. /\ one \in Seq(S) /\ Len(one) = 1 /\ one[1] = m
        /\ last \in Seq(S) /\ Len(last) = 1 /\ last[1] = answer
    OBVIOUS
  <1>6. push \in Seq(S) /\ Len(push) \in Nat
    <2>1. <<>> \in Seq(S) /\ <<n, v>> \in Seq(S)
      OBVIOUS
    <2> QED BY <1>4, <2>1, LenProperties
  <1>7. S \subseteq Steps
    BY <1>1
  <1> HIDE DEF S, one, last
  <1>8. /\ s \in Seq(S) /\ Len(s) = 1 + Len(push)
        /\ \A i \in 1 .. 1 + Len(push) : s[i] = IF i <= 1 THEN one[i] ELSE push[i - 1]
    <2>1. s = one \o push
      BY <1>3 DEF one
    <2>2. /\ s \in Seq(S) /\ Len(s) = Len(one) + Len(push)
          /\ \A i \in 1 .. Len(one) + Len(push) :
               s[i] = IF i <= Len(one) THEN one[i] ELSE push[i - Len(one)]
      BY <1>5, <1>6, <2>1, ConcatProperties
    <2> QED BY <1>5, <2>2
  <1>9. /\ q \in Seq(S) /\ Len(q) = 2 + Len(push)
        /\ \A i \in 1 .. 2 + Len(push) : q[i] = IF i <= 1 + Len(push) THEN s[i] ELSE answer
    <2>1. q = s \o last
      BY <1>3 DEF last
    <2>2. /\ q \in Seq(S) /\ Len(q) = Len(s) + Len(last)
          /\ \A i \in 1 .. Len(s) + Len(last) : q[i] = IF i <= Len(s) THEN s[i] ELSE last[i - Len(s)]
      BY <1>5, <1>8, <2>1, ConcatProperties
    <2>3. \A i \in 1 .. 2 + Len(push) : ~ (i <= 1 + Len(push)) => i - (1 + Len(push)) = 1
      BY <1>6
    <2> QED BY <1>5, <1>6, <1>8, <2>2, <2>3
  <1>10. DOMAIN q = 1 .. 2 + Len(push) /\ DOMAIN s = 1 .. 1 + Len(push)
    BY <1>8, <1>9, LenProperties
  <1>11. CASE push = Push
    <2>1. Len(push) = 2 /\ push[1] = n /\ push[2] = v
      BY <1>4, <1>11
    <2>2. /\ DOMAIN s = 1 .. 3 /\ s[1] = m /\ s[2] = n /\ s[3] = v
          /\ DOMAIN q = 1 .. 4 /\ q[1] = m /\ q[2] = n /\ q[3] = v /\ q[4] = answer
      BY <1>5, <1>8, <1>9, <1>10, <2>1
    <2>3. /\ \A i \in DOMAIN s : s[i] \in {m, n, v} /\ (s[i] = n => i = 2) /\ (s[i] = m => i = 1)
          /\ \A i \in DOMAIN q : q[i] \in {m, n, v, answer} /\ (q[i] = n => i = 2) /\ (q[i] = m => i = 1)
          /\ 2 + 1 \in DOMAIN s /\ 2 + 1 \in DOMAIN q /\ s[2 + 1] = v /\ q[2 + 1] = v
      BY <1>2, <2>2
    <2>4. s \in Seq(Steps) /\ q \in Seq(Steps)
      BY <1>8, <1>9, <1>7
    <2>5. Stores(q, {answer})
      BY <2>2, <2>3, <2>4 DEF Stores, m, n, v
    <2>6. Stores(s, {})
      BY <2>2, <2>3, <2>4 DEF Stores, m, n, v
    <2> QED BY <2>5, <2>6 DEF q, s
  <1>12. CASE push = <<>>
    <2>1. Len(push) = 0
      BY <1>12
    <2>2. /\ DOMAIN s = 1 .. 1 /\ s[1] = m
          /\ DOMAIN q = 1 .. 2 /\ q[1] = m /\ q[2] = answer
      BY <1>5, <1>8, <1>9, <1>10, <2>1
    <2>3. /\ \A i \in DOMAIN s : s[i] \in {m, n, v} /\ s[i] # n /\ (s[i] = m => i = 1)
          /\ \A i \in DOMAIN q : q[i] \in {m, n, v, answer} /\ q[i] # n /\ (q[i] = m => i = 1)
      BY <1>2, <2>2
    <2>4. s \in Seq(Steps) /\ q \in Seq(Steps)
      BY <1>8, <1>9, <1>7
    <2>5. Stores(q, {answer})
      BY <2>2, <2>3, <2>4 DEF Stores, m, n, v
    <2>6. Stores(s, {})
      BY <2>2, <2>3, <2>4 DEF Stores, m, n, v
    <2> QED BY <2>5, <2>6 DEF q, s
  <1>13. push = Push \/ push = <<>>
    OBVIOUS
  <1> QED BY <1>11, <1>12, <1>13

\* A list with an answer has a shape the UI thread may have left to do.
LEMMA StoresShape ==
  ASSUME NEW q, NEW answers \in SUBSET Steps, Stores(q, answers),
         \A a \in answers : a.op \in {"kept", "gone"}
  PROVE  /\ q \in Seq(Steps) /\ Shape("ui", q)
         /\ Has(q, Saves) /\ Has(q, {"must"})
         /\ \A i \in DOMAIN q : q[i] \in answers \/ q[i].op \in {"must", "note", "save"}
         /\ \A i \in DOMAIN q : i \in Nat /\ q[i].op \notin Whole
         /\ \A i \in DOMAIN q : q[i].op = "must" => i = 1
  <1> DEFINE S == {Must, Note, Save} \cup answers
  <1>1. /\ q \in Seq(Steps) /\ 1 \in DOMAIN q /\ q[1] = Must
        /\ \A i \in DOMAIN q : q[i] \in S
        /\ \A i \in DOMAIN q : q[i] = Must => i = 1
        /\ \A i \in DOMAIN q : q[i] = Note => i + 1 \in DOMAIN q /\ q[i + 1] = Save
    BY DEF Stores
  <1>2. Must.op = "must" /\ Note.op = "note" /\ Save.op = "save" /\ S \subseteq Steps
    BY StepsAre
  <1> HIDE DEF S
  <1>3. DOMAIN q \subseteq Nat /\ (\A i \in DOMAIN q : q[i] \in S)
    BY <1>1, LenProperties
  <1>4. \A i \in DOMAIN q : q[i] \in answers \/ q[i] \in {Must, Note, Save}
    BY <1>3 DEF S
  <1>6. Has(q, Saves) /\ Has(q, {"must"})
    BY <1>1, <1>2 DEF Has, Saves
  <1>7. \A i \in DOMAIN q : i \in Nat /\ q[i].op \in {"must", "note", "save", "kept", "gone"}
    BY <1>2, <1>3, <1>4
  <1>8. \A i \in DOMAIN q : q[i].op = "note" => \E j \in DOMAIN q : j > i /\ q[j].op \in Saves
    <2> SUFFICES ASSUME NEW i \in DOMAIN q, q[i].op = "note"
                 PROVE  \E j \in DOMAIN q : j > i /\ q[j].op \in Saves
      OBVIOUS
    <2>1. q[i] = Note
      BY <1>2, <1>4
    <2>2. i + 1 \in DOMAIN q /\ q[i + 1].op \in Saves /\ i + 1 > i
      BY <1>1, <1>2, <1>3, <2>1 DEF Saves
    <2> QED BY <2>2
  <1>5. \A i \in DOMAIN q : q[i].op = "must" => i = 1
    <2> SUFFICES ASSUME NEW i \in DOMAIN q, q[i].op = "must" PROVE i = 1
      OBVIOUS
    <2>1. q[i] = Must
      BY <1>2, <1>4
    <2> QED BY <1>1, <2>1
  <1>11. \A i, j \in DOMAIN q : j > i => q[j].op # "must"
    <2> SUFFICES ASSUME NEW i \in DOMAIN q, NEW j \in DOMAIN q, j > i PROVE j # 1
      BY <1>5
    <2>1. i \in Nat /\ i >= 1
      BY <1>1, LenProperties
    <2> QED BY <2>1
  <1>9. Shape("ui", q)
    BY <1>7, <1>8, <1>11 DEF Shape, Changes, Whole, Saves
  <1>10. \A i \in DOMAIN q : q[i] \in answers \/ q[i].op \in {"must", "note", "save"}
    BY <1>2, <1>4
  <1> QED BY <1>1, <1>5, <1>6, <1>7, <1>9, <1>10 DEF Whole

\* Lists of notifications and saves alone, ending in a save, are any thread's.
LEMMA NotesShape ==
  ASSUME NEW t, NEW p \in Seq({Note, Save})
  PROVE  /\ p \o <<Save>> \in Seq(Steps) /\ Shape(t, p \o <<Save>>)
         /\ Has(p \o <<Save>>, Saves)
         /\ \A i \in DOMAIN (p \o <<Save>>) : (p \o <<Save>>)[i].op \in {"note", "save"}
  <1> DEFINE S == {Note, Save}
             q == p \o <<Save>>
  <1>1. S \subseteq Steps /\ Save \in S /\ Save.op = "save" /\ (\A s \in S : s.op \in {"note", "save"})
    BY StepsAre
  <1>2. p \in Seq(S)
    OBVIOUS
  <1> HIDE DEF S
  <1>3. /\ q \in Seq(S) /\ Len(q) = Len(p) + 1 /\ q[Len(q)] = Save /\ Len(p) \in Nat
    <2> DEFINE one == <<Save>>
    <2>1. one \in Seq(S) /\ Len(one) = 1 /\ one[1] = Save
      BY <1>1
    <2> HIDE DEF one
    <2>2. /\ p \o one \in Seq(S) /\ Len(p \o one) = Len(p) + Len(one)
          /\ \A i \in 1 .. Len(p) + Len(one) :
               (p \o one)[i] = IF i <= Len(p) THEN p[i] ELSE one[i - Len(p)]
      BY <1>2, <2>1, ConcatProperties
    <2>3. Len(p) \in Nat
      BY <1>2, LenProperties
    <2>4. (p \o one)[Len(p) + 1] = Save
      BY <2>1, <2>2, <2>3
    <2> QED BY <2>1, <2>2, <2>3, <2>4 DEF one
  <1> HIDE DEF q
  <1>4. DOMAIN q = 1 .. Len(q) /\ Len(q) \in Nat /\ (\A i \in DOMAIN q : q[i] \in S)
    BY <1>3, LenProperties, ElementOfSeq
  <1>5. \A i \in DOMAIN q : q[i].op \in {"note", "save"}
    BY <1>1, <1>4
  <1>6. Len(q) \in DOMAIN q /\ q[Len(q)].op = "save"
    BY <1>1, <1>3, <1>4
  <1>7. \A i \in DOMAIN q : q[i].op = "note" => \E j \in DOMAIN q : j > i /\ q[j].op \in Saves
    <2> SUFFICES ASSUME NEW i \in DOMAIN q, q[i].op = "note"
                 PROVE  \E j \in DOMAIN q : j > i /\ q[j].op \in Saves
      OBVIOUS
    <2>1. i # Len(q)
      BY <1>6
    <2>2. Len(q) > i
      BY <1>4, <2>1
    <2> QED BY <1>6, <2>2 DEF Saves
  <1>8. Shape(t, q)
    BY <1>5, <1>7 DEF Shape, Changes, Whole, Saves
  <1>9. q \in Seq(Steps)
    BY <1>1, <1>3
  <1>10. Has(q, Saves)
    BY <1>6 DEF Has, Saves
  <1> QED BY <1>5, <1>8, <1>9, <1>10 DEF q

\* A command that stores something begins well.
LEMMA StoreBeginsWell ==
  ASSUME NEW first \in Steps, NEW q, NEW answers \in SUBSET Steps, Stores(q, answers),
         \A a \in answers : a.op = "kept" \/ (a.op = "gone" /\ first.op = "drop" /\ a.arg = first.arg),
         first.op \in {"put", "drop"} \/ (first.op = "profile" /\ first.arg \in mem.profiles)
  PROVE  BeginsWell("ui", first, q)
  <1>1. /\ q \in Seq(Steps) /\ Shape("ui", q)
        /\ Has(q, Saves) /\ Has(q, {"must"})
        /\ \A i \in DOMAIN q : q[i] \in answers \/ q[i].op \in {"must", "note", "save"}
    BY StoresShape
  <1>2. \A i \in DOMAIN q :
          /\ q[i].op = "gone" => first.op = "drop" /\ q[i].arg \subseteq first.arg
          /\ q[i].op # "profiles"
    BY <1>1
  <1> QED BY <1>1, <1>2 DEF BeginsWell, Threads

\* decide_program, upsert_rule and set_program_rule_decision.
LEMMA RememberBegins ==
  ASSUME NEW r \in Rules, Remember(r)
  PROVE  \E t, first, rest : Begin(t, first, rest) /\ BeginsWell(t, first, rest)
  <1> DEFINE first == Step("put", {r})
             answer == Step("kept", {r})
             answers == {answer}
  <1>1. /\ first \in Steps /\ first.op = "put"
        /\ answer \in Steps /\ answer.op = "kept"
    BY StepsAre
  <1>2. PICK push \in {Push, <<>>} : Begin("ui", first, Store(answer, push))
    BY DEF Remember
  <1> HIDE DEF first, answer
  <1>3. Stores(Store(answer, push), answers)
    BY <1>1, StoreStores
  <1>4. answers \in SUBSET Steps /\ \A a \in answers : a.op = "kept"
    BY <1>1
  <1> HIDE DEF answers
  <1>5. BeginsWell("ui", first, Store(answer, push))
    BY <1>1, <1>3, <1>4, StoreBeginsWell
  <1> QED BY <1>2, <1>5

\* remove_rule and remove_program_rule.
LEMMA RemoveBegins ==
  ASSUME NEW r \in Rules, RemoveRule(r) \/ RemoveProgramRule(r)
  PROVE  \E t, first, rest : Begin(t, first, rest) /\ BeginsWell(t, first, rest)
  <1> DEFINE first == Step("drop", {r})
             answer == Step("gone", {r})
             answers == {answer}
  <1>1. /\ first \in Steps /\ first.op = "drop" /\ first.arg = {r}
        /\ answer \in Steps /\ answer.op = "gone" /\ answer.arg = {r}
    BY StepsAre
  <1>2. PICK push \in {Push, <<>>} : Begin("ui", first, Store(answer, push))
    BY DEF RemoveRule, RemoveProgramRule
  <1> HIDE DEF first, answer
  <1>3. Stores(Store(answer, push), answers)
    BY <1>1, StoreStores
  <1>4. answers \in SUBSET Steps /\ \A a \in answers : a.op = "gone" /\ a.arg = first.arg
    BY <1>1
  <1> HIDE DEF answers
  <1>5. BeginsWell("ui", first, Store(answer, push))
    BY <1>1, <1>3, <1>4, StoreBeginsWell
  <1> QED BY <1>2, <1>5

\* set_active_profile, and what saves for the service: neither has an answer.
LEMMA PlainBegins ==
  ASSUME (\E p \in Profiles : SetActiveProfile(p)) \/ SaveForService
  PROVE  \E t, first, rest : Begin(t, first, rest) /\ BeginsWell(t, first, rest)
  <1> DEFINE nobody == {}
             some == Step("kept", {})
  <1>1. PICK first \in Steps, push \in {Push, <<>>} :
          /\ Begin("ui", first, <<Must>> \o push)
          /\ first.op = "put" \/ (first.op = "profile" /\ first.arg \in mem.profiles)
    BY StepsAre DEF SetActiveProfile, SaveForService
  <1>2. some \in Steps /\ some.op = "kept"
    BY StepsAre
  <1> HIDE DEF some
  <1>3. Stores(<<Must>> \o push, nobody)
    BY <1>2, StoreStores
  <1>4. nobody \in SUBSET Steps /\ \A a \in nobody : a.op = "kept"
    OBVIOUS
  <1> HIDE DEF nobody
  <1>5. BeginsWell("ui", first, <<Must>> \o push)
    BY <1>1, <1>3, <1>4, StoreBeginsWell
  <1> QED BY <1>1, <1>5

\* An import: what it replaces, then the save, then the answer.
LEMMA ImportBegins ==
  ASSUME NEW imported \in Imports, ImportState(imported)
  PROVE  \E t, first, rest : Begin(t, first, rest) /\ BeginsWell(t, first, rest)
  <1> DEFINE c == Normal(imported)
             first == Step("profile", c.profile)
             s1 == Step("rules", c.rules)
             s2 == Step("profiles", c.profiles)
             s3 == Step("notes", c.notes)
             answer == Step("kept", c.rules)
             answers == {answer}
             start == <<s1, s2, s3>>
             q == Store(answer, Push)
             rest == start \o q
  <1>1. /\ c \in Content /\ c.profiles # {} /\ c.profile \in c.profiles \cup {Home}
    BY PersistenceAssumption, NormalFacts
  <1> HIDE DEF c
  <1>2. c.rules \subseteq Rules /\ c.profile \in Profiles /\ c.profiles \subseteq Profiles /\ c.notes \in Nat
    BY <1>1 DEF Content
  <1>3. /\ first \in Steps /\ first.op = "profile" /\ first.arg = c.profile
        /\ s1 \in Steps /\ s1.op = "rules"
        /\ s2 \in Steps /\ s2.op = "profiles" /\ s2.arg = c.profiles
        /\ s3 \in Steps /\ s3.op = "notes"
        /\ answer \in Steps /\ answer.op = "kept"
    BY <1>2, StepsAre
  <1>4. Begin("ui", first, rest)
    BY DEF ImportState, c
  <1> HIDE DEF first, s1, s2, s3, answer
  <1>5. Stores(q, answers)
    BY <1>3, StoreStores
  <1>6. answers \in SUBSET Steps /\ \A a \in answers : a.op = "kept"
    BY <1>3
  <1> HIDE DEF answers, q
  <1>7. /\ q \in Seq(Steps) /\ Shape("ui", q)
        /\ Has(q, Saves) /\ Has(q, {"must"})
        /\ \A i \in DOMAIN q : q[i] \in answers \/ q[i].op \in {"must", "note", "save"}
        /\ \A i \in DOMAIN q : i \in Nat /\ q[i].op \notin Whole
        /\ \A i \in DOMAIN q : q[i].op = "must" => i = 1
    BY <1>5, <1>6, StoresShape
  <1>8. /\ start \in Seq(Steps) /\ Len(start) = 3
        /\ start[1] = s1 /\ start[2] = s2 /\ start[3] = s3
    BY <1>3
  <1> HIDE DEF start
  <1>9. /\ rest \in Seq(Steps) /\ DOMAIN rest = 1 .. 3 + Len(q) /\ DOMAIN q = 1 .. Len(q)
        /\ Len(q) \in Nat
        /\ rest[1] = s1 /\ rest[2] = s2 /\ rest[3] = s3
        /\ \A i \in DOMAIN q : 3 + i \in DOMAIN rest /\ rest[3 + i] = q[i]
        /\ \A i \in DOMAIN rest : i \in {1, 2, 3} \/ (i > 3 /\ i - 3 \in DOMAIN q /\ rest[i] = q[i - 3])
    <2>1. /\ rest \in Seq(Steps) /\ Len(rest) = 3 + Len(q)
          /\ \A i \in 1 .. 3 + Len(q) : rest[i] = IF i <= 3 THEN start[i] ELSE q[i - 3]
      <3>1. /\ rest \in Seq(Steps) /\ Len(rest) = Len(start) + Len(q)
            /\ \A i \in 1 .. Len(start) + Len(q) :
                 rest[i] = IF i <= Len(start) THEN start[i] ELSE q[i - Len(start)]
        BY <1>7, <1>8, ConcatProperties
      <3> HIDE DEF rest
      <3> QED BY <1>8, <3>1
    <2>2. Len(q) \in Nat /\ DOMAIN q = 1 .. Len(q)
      BY <1>7, LenProperties
    <2> HIDE DEF rest
    <2>3. DOMAIN rest = 1 .. 3 + Len(q)
      BY <2>1, LenProperties
    <2>4. \A i \in DOMAIN q : 3 + i \in DOMAIN rest /\ rest[3 + i] = q[i]
      <3> SUFFICES ASSUME NEW i \in DOMAIN q PROVE 3 + i \in DOMAIN rest /\ rest[3 + i] = q[i]
        OBVIOUS
      <3>1. 3 + i \in 1 .. 3 + Len(q) /\ ~ (3 + i <= 3) /\ 3 + i - 3 = i
        BY <2>2
      <3> QED BY <2>1, <2>3, <3>1
    <2>5. rest[1] = s1 /\ rest[2] = s2 /\ rest[3] = s3
      BY <1>8, <2>1, <2>2
    <2>6. \A i \in DOMAIN rest : i \in {1, 2, 3} \/ (i > 3 /\ i - 3 \in DOMAIN q /\ rest[i] = q[i - 3])
      <3> SUFFICES ASSUME NEW i \in DOMAIN rest, i \notin {1, 2, 3}
                   PROVE  i > 3 /\ i - 3 \in DOMAIN q /\ rest[i] = q[i - 3]
        OBVIOUS
      <3>1. i \in 1 .. 3 + Len(q) /\ i > 3 /\ i - 3 \in 1 .. Len(q)
        BY <2>2, <2>3
      <3> QED BY <2>1, <2>2, <3>1
    <2> QED BY <2>1, <2>2, <2>3, <2>4, <2>5, <2>6
  <1> HIDE DEF rest
  <1>10. \A ops : Has(q, ops) => Has(rest, ops)
    BY <1>9 DEF Has
  <1>11. PICK k \in DOMAIN q : q[k].op = "must"
    BY <1>7 DEF Has
  <1>12. 3 + k \in DOMAIN rest /\ rest[3 + k].op = "must" /\ k \in Nat /\ k >= 1
    BY <1>9, <1>11
  <1>13. Shape("ui", rest)
    <2> SUFFICES ASSUME NEW i \in DOMAIN rest
                 PROVE  /\ rest[i].op \notin {"put", "drop", "profile"}
                        /\ rest[i].op \in Changes => \E j \in DOMAIN rest : j > i /\ rest[j].op \in Saves
                        /\ rest[i].op \in Whole => \E j \in DOMAIN rest : j > i /\ rest[j].op = "must"
                        /\ rest[i].op \in Saves => \A j \in DOMAIN rest : j > i => rest[j].op \notin Whole
                        /\ rest[i].op = "gone" => \A j \in DOMAIN rest : rest[j].op \notin Whole
                        /\ rest[i].op \in {"kept", "gone"} =>
                             \A j \in DOMAIN rest : j > i => rest[j].op # "must"
      BY DEF Shape
    <2>1. CASE i \in {1, 2, 3}
      <3>1. rest[i].op \in {"rules", "profiles", "notes"}
        BY <1>3, <1>9, <2>1
      <3>2. 3 + k \in DOMAIN rest /\ 3 + k > i /\ rest[3 + k].op = "must"
        BY <1>12, <2>1
      <3> QED BY <3>1, <3>2 DEF Saves
    <2>2. CASE i \notin {1, 2, 3}
      <3> DEFINE h == i - 3
      <3>1. h \in DOMAIN q /\ rest[i] = q[h] /\ i > 3 /\ h \in Nat /\ i = 3 + h
        BY <1>7, <1>9, <2>2
      <3> HIDE DEF h
      <3>2. /\ q[h].op \notin {"put", "drop", "profile"} /\ q[h].op \notin Whole /\ q[h].op # "gone"
            /\ q[h].op \in Changes => \E j \in DOMAIN q : j > h /\ q[j].op \in Saves
        BY <1>6, <1>7, <3>1 DEF Shape
      <3>3. \A j \in DOMAIN q : j > h => 3 + j \in DOMAIN rest /\ 3 + j > i /\ rest[3 + j] = q[j]
        BY <1>7, <1>9, <3>1
      <3>4. q[h].op \in Changes => \E j \in DOMAIN rest : j > i /\ rest[j].op \in Saves
        BY <3>2, <3>3
      <3>5. \A j \in DOMAIN rest : j > i => rest[j].op \notin Whole
        <4> SUFFICES ASSUME NEW j \in DOMAIN rest, j > i PROVE rest[j].op \notin Whole
          OBVIOUS
        <4>1. j - 3 \in DOMAIN q /\ rest[j] = q[j - 3]
          BY <1>9, <3>1
        <4> QED BY <1>7, <4>1
      <3>6. \A j \in DOMAIN rest : j > i => rest[j].op # "must"
        <4> SUFFICES ASSUME NEW j \in DOMAIN rest, j > i PROVE rest[j].op # "must"
          OBVIOUS
        <4>1. j - 3 \in DOMAIN q /\ rest[j] = q[j - 3] /\ j - 3 > h
          BY <1>9, <3>1
        <4>2. h >= 1 /\ j - 3 # 1
          BY <1>9, <3>1, <4>1
        <4> QED BY <1>7, <4>1, <4>2
      <3> QED BY <3>1, <3>2, <3>4, <3>5, <3>6
    <2> QED BY <2>1, <2>2
  <1>14. \A i \in DOMAIN rest :
           /\ rest[i].op # "gone"
           /\ rest[i].op = "profiles" => rest[i].arg = c.profiles
    <2> SUFFICES ASSUME NEW i \in DOMAIN rest
                 PROVE  rest[i].op # "gone" /\ (rest[i].op = "profiles" => rest[i].arg = c.profiles)
      OBVIOUS
    <2>1. CASE i \in {1, 2, 3}
      BY <1>3, <1>9, <2>1
    <2>2. CASE i \notin {1, 2, 3}
      BY <1>6, <1>7, <1>9, <2>2
    <2> QED BY <2>1, <2>2
  <1>15. Has(rest, {"profiles"})
    <2>1. 2 \in DOMAIN rest
      BY <1>9
    <2> QED BY <1>3, <1>9, <2>1 DEF Has
  <1>16. BeginsWell("ui", first, rest)
    BY <1>1, <1>3, <1>7, <1>9, <1>10, <1>13, <1>14, <1>15 DEF BeginsWell, Threads
  <1> QED BY <1>4, <1>16

\* prune_expired_rules, on the ticker.
LEMMA PruneBegins ==
  ASSUME NEW due \in SUBSET Timed, NEW session \in BOOLEAN, Prune(due, session), mem \in Content
  PROVE  \E t, first, rest : Begin(t, first, rest) /\ BeginsWell(t, first, rest)
  <1> DEFINE n == Cardinality(due) + (IF session THEN 1 ELSE 0)
             first == Step("drop", due)
             p == Pushes(n)
  <1>1. due \subseteq Rules
    BY PersistenceAssumption
  <1>2. n \in Nat
    BY <1>1, PersistenceAssumption, FS_Subset, FS_CardinalityType
  <1>3. first \in Steps /\ first.op = "drop"
    BY <1>1, StepsAre
  <1>4. Begin("ticker", first, p \o <<Save>>)
    BY DEF Prune
  <1> HIDE DEF n, first
  <1>5. p \in Seq({Note, Save})
    <2>1. Len(Push) = 2 /\ Push[1] = Note /\ Push[2] = Save
      BY DEF Push
    <2>2. p = [i \in 1 .. n * 2 |-> Push[((i - 1) % 2) + 1]]
      BY <2>1 DEF Pushes
    <2>3. n * 2 \in Nat
      BY <1>2
    <2>4. \A i \in 1 .. n * 2 : Push[((i - 1) % 2) + 1] \in {Note, Save}
      <3> SUFFICES ASSUME NEW i \in 1 .. n * 2 PROVE Push[((i - 1) % 2) + 1] \in {Note, Save}
        OBVIOUS
      <3>1. ((i - 1) % 2) + 1 \in {1, 2}
        BY <2>3
      <3> QED BY <2>1, <3>1
    <2> HIDE DEF p
    <2>5. p \in [1 .. n * 2 -> {Note, Save}]
      BY <2>2, <2>4
    <2> QED BY <2>3, <2>5, SeqDef
  <1> HIDE DEF p
  <1>6. BeginsWell("ticker", first, p \o <<Save>>)
    BY <1>3, <1>5, NotesShape DEF BeginsWell, Threads, Has
  <1> QED BY <1>4, <1>6

\* A thread records a notification.
LEMMA NotifyBegins ==
  ASSUME NEW t \in Threads, Notify(t)
  PROVE  \E first, rest : Begin(t, first, rest) /\ BeginsWell(t, first, rest)
  <1> DEFINE none == <<>>
  <1>1. none \in Seq({Note, Save})
    OBVIOUS
  <1>2. none \o <<Save>> = <<Save>>
    <2>1. <<Save>> \in Seq({Save})
      OBVIOUS
    <2> QED BY <2>1, ConcatEmptySeq
  <1>3. Begin(t, Note, none \o <<Save>>)
    BY <1>2 DEF Notify
  <1> HIDE DEF none
  <1>4. BeginsWell(t, Note, none \o <<Save>>)
    BY <1>1, NotesShape, StepsAre DEF BeginsWell, Has
  <1> QED BY <1>3, <1>4

\* All that is begun is begun well.
LEMMA AllBeginWell ==
  ASSUME mem \in Content,
         \/ Command
         \/ \E due \in SUBSET Timed, session \in BOOLEAN : Prune(due, session)
         \/ \E t \in Threads : Notify(t)
  PROVE  \E t, first, rest : Begin(t, first, rest) /\ BeginsWell(t, first, rest)
  BY RememberBegins, RemoveBegins, PlainBegins, ImportBegins, PruneBegins, NotifyBegins
  DEF Command

-----------------------------------------------------------------------------
(* What a step leaves of a list. *)

\* What is still to do was to do; the head says what the rest must hold.
LEMMA TailHas ==
  ASSUME NEW t, NEW q \in Seq(Steps), q # <<>>, Shape(t, q)
  PROVE  /\ \A ops : Has(Tail(q), ops) => Has(q, ops)
         /\ \A ops : Has(q, ops) /\ Head(q).op \notin ops => Has(Tail(q), ops)
         /\ Head(q).op \in Changes => Has(Tail(q), Saves)
         /\ Head(q).op \in Whole => Has(Tail(q), {"must"}) /\ ~ Has(q, {"gone"})
         /\ Head(q).op \in Saves => ~ Has(q, Whole)
         /\ Head(q).op \in {"kept", "gone"} => ~ Has(q, {"must"})
  <1> DEFINE w == Tail(q)
  <1>1. /\ 1 \in DOMAIN q /\ Head(q) = q[1]
        /\ \A i \in DOMAIN w : i + 1 \in DOMAIN q /\ w[i] = q[i + 1]
        /\ \A i \in DOMAIN q : i # 1 => i - 1 \in DOMAIN w /\ w[i - 1] = q[i]
        /\ \A i \in DOMAIN q : i \in Nat /\ i >= 1
    BY TailFacts
  <1> HIDE DEF w
  <1>2. \A ops : Has(w, ops) => Has(q, ops)
    BY <1>1 DEF Has
  <1>3. \A ops : Has(q, ops) /\ q[1].op \notin ops => Has(w, ops)
    BY <1>1 DEF Has
  <1>4. \A ops : (\E i \in DOMAIN q : i > 1 /\ q[i].op \in ops) => Has(w, ops)
    BY <1>1 DEF Has
  <1>5. /\ q[1].op \in Changes => \E i \in DOMAIN q : i > 1 /\ q[i].op \in Saves
        /\ q[1].op \in Whole => \E i \in DOMAIN q : i > 1 /\ q[i].op \in {"must"}
    BY <1>1 DEF Shape
  <1>6. q[1].op \in Whole => ~ Has(q, {"gone"})
    BY <1>1 DEF Shape, Has
  <1>7. \A i \in DOMAIN q : i = 1 \/ i > 1
    BY <1>1
  <1>8. q[1].op \in Saves => ~ Has(q, Whole)
    BY <1>1, <1>7 DEF Shape, Has, Saves, Whole
  <1>9. q[1].op \in {"kept", "gone"} => ~ Has(q, {"must"})
    BY <1>1, <1>7 DEF Shape, Has
  <1> QED BY <1>1, <1>2, <1>3, <1>4, <1>5, <1>6, <1>8, <1>9 DEF w

\* The parts of the invariant that speak of one thread's list.
LEMMA Standing ==
  ASSUME TypeInv, NEW t \in Threads
  PROVE  /\ todo[t] \in Seq(Steps) /\ Shape(t, todo[t])
         /\ Saving(t) => todo[t] # <<>> /\ Next1(t).op \in Saves
         /\ "ui" \in Threads /\ mem \in Content /\ copy[t] \in Content
         /\ mem.rules \subseteq Rules
         /\ todo[t] # <<>> => Next1(t) \in Steps
  <1>1. todo[t] \in Seq(Steps)
    BY DEF TypeInv, TypeOK
  <1>2. todo[t] # <<>> => Head(todo[t]) \in Steps
    BY <1>1, HeadTailProperties
  <1> QED BY <1>1, <1>2 DEF TypeInv, TypeOK, ThreadsOK, Threads, Next1, Content

\* Of the file and the saves under way nothing changes.
LEMMA SavesStand ==
  ASSUME UNCHANGED <<file, at, copy, solo, fileIs>>
  PROVE  /\ \A r : IsKept(r)' <=> IsKept(r)
         /\ \A r : IsGone(r)' <=> IsGone(r)
         /\ \A t : Saving(t)' <=> Saving(t)
         /\ OneSaver => OneSaver'
  BY DEF IsKept, IsGone, Saving, OneSaver

\* Neither does what the UI thread will tell of, if its list stands.
LEMMA TellsStand ==
  ASSUME todo'["ui"] = todo["ui"]
  PROVE  /\ \A op : ToTell(op)' = ToTell(op)
         /\ Has(todo["ui"], {"must"})' <=> Has(todo["ui"], {"must"})
         /\ Importing' <=> Importing
  BY DEF ToTell, Has, Importing

\* A rest of its list tells of nothing else.
LEMMA TellsTail ==
  ASSUME TypeInv, todo["ui"] # <<>>, todo'["ui"] = Tail(todo["ui"])
  PROVE  \A op : ToTell(op)' \subseteq ToTell(op)
  <1>1. todo["ui"] \in Seq(Steps)
    BY Standing DEF Threads
  <1> DEFINE q == todo["ui"]
             w == Tail(q)
  <1>2. \A i \in DOMAIN w : i + 1 \in DOMAIN q /\ w[i] = q[i + 1]
    BY <1>1, TailFacts
  <1>3. \A op : ToTell(op) = UNION {q[i].arg : i \in {j \in DOMAIN q : q[j].op = op}}
    BY DEF ToTell
  <1>4. \A op : ToTell(op)' = UNION {w[i].arg : i \in {j \in DOMAIN w : w[j].op = op}}
    BY DEF ToTell
  <1> HIDE DEF q, w
  <1> SUFFICES ASSUME NEW op, NEW r \in ToTell(op)' PROVE r \in ToTell(op)
    OBVIOUS
  <1>5. PICK i \in DOMAIN w : w[i].op = op /\ r \in w[i].arg
    BY <1>4
  <1>6. i + 1 \in DOMAIN q /\ q[i + 1].op = op /\ r \in q[i + 1].arg
    BY <1>2, <1>5
  <1> QED BY <1>3, <1>6

\* What it tells of, by the steps of its list.
LEMMA TellsWhat ==
  ASSUME NEW op, NEW r
  PROVE  /\ r \in ToTell(op) <=> \E i \in DOMAIN todo["ui"] : todo["ui"][i].op = op /\ r \in todo["ui"][i].arg
         /\ ~ Has(todo["ui"], {op}) => ToTell(op) = {}
  BY DEF ToTell, Has

-----------------------------------------------------------------------------
(* A thread begins. *)

\* What it changes at once its list saves, and nothing it tells of yet.
LEMMA BeginKeeps ==
  ASSUME SaveInv, NEW t, NEW first, NEW rest, Begin(t, first, rest), BeginsWell(t, first, rest)
  PROVE  SaveInv'
  <1>1. /\ t \in Threads /\ first \in Steps /\ rest \in Seq(Steps)
        /\ first.op \in {"put", "drop", "profile", "note"}
        /\ t # "ui" => first.op \in {"drop", "note"}
        /\ first.op = "profile" => first.arg \in mem.profiles \/ Has(rest, {"profiles"})
        /\ Shape(t, rest) /\ Has(rest, Saves)
        /\ Has(rest, {"kept", "gone"}) => Has(rest, {"must"})
        /\ \A i \in DOMAIN rest :
             /\ rest[i].op = "gone" => first.op = "drop" /\ rest[i].arg \subseteq first.arg
             /\ rest[i].op = "profiles" =>
                  first.op = "profile" /\ first.arg \in rest[i].arg \cup {Home} /\ rest[i].arg # {}
    BY DEF BeginsWell
  <1>2. /\ todo[t] = <<>> /\ jobs < MaxJobs /\ jobs' = jobs + 1
        /\ mem' = Effect(first, mem)
        /\ kept' = kept \cap mem'.rules /\ gone' = gone \ mem'.rules
        /\ todo' = [todo EXCEPT ![t] = rest]
        /\ UNCHANGED <<file, at, copy, solo, fileIs, failures, restarts>>
    BY DEF Begin, Make
  <1>3. TypeInv /\ TypeOK /\ ThreadsOK /\ ProfilesOK /\ mem \in Content /\ "ui" \in Threads
    BY DEF SaveInv, TypeInv, TypeOK, Threads
  <1>4. /\ mem' \in Content
        /\ first.op = "drop" => mem'.rules = mem.rules \ first.arg
        /\ first.op \in {"drop", "note", "profile"} => mem'.rules \subseteq mem.rules
        /\ first.op = "profile" => mem'.profile = first.arg
        /\ first.op # "profile" => mem'.profile = mem.profile
        /\ mem'.profiles = mem.profiles
    BY <1>1, <1>2, <1>3, EffectFacts DEF Changes
  <1>5. /\ todo' \in [Threads -> Seq(Steps)] /\ todo'[t] = rest
        /\ \A u \in Threads : u # t => todo'[u] = todo[u]
    BY <1>1, <1>2, <1>3 DEF TypeOK
  <1>6. ~ Saving(t) /\ ~ Saving(t)'
    BY <1>1, <1>2, <1>3, Standing DEF Saving
  <1>7. TypeOK'
    <2>1. jobs' \in 0 .. MaxJobs
      BY <1>2, <1>3, PersistenceAssumption DEF TypeOK
    <2>2. kept' \subseteq Rules /\ gone' \subseteq Rules
      BY <1>2, <1>3 DEF TypeOK
    <2> QED BY <1>2, <1>3, <1>4, <1>5, <2>1, <2>2 DEF TypeOK
  <1>8. ThreadsOK'
    <2> SUFFICES ASSUME NEW u \in Threads
                 PROVE  /\ Shape(u, todo'[u])
                        /\ Saving(u)' => todo'[u] # <<>> /\ Head(todo'[u]).op \in Saves
      BY DEF ThreadsOK, Next1, Shape
    <2>1. CASE u = t
      BY <1>1, <1>5, <1>6, <2>1
    <2>2. CASE u # t
      BY <1>2, <1>3, <1>5, <2>2, Standing DEF Saving, Next1
    <2> QED BY <2>1, <2>2
  <1>9. ProfilesOK'
    <2>1. /\ mem'.profiles # {}
          /\ file' \in Content => file'.profiles # {}
          /\ \A u \in Threads : copy'[u].profiles # {}
      BY <1>2, <1>3, <1>4 DEF ProfilesOK
    <2>2. CASE t = "ui"
      <3>1. \A i \in DOMAIN rest : rest[i].op = "profiles" =>
              rest[i].arg # {} /\ mem'.profile \in rest[i].arg \cup {Home}
        BY <1>1, <1>4
      <3>2. ~ Importing
        BY <1>2, <2>2 DEF Importing
      <3>3. mem.profile \in mem.profiles \cup {Home}
        BY <1>3, <3>2 DEF ProfilesOK, ActiveKnown
      <3>4. Importing' <=> Has(rest, {"profiles"})
        BY <1>5, <2>2 DEF Importing, Has
      <3>5. ActiveKnown'
        BY <1>1, <1>4, <3>3, <3>4 DEF ActiveKnown
      <3> QED BY <1>5, <2>1, <2>2, <3>1, <3>5 DEF ProfilesOK
    <2>3. CASE t # "ui"
      <3>1. todo'["ui"] = todo["ui"] /\ mem'.profile = mem.profile
        BY <1>1, <1>3, <1>4, <1>5, <2>3
      <3>2. ActiveKnown'
        BY <1>3, <1>4, <3>1, TellsStand DEF ActiveKnown, ProfilesOK
      <3> QED BY <1>3, <2>1, <3>1, <3>2 DEF ProfilesOK
    <2> QED BY <2>2, <2>3
  <1>10. OneSaver'
    BY <1>2, SavesStand DEF SaveInv
  <1>11. Followed'
    <2>1. PICK i \in DOMAIN rest : rest[i].op \in Saves
      BY <1>1 DEF Has
    <2>2. ~ NoSaves'
      BY <1>1, <1>5, <2>1 DEF NoSaves, Has
    <2>3. ASSUME NEW u \in Threads, Saving(u)' PROVE AnotherSave(u)'
      <3>1. t # u
        BY <1>6, <2>3
      <3> QED BY <1>1, <1>5, <2>1, <3>1 DEF AnotherSave
    <2> QED BY <2>2, <2>3 DEF Followed
  <1>12. Lasts'
    BY <1>2, SavesStand DEF Lasts, SaveInv
  <1>13. CASE t = "ui"
    <2>1. \A op, r : r \in ToTell(op)' <=> \E i \in DOMAIN rest : rest[i].op = op /\ r \in rest[i].arg
      BY <1>5, <1>13, <1>3 DEF ToTell
    <2>2. \A r \in ToTell("gone")' : r \notin mem'.rules
      BY <1>1, <1>4, <2>1
    <2>3. Has(todo["ui"], {"must"})' <=> Has(rest, {"must"})
      BY <1>3, <1>5, <1>13
    <2>4. ~ Has(rest, {"must"}) => \A r : r \notin ToTell("kept")' /\ r \notin ToTell("gone")'
      BY <1>1, <2>1 DEF Has
    <2>5. WillLast'
      BY <2>2, <2>3, <2>4 DEF WillLast
    <2>6. Includes'
      BY <1>6, <1>13 DEF Includes
    <2> QED BY <1>7, <1>8, <1>9, <1>10, <1>11, <1>12, <2>5, <2>6 DEF SaveInv, TypeInv
  <1>14. CASE t # "ui"
    <2>1. todo'["ui"] = todo["ui"] /\ mem'.rules \subseteq mem.rules
      BY <1>1, <1>3, <1>4, <1>5, <1>14
    <2>2. WillLast'
      BY <1>2, <2>1, SavesStand, TellsStand DEF WillLast, SaveInv
    <2>3. Includes'
      BY <1>2, <2>1, SavesStand, TellsStand DEF Includes, SaveInv
    <2> QED BY <1>7, <1>8, <1>9, <1>10, <1>11, <1>12, <2>2, <2>3 DEF SaveInv, TypeInv
  <1> QED BY <1>13, <1>14

-----------------------------------------------------------------------------
(* A thread goes on. *)

\* A thread that is ready takes the head of its list, and the rest is left.
LEMMA DoneFacts ==
  ASSUME TypeInv, NEW t \in Threads, todo[t] # <<>>, Done(t)
  PROVE  /\ todo' \in [Threads -> Seq(Steps)] /\ todo'[t] = Tail(todo[t])
         /\ \A u \in Threads : u # t => todo'[u] = todo[u]
         /\ \A u \in Threads : Shape(u, todo'[u])
  <1>1. todo \in [Threads -> Seq(Steps)] /\ todo[t] \in Seq(Steps) /\ Tail(todo[t]) \in Seq(Steps)
    BY Standing, TailFacts DEF TypeInv, TypeOK
  <1>2. /\ todo' \in [Threads -> Seq(Steps)] /\ todo'[t] = Tail(todo[t])
        /\ \A u \in Threads : u # t => todo'[u] = todo[u]
    BY <1>1 DEF Done
  <1>3. ASSUME NEW u \in Threads PROVE Shape(u, todo'[u])
    <2>1. Shape(u, todo[u]) /\ todo[u] \in Seq(Steps)
      BY Standing
    <2> QED BY <1>2, <2>1, ShapeTail
  <1> QED BY <1>2, <1>3

\* Whatever becomes of its list, the saves another thread has left stand.
LEMMA OthersStand ==
  ASSUME TypeInv, NEW t \in Threads, \A u \in Threads : u # t => todo'[u] = todo[u]
  PROVE  /\ t # "ui" => todo'["ui"] = todo["ui"]
         /\ \A u \in Threads : u # t => (todo'[u] = todo[u] /\ Next1(u)' = Next1(u))
  BY DEF Threads, Next1

\* Another change: a notification, or one of the maps of an import.
LEMMA ChangeKeeps ==
  ASSUME SaveInv, NEW t \in Threads, Change(t)
  PROVE  SaveInv'
  <1> DEFINE s == Next1(t)
             q == todo[t]
  <1>1. /\ q # <<>> /\ s.op \in Changes /\ at[t] = "run"
        /\ mem' = Effect(s, mem) /\ kept' = kept \cap mem'.rules /\ gone' = gone \ mem'.rules
        /\ Done(t)
        /\ UNCHANGED <<file, at, copy, solo, fileIs, jobs, failures, restarts>>
    BY DEF Change, Ready, Make
  <1>2. /\ TypeInv /\ TypeOK /\ ThreadsOK /\ ProfilesOK /\ mem \in Content /\ "ui" \in Threads
        /\ q \in Seq(Steps) /\ Shape(t, q) /\ s \in Steps /\ s = Head(q)
    BY <1>1, Standing DEF SaveInv, TypeInv, TypeOK, Next1
  <1>3. /\ todo' \in [Threads -> Seq(Steps)] /\ todo'[t] = Tail(q)
        /\ \A u \in Threads : u # t => todo'[u] = todo[u]
        /\ \A u \in Threads : Shape(u, todo'[u])
    BY <1>1, <1>2, DoneFacts
  <1>4. s.op \notin {"put", "drop", "profile"} /\ (t # "ui" => s.op = "note")
    <2>1. 1 \in DOMAIN q /\ s = q[1]
      BY <1>1, <1>2, TailFacts
    <2> QED BY <1>1, <1>2, <2>1 DEF Shape, Changes
  <1>5. /\ mem' \in Content
        /\ s.op # "rules" => mem'.rules = mem.rules
        /\ mem'.profile = mem.profile
        /\ s.op = "profiles" => mem'.profiles = s.arg
        /\ s.op # "profiles" => mem'.profiles = mem.profiles
    BY <1>1, <1>2, <1>4, EffectFacts
  <1>6. /\ Has(Tail(q), Saves)
        /\ s.op \in Whole => Has(Tail(q), {"must"}) /\ ~ Has(q, {"gone"})
        /\ \A ops : Has(Tail(q), ops) => Has(q, ops)
        /\ \A ops : Has(q, ops) /\ s.op \notin ops => Has(Tail(q), ops)
    BY <1>1, <1>2, TailHas
  <1>7. ~ Saving(t) /\ ~ Saving(t)'
    BY <1>1 DEF Saving
  <1> HIDE DEF s, q
  <1>8. TypeOK'
    <2>1. kept' \subseteq Rules /\ gone' \subseteq Rules
      BY <1>1, <1>2 DEF TypeOK
    <2> QED BY <1>1, <1>2, <1>3, <1>5, <2>1 DEF TypeOK
  <1>9. ThreadsOK'
    <2> SUFFICES ASSUME NEW u \in Threads
                 PROVE  /\ Shape(u, todo'[u])
                        /\ Saving(u)' => todo'[u] # <<>> /\ Head(todo'[u]).op \in Saves
      BY DEF ThreadsOK, Next1, Shape
    <2>1. CASE u = t
      BY <1>3, <1>7, <2>1
    <2>2. CASE u # t
      BY <1>1, <1>2, <1>3, <2>2, Standing DEF Saving, Next1
    <2> QED BY <2>1, <2>2
  <1>10. ProfilesOK'
    <2>1. /\ file' \in Content => file'.profiles # {}
          /\ \A u \in Threads : copy'[u].profiles # {}
      BY <1>1, <1>2 DEF ProfilesOK
    <2>2. CASE t = "ui"
      <3>1. 1 \in DOMAIN q /\ s = q[1] /\ q = todo["ui"] /\ q \in Seq(Steps)
        BY <1>1, <1>2, <2>2, TailFacts DEF q
      <3>2. \A i \in DOMAIN q : q[i].op = "profiles" =>
              q[i].arg # {} /\ mem.profile \in q[i].arg \cup {Home}
        BY <1>2, <3>1 DEF ProfilesOK
      <3>3. \A i \in DOMAIN Tail(q) : i + 1 \in DOMAIN q /\ Tail(q)[i] = q[i + 1]
        BY <1>1, <1>2, TailFacts
      <3>4. \A i \in DOMAIN todo'["ui"] : todo'["ui"][i].op = "profiles" =>
              todo'["ui"][i].arg # {} /\ mem'.profile \in todo'["ui"][i].arg \cup {Home}
        <4>1. mem'.profile = mem.profile /\ todo'["ui"] = Tail(q)
          BY <1>3, <1>5, <2>2
        <4>2. ASSUME NEW i \in DOMAIN Tail(q), Tail(q)[i].op = "profiles"
              PROVE  Tail(q)[i].arg # {} /\ mem.profile \in Tail(q)[i].arg \cup {Home}
          BY <3>2, <3>3, <4>2
        <4> QED BY <4>1, <4>2
      <3>5. mem'.profiles # {}
        BY <1>2, <1>5, <3>1, <3>2 DEF ProfilesOK
      <3>6. /\ Importing <=> Has(q, {"profiles"})
            /\ Importing' <=> Has(Tail(q), {"profiles"})
        BY <1>3, <2>2, <3>1 DEF Importing, Has
      <3>7. ActiveKnown'
        BY <1>2, <1>5, <1>6, <3>1, <3>2, <3>6 DEF ActiveKnown, ProfilesOK
      <3> QED BY <2>1, <3>4, <3>5, <3>7 DEF ProfilesOK
    <2>3. CASE t # "ui"
      <3>1. todo'["ui"] = todo["ui"] /\ mem'.profile = mem.profile /\ mem'.profiles = mem.profiles
        BY <1>2, <1>3, <1>4, <1>5, <2>3
      <3>2. ActiveKnown'
        BY <1>2, <3>1, TellsStand DEF ActiveKnown, ProfilesOK
      <3> QED BY <1>2, <2>1, <3>1, <3>2 DEF ProfilesOK
    <2> QED BY <2>2, <2>3
  <1>11. OneSaver'
    BY <1>1, SavesStand DEF SaveInv
  <1>12. Followed'
    <2>1. ~ NoSaves'
      BY <1>3, <1>6 DEF NoSaves, Has
    <2>2. ASSUME NEW u \in Threads, Saving(u)' PROVE AnotherSave(u)'
      <3>1. t # u
        BY <1>7, <2>2
      <3> QED BY <1>3, <1>6, <3>1 DEF AnotherSave, Has
    <2> QED BY <2>1, <2>2 DEF Followed
  <1>13. Lasts'
    BY <1>1, SavesStand DEF Lasts, SaveInv
  <1>14. CASE t = "ui"
    <2>1. \A op : ToTell(op)' \subseteq ToTell(op)
      BY <1>1, <1>2, <1>3, <1>14, TellsTail DEF q
    <2>2. Includes'
      BY <1>7, <1>14 DEF Includes
    <2>3. /\ Has(todo["ui"], {"must"})' <=> Has(Tail(q), {"must"})
          /\ Has(q, {"must"}) => Has(Tail(q), {"must"})
      BY <1>1, <1>3, <1>6, <1>14 DEF Changes, Has
    <2>4. WillLast'
      <3>1. CASE s.op \in Whole
        <4>1. ToTell("gone") = {}
          BY <1>6, <1>14, <3>1, TellsWhat DEF q
        <4> QED BY <1>6, <2>1, <2>3, <3>1, <4>1 DEF WillLast
      <3>2. CASE s.op \notin Whole
        <4>1. mem'.rules = mem.rules
          BY <1>5, <3>2 DEF Whole
        <4>2. Has(todo["ui"], {"must"}) => Has(todo["ui"], {"must"})'
          BY <1>14, <2>3 DEF q
        <4> QED BY <1>1, <2>1, <4>1, <4>2, SavesStand DEF WillLast, SaveInv
      <3> QED BY <3>1, <3>2
    <2> QED BY <1>8, <1>9, <1>10, <1>11, <1>12, <1>13, <2>2, <2>4 DEF SaveInv, TypeInv
  <1>15. CASE t # "ui"
    <2>1. todo'["ui"] = todo["ui"] /\ mem'.rules = mem.rules
      BY <1>2, <1>3, <1>4, <1>5, <1>15
    <2>2. WillLast'
      BY <1>1, <2>1, SavesStand, TellsStand DEF WillLast, SaveInv
    <2>3. Includes'
      BY <1>1, <2>1, SavesStand, TellsStand DEF Includes, SaveInv
    <2> QED BY <1>8, <1>9, <1>10, <1>11, <1>12, <1>13, <2>2, <2>3 DEF SaveInv, TypeInv
  <1> QED BY <1>14, <1>15

\* A list that loses a step that is no save keeps its saves, in their order.
LEMMA SavesLeft ==
  ASSUME TypeInv, NEW t \in Threads, todo[t] # <<>>, Done(t), Next1(t).op \notin Saves, at[t] = "run"
  PROVE  /\ NoSaves' => NoSaves
         /\ \A u \in Threads : Saving(u) /\ AnotherSave(u) => AnotherSave(u)'
  <1> DEFINE q == todo[t]
  <1>1. q \in Seq(Steps) /\ Shape(t, q)
    BY Standing
  <1>2. /\ todo'[t] = Tail(q)
        /\ \A u \in Threads : u # t => todo'[u] = todo[u]
    BY DoneFacts
  <1>3. /\ 1 \in DOMAIN q /\ q[1].op \notin Saves
        /\ \A i \in DOMAIN q : i # 1 => i - 1 \in DOMAIN Tail(q) /\ Tail(q)[i - 1] = q[i]
    BY <1>1, TailFacts DEF Next1
  <1>4. Has(q, Saves) => Has(Tail(q), Saves)
    BY <1>3 DEF Has
  <1>5. NoSaves' => NoSaves
    BY <1>2, <1>4 DEF NoSaves, Has
  <1>6. ASSUME NEW u \in Threads, Saving(u), AnotherSave(u) PROVE AnotherSave(u)'
    <2>4. PICK w \in Threads :
            \E i \in DOMAIN todo[w] : todo[w][i].op \in Saves /\ (w # u \/ i # 1)
      BY <1>6 DEF AnotherSave
    <2>1. PICK i \in DOMAIN todo[w] : todo[w][i].op \in Saves /\ (w # u \/ i # 1)
      BY <2>4
    <2>2. CASE w = t
      <3>1. t # u
        BY <1>6 DEF Saving
      <3>2. i - 1 \in DOMAIN todo'[t] /\ todo'[t][i - 1].op \in Saves
        BY <1>2, <1>3, <2>1, <2>2
      <3> QED BY <3>1, <3>2 DEF AnotherSave
    <2>3. CASE w # t
      BY <1>2, <2>1, <2>3 DEF AnotherSave
    <2> QED BY <2>2, <2>3
  <1> QED BY <1>5, <1>6

\* The answer comes after the save that it waits for.
LEMMA AnswerKeeps ==
  ASSUME SaveInv, NEW t \in Threads, Answer(t)
  PROVE  SaveInv'
  <1> DEFINE s == Next1(t)
             q == todo[t]
  <1>1. /\ q # <<>> /\ s.op \in {"kept", "gone"} /\ at[t] = "run" /\ Done(t)
        /\ UNCHANGED <<mem, file, at, copy, solo, fileIs, jobs, failures, restarts>>
        /\ s.op = "kept" => kept' = kept \cup (s.arg \cap mem.rules) /\ gone' = gone
        /\ s.op = "gone" => gone' = gone \cup (s.arg \ mem.rules) /\ kept' = kept
    BY DEF Answer, Ready
  <1>2. /\ TypeInv /\ TypeOK /\ ThreadsOK /\ ProfilesOK /\ mem \in Content /\ "ui" \in Threads
        /\ q \in Seq(Steps) /\ Shape(t, q) /\ s \in Steps /\ s = Head(q) /\ s.arg \subseteq Rules
    BY <1>1, Standing, StepFacts DEF SaveInv, TypeInv, TypeOK, Next1
  <1>3. /\ todo' \in [Threads -> Seq(Steps)] /\ todo'[t] = Tail(q)
        /\ \A u \in Threads : u # t => todo'[u] = todo[u]
        /\ \A u \in Threads : Shape(u, todo'[u])
    BY <1>1, <1>2, DoneFacts
  <1>4. 1 \in DOMAIN q /\ s = q[1] /\ ~ Has(q, {"must"})
    BY <1>1, <1>2, TailFacts, TailHas
  <1>5. t = "ui"
    BY <1>1, <1>2, <1>4 DEF Shape
  <1>6. ~ Saving(t) /\ ~ Saving(t)'
    BY <1>1 DEF Saving
  <1>7. ~ Has(todo["ui"], {"must"}) /\ s.arg \subseteq ToTell(s.op)
    BY <1>4, <1>5 DEF ToTell
  <1>8. /\ \A r \in ToTell("kept") : r \in mem.rules => IsKept(r)
        /\ \A r \in ToTell("gone") : r \notin mem.rules /\ IsGone(r)
    BY <1>7 DEF SaveInv, WillLast
  <1>9. \A op : ToTell(op)' \subseteq ToTell(op)
    BY <1>1, <1>2, <1>3, <1>5, TellsTail
  <1>10. s.op \notin Saves
    BY <1>1 DEF Saves
  <1>11. NoSaves' => NoSaves
    BY <1>1, <1>2, <1>10, SavesLeft
  <1>12. \A u \in Threads : Saving(u) /\ AnotherSave(u) => AnotherSave(u)'
    BY <1>1, <1>2, <1>10, SavesLeft
  <1> HIDE DEF s, q
  <1>13. TypeOK'
    <2>1. kept' \subseteq Rules /\ gone' \subseteq Rules
      BY <1>1, <1>2 DEF TypeOK
    <2> QED BY <1>1, <1>2, <1>3, <2>1 DEF TypeOK
  <1>14. ThreadsOK'
    <2> SUFFICES ASSUME NEW u \in Threads
                 PROVE  /\ Shape(u, todo'[u])
                        /\ Saving(u)' => todo'[u] # <<>> /\ Head(todo'[u]).op \in Saves
      BY DEF ThreadsOK, Next1, Shape
    <2>1. CASE u = t
      BY <1>3, <1>6, <2>1
    <2>2. CASE u # t
      BY <1>1, <1>2, <1>3, <2>2, Standing DEF Saving, Next1
    <2> QED BY <2>1, <2>2
  <1>15. ProfilesOK'
    <2>1. \A i \in DOMAIN Tail(q) : i + 1 \in DOMAIN q /\ Tail(q)[i] = q[i + 1]
      BY <1>1, <1>2, TailFacts
    <2>2. q = todo["ui"]
      BY <1>5 DEF q
    <2>3. \A i \in DOMAIN todo'["ui"] : todo'["ui"][i].op = "profiles" =>
              todo'["ui"][i].arg # {} /\ mem'.profile \in todo'["ui"][i].arg \cup {Home}
      <3>1. \A i \in DOMAIN q : q[i].op = "profiles" =>
              q[i].arg # {} /\ mem.profile \in q[i].arg \cup {Home}
        BY <1>2, <2>2 DEF ProfilesOK
      <3>2. todo'["ui"] = Tail(q) /\ mem' = mem
        BY <1>1, <1>3, <1>5
      <3> QED BY <2>1, <3>1, <3>2
    <2>4. Importing => Importing'
      <3>1. Has(q, {"profiles"}) => Has(Tail(q), {"profiles"})
        BY <1>1, <1>2, TailHas
      <3> QED BY <1>3, <1>5, <2>2, <3>1 DEF Importing, Has
    <2>5. ActiveKnown'
      BY <1>1, <1>2, <2>4 DEF ActiveKnown, ProfilesOK
    <2> QED BY <1>1, <1>2, <2>3, <2>5 DEF ProfilesOK
  <1>16. OneSaver'
    BY <1>1, SavesStand DEF SaveInv
  <1>17. Followed'
    <2>1. ASSUME solo', NEW u \in Threads, Saving(u)' PROVE copy'[u] = mem' \/ AnotherSave(u)'
      BY <1>1, <1>12, <2>1, SavesStand DEF SaveInv, Followed
    <2>2. fileIs' = "whole" /\ NoSaves' => Load(file)' = mem'
      BY <1>1, <1>11 DEF SaveInv, Followed
    <2> QED BY <2>1, <2>2 DEF Followed
  <1>18. Lasts'
    <2>1. \A r \in kept' : r \in mem.rules /\ IsKept(r)
      BY <1>1, <1>7, <1>8 DEF SaveInv, Lasts
    <2>2. \A r \in gone' : r \notin mem.rules /\ IsGone(r)
      BY <1>1, <1>7, <1>8 DEF SaveInv, Lasts
    <2> QED BY <1>1, <2>1, <2>2, SavesStand DEF Lasts
  <1>19. WillLast'
    BY <1>1, <1>8, <1>9, SavesStand DEF WillLast
  <1>20. Includes'
    BY <1>5, <1>6 DEF Includes
  <1> QED BY <1>13, <1>14, <1>15, <1>16, <1>17, <1>18, <1>19, <1>20 DEF SaveInv, TypeInv

\* A save begins: what is in memory is in it.
LEMMA CopyKeeps ==
  ASSUME SaveInv, NEW t \in Threads, Copy(t)
  PROVE  SaveInv'
  <1>1. /\ todo[t] # <<>> /\ Next1(t).op \in Saves /\ at[t] = "run"
        /\ copy' = [copy EXCEPT ![t] = mem]
        /\ at' = [at EXCEPT ![t] = "open"]
        /\ solo' = (\A u \in Threads : at[u] = "run")
        /\ UNCHANGED <<mem, file, todo, fileIs, kept, gone, jobs, failures, restarts>>
    BY DEF Copy, Ready, told, Saves
  <1>2. /\ TypeInv /\ TypeOK /\ ThreadsOK /\ ProfilesOK /\ mem \in Content /\ "ui" \in Threads
    BY Standing DEF SaveInv, TypeInv, TypeOK
  <1>3. /\ copy' \in [Threads -> Content] /\ copy'[t] = mem
        /\ \A u \in Threads : u # t => copy'[u] = copy[u] /\ at'[u] = at[u]
        /\ at' \in [Threads -> {"run", "open", "write"}] /\ at'[t] = "open"
    BY <1>1, <1>2 DEF TypeOK
  <1>4. solo' => \A u \in Threads : Saving(u)' => u = t
    BY <1>1, <1>3 DEF Saving
  <1>5. todo'["ui"] = todo["ui"]
    BY <1>1
  <1>6. TypeOK'
    <2>1. solo' \in BOOLEAN
      BY <1>1
    <2> QED BY <1>1, <1>2, <1>3, <2>1 DEF TypeOK
  <1>7. ThreadsOK'
    <2> SUFFICES ASSUME NEW u \in Threads
                 PROVE  /\ Shape(u, todo'[u])
                        /\ Saving(u)' => todo'[u] # <<>> /\ Head(todo'[u]).op \in Saves
      BY DEF ThreadsOK, Next1, Shape
    <2>1. CASE u = t
      BY <1>1, <1>2, <2>1, Standing DEF Next1
    <2>2. CASE u # t
      BY <1>1, <1>2, <1>3, <2>2, Standing DEF Saving, Next1
    <2> QED BY <2>1, <2>2
  <1>8. ProfilesOK'
    <2>1. \A u \in Threads : copy'[u].profiles # {}
      BY <1>2, <1>3 DEF ProfilesOK
    <2>2. ActiveKnown'
      BY <1>1, <1>2, <1>5, TellsStand DEF ActiveKnown, ProfilesOK
    <2> QED BY <1>1, <1>2, <2>1, <2>2 DEF ProfilesOK
  <1>9. OneSaver'
    <2>1. solo' => \A u \in Threads : at'[u] # "write"
      BY <1>1, <1>3
    <2> QED BY <1>4, <2>1 DEF OneSaver
  <1>10. Followed'
    <2>1. solo' => \A u \in Threads : Saving(u)' => copy'[u] = mem'
      BY <1>1, <1>3, <1>4
    <2>2. NoSaves' => NoSaves
      BY <1>1 DEF NoSaves, Has
    <2> QED BY <1>1, <2>1, <2>2 DEF SaveInv, Followed
  <1>11. \A r : IsKept(r) /\ r \in mem.rules => IsKept(r)'
    BY <1>1, <1>3, <1>4 DEF IsKept
  <1>12. \A r : IsGone(r) /\ r \notin mem.rules => IsGone(r)'
    BY <1>1, <1>3, <1>4 DEF IsGone
  <1>13. Lasts'
    BY <1>1, <1>11, <1>12 DEF SaveInv, Lasts
  <1>14. WillLast'
    BY <1>1, <1>5, <1>11, <1>12, TellsStand DEF SaveInv, WillLast
  <1>15. Includes'
    <2>1. CASE t = "ui"
      BY <1>1, <1>3, <1>5, <2>1, TellsStand DEF SaveInv, WillLast, Includes
    <2>2. CASE t # "ui"
      BY <1>1, <1>2, <1>3, <1>5, <2>2, TellsStand DEF SaveInv, Includes, Saving
    <2> QED BY <2>1, <2>2
  <1> QED BY <1>6, <1>7, <1>8, <1>9, <1>10, <1>13, <1>14, <1>15 DEF SaveInv, TypeInv

-----------------------------------------------------------------------------
(* A save goes on, and ends. *)

\* A save that ends, well or not, takes its step from the list, or all of it.
LEMMA EndFacts ==
  ASSUME TypeInv, NEW t \in Threads, Saving(t),
         at' = [at EXCEPT ![t] = "run"],
         Done(t) \/ todo' = [todo EXCEPT ![t] = IF Next1(t).op = "must" THEN <<>> ELSE Tail(@)]
  PROVE  /\ todo' \in [Threads -> Seq(Steps)] /\ at' \in [Threads -> {"run", "open", "write"}]
         /\ ThreadsOK'
         /\ \A u \in Threads : u # t => todo'[u] = todo[u] /\ (Saving(u)' <=> Saving(u))
         /\ ~ Saving(t)'
         /\ \A op : ToTell(op)' \subseteq ToTell(op)
         /\ \A i \in DOMAIN todo'["ui"] : todo'["ui"][i].op = "profiles" =>
              \E j \in DOMAIN todo["ui"] : todo["ui"][j] = todo'["ui"][i]
         /\ Importing => Importing'
  <1> DEFINE q == todo[t]
             w == todo'[t]
  <1>1. /\ TypeOK /\ ThreadsOK /\ "ui" \in Threads
        /\ q # <<>> /\ q \in Seq(Steps) /\ Shape(t, q) /\ Next1(t) = Head(q) /\ Head(q).op \in Saves
    BY Standing DEF TypeInv, Next1
  <1>2. /\ todo' \in [Threads -> Seq(Steps)]
        /\ w = Tail(q) \/ (w = <<>> /\ Head(q).op = "must")
        /\ \A u \in Threads : u # t => todo'[u] = todo[u]
    <2>1. Tail(q) \in Seq(Steps) /\ <<>> \in Seq(Steps) /\ todo \in [Threads -> Seq(Steps)]
      BY <1>1, TailFacts DEF TypeOK
    <2> QED BY <1>1, <2>1 DEF Done
  <1>3. /\ at' \in [Threads -> {"run", "open", "write"}] /\ ~ Saving(t)'
        /\ \A u \in Threads : u # t => (Saving(u)' <=> Saving(u))
    BY <1>1 DEF TypeOK, Saving
  <1>4. Shape(t, w)
    BY <1>1, <1>2, ShapeTail, ShapeEmpty
  <1>5. ThreadsOK'
    <2> SUFFICES ASSUME NEW u \in Threads
                 PROVE  /\ Shape(u, todo'[u])
                        /\ Saving(u)' => todo'[u] # <<>> /\ Head(todo'[u]).op \in Saves
      BY DEF ThreadsOK, Next1, Shape
    <2>1. CASE u = t
      BY <1>3, <1>4, <2>1
    <2>2. CASE u # t
      BY <1>2, <1>3, <2>2, Standing DEF Next1
    <2> QED BY <2>1, <2>2
  <1>6. CASE t # "ui"
    <2>1. todo'["ui"] = todo["ui"]
      BY <1>1, <1>2, <1>6
    <2> QED BY <1>2, <1>3, <1>5, <2>1, TellsStand
  <1>7. CASE t = "ui"
    <2>1. ~ Has(q, Whole)
      BY <1>1, TailHas
    <2>2. ~ Importing
      BY <1>7, <2>1 DEF Importing, Has, Whole
    <2>3. CASE w = <<>> /\ Head(q).op = "must"
      <3>1. todo'["ui"] = <<>>
        BY <1>7, <2>3
      <3>2. \A op : ToTell(op)' = {}
        BY <3>1 DEF ToTell
      <3> QED BY <1>2, <1>3, <1>5, <2>2, <3>1, <3>2
    <2>4. CASE w = Tail(q)
      <3>1. todo["ui"] # <<>> /\ todo'["ui"] = Tail(todo["ui"])
        BY <1>1, <1>7, <2>4
      <3>2. \A op : ToTell(op)' \subseteq ToTell(op)
        BY <3>1, TellsTail
      <3>3. \A i \in DOMAIN Tail(q) : i + 1 \in DOMAIN q /\ Tail(q)[i] = q[i + 1]
        BY <1>1, TailFacts
      <3>4. \A i \in DOMAIN todo'["ui"] : todo'["ui"][i].op = "profiles" =>
              \E j \in DOMAIN todo["ui"] : todo["ui"][j] = todo'["ui"][i]
        BY <1>7, <3>1, <3>3
      <3> QED BY <1>2, <1>3, <1>5, <1>7, <2>2, <3>2, <3>4
    <2> QED BY <1>2, <2>3, <2>4
  <1> QED BY <1>6, <1>7

\* The profiles stay known when a save ends.
LEMMA EndProfiles ==
  ASSUME TypeInv, UNCHANGED <<mem, copy>>, file' \in Content => file'.profiles # {},
         \A i \in DOMAIN todo'["ui"] : todo'["ui"][i].op = "profiles" =>
              \E j \in DOMAIN todo["ui"] : todo["ui"][j] = todo'["ui"][i],
         Importing => Importing'
  PROVE  ProfilesOK'
  <1>1. ProfilesOK
    BY DEF TypeInv
  <1>2. ActiveKnown'
    BY <1>1 DEF ProfilesOK, ActiveKnown
  <1>3. \A i \in DOMAIN todo'["ui"] : todo'["ui"][i].op = "profiles" =>
          todo'["ui"][i].arg # {} /\ mem'.profile \in todo'["ui"][i].arg \cup {Home}
    BY <1>1 DEF ProfilesOK
  <1> QED BY <1>1, <1>2, <1>3 DEF ProfilesOK

\* What lasts as the file stands lasts after a save has failed.
LEMMA FailKeeps ==
  ASSUME SaveInv, NEW t \in Threads, Saving(t), Fail(t),
         file' \in Content \cup NoState, file' \in Content => file'.profiles # {},
         fileIs' \in {"stale", "unsure"}, fileIs' # "unsure" => fileIs # "unsure" /\ file' = file,
         UNCHANGED <<mem, copy, solo, kept, gone, jobs, restarts>>
  PROVE  SaveInv'
  <1>1. TypeInv /\ TypeOK
    BY DEF SaveInv, TypeInv
  <1>2. /\ failures < MaxFailures /\ failures' = failures + 1
        /\ at' = [at EXCEPT ![t] = "run"]
        /\ todo' = [todo EXCEPT ![t] = IF Next1(t).op = "must" THEN <<>> ELSE Tail(@)]
    BY DEF Fail
  <1>3. /\ todo' \in [Threads -> Seq(Steps)] /\ at' \in [Threads -> {"run", "open", "write"}]
        /\ ThreadsOK'
        /\ \A u \in Threads : u # t => todo'[u] = todo[u] /\ (Saving(u)' <=> Saving(u))
        /\ ~ Saving(t)'
        /\ \A op : ToTell(op)' \subseteq ToTell(op)
        /\ \A i \in DOMAIN todo'["ui"] : todo'["ui"][i].op = "profiles" =>
             \E j \in DOMAIN todo["ui"] : todo["ui"][j] = todo'["ui"][i]
        /\ Importing => Importing'
    BY <1>1, <1>2, EndFacts
  <1>4. \/ Has(todo["ui"], {"must"}) => Has(todo["ui"], {"must"})'
        \/ \A op : ToTell(op)' = {}
    <2>1. CASE t = "ui"
      <3> DEFINE q == todo["ui"]
      <3>1. /\ q \in Seq(Steps) /\ q # <<>> /\ Shape("ui", q) /\ Next1(t) = Head(q)
            /\ todo'["ui"] = IF Head(q).op = "must" THEN <<>> ELSE Tail(q)
        BY <1>1, <1>2, <2>1, Standing DEF TypeOK, Next1
      <3> HIDE DEF q
      <3>2. CASE Head(q).op = "must"
        <4>1. todo'["ui"] = <<>>
          BY <3>1, <3>2
        <4> QED BY <4>1 DEF ToTell
      <3>3. CASE Head(q).op # "must"
        <4>1. Has(q, {"must"}) => Has(Tail(q), {"must"})
          BY <3>1, <3>3, TailHas
        <4> QED BY <3>1, <3>3, <4>1 DEF Has, q
      <3> QED BY <3>2, <3>3
    <2>2. CASE t # "ui"
      <3>1. todo'["ui"] = todo["ui"]
        BY <1>3, <2>2 DEF Threads
      <3> QED BY <3>1, TellsStand
    <2> QED BY <2>1, <2>2
  <1>5. TypeOK'
    <2>1. failures' \in 0 .. MaxFailures
      BY <1>1, <1>2, PersistenceAssumption DEF TypeOK
    <2> QED BY <1>1, <1>3, <2>1 DEF TypeOK
  <1>6. ProfilesOK'
    BY <1>1, <1>3, EndProfiles
  <1>7. /\ \A u \in Threads : Saving(u)' => Saving(u)
        /\ solo' => \A u \in Threads : ~ Saving(u)'
    BY <1>3 DEF SaveInv, OneSaver
  <1>8. OneSaver'
    <2>1. \A u \in Threads : at'[u] = "write" => Saving(u)'
      BY DEF Saving
    <2> QED BY <1>7, <2>1 DEF OneSaver
  <1>9. Followed'
    BY <1>7 DEF Followed
  <1>10. \A r : IsKept(r) => IsKept(r)'
    BY <1>7 DEF IsKept
  <1>11. \A r : IsGone(r) => IsGone(r)'
    BY <1>7 DEF IsGone
  <1>12. Lasts'
    BY <1>10, <1>11 DEF SaveInv, Lasts
  <1>13. WillLast'
    <2>1. \A r \in ToTell("gone")' : r \notin mem'.rules
      BY <1>3 DEF SaveInv, WillLast
    <2>2. CASE \A op : ToTell(op)' = {}
      BY <2>1, <2>2 DEF WillLast
    <2>3. CASE Has(todo["ui"], {"must"}) => Has(todo["ui"], {"must"})'
      BY <1>3, <1>10, <1>11, <2>1, <2>3 DEF SaveInv, WillLast
    <2> QED BY <1>4, <2>2, <2>3
  <1>14. Includes'
    <2>1. "ui" \in Threads
      BY DEF Threads
    <2> QED BY <1>3, <1>7, <2>1 DEF SaveInv, Includes
  <1> QED BY <1>3, <1>5, <1>6, <1>8, <1>9, <1>12, <1>13, <1>14 DEF SaveInv, TypeInv

\* The file is truncated, or cannot be opened.
LEMMA OpenKeeps ==
  ASSUME SaveInv, NEW t \in Threads, Open(t)
  PROVE  SaveInv'
  <1>1. /\ TypeInv /\ TypeOK /\ ThreadsOK /\ ProfilesOK
    BY DEF SaveInv, TypeInv
  <1>2. at[t] = "open" /\ Saving(t) /\ UNCHANGED <<mem, copy, solo, kept, gone, jobs, restarts>>
    BY DEF Open, Saving, told
  <1>3. CASE file' = Empty /\ fileIs' = "unsure" /\ at' = [at EXCEPT ![t] = "write"]
               /\ UNCHANGED <<todo, failures>>
    <2>1. /\ at' \in [Threads -> {"run", "open", "write"}]
          /\ \A u \in Threads : Saving(u)' <=> Saving(u)
      BY <1>1, <1>2, <1>3 DEF TypeOK, Saving
    <2>2. Empty \in NoState /\ Empty \notin Content
      BY PersistenceAssumption DEF NoState
    <2>3. TypeOK'
      BY <1>1, <1>2, <1>3, <2>1, <2>2 DEF TypeOK
    <2>4. ThreadsOK'
      <3> SUFFICES ASSUME NEW u \in Threads
                   PROVE  /\ Shape(u, todo'[u])
                          /\ Saving(u)' => todo'[u] # <<>> /\ Head(todo'[u]).op \in Saves
        BY DEF ThreadsOK, Next1, Shape
      <3> QED BY <1>1, <1>3, <2>1, Standing DEF Next1
    <2>5. ProfilesOK'
      <3>1. todo'["ui"] = todo["ui"]
        BY <1>3
      <3> QED BY <1>1, <1>2, <1>3, <2>2, <3>1, TellsStand, EndProfiles
    <2>6. OneSaver'
      BY <1>2, <1>3, <2>1 DEF SaveInv, OneSaver
    <2>7. Followed'
      <3>1. \A u \in Threads : AnotherSave(u) => AnotherSave(u)'
        BY <1>3 DEF AnotherSave
      <3> QED BY <1>2, <1>3, <2>1, <3>1 DEF SaveInv, Followed
    <2>8. /\ \A r : IsKept(r) => IsKept(r)'
          /\ \A r : IsGone(r) => IsGone(r)'
      BY <1>2, <1>3, <2>1 DEF IsKept, IsGone
    <2>9. todo'["ui"] = todo["ui"] /\ "ui" \in Threads
      BY <1>3 DEF Threads
    <2>10. Lasts'
      BY <1>2, <2>8 DEF SaveInv, Lasts
    <2>11. WillLast'
      BY <1>2, <2>8, <2>9, TellsStand DEF SaveInv, WillLast
    <2>12. Includes'
      BY <1>2, <2>1, <2>9, TellsStand DEF SaveInv, Includes
    <2> QED BY <2>3, <2>4, <2>5, <2>6, <2>7, <2>10, <2>11, <2>12 DEF SaveInv, TypeInv
  <1>4. CASE Fail(t) /\ fileIs' = (IF fileIs = "unsure" THEN fileIs ELSE "stale") /\ UNCHANGED file
    BY <1>1, <1>2, <1>4, FailKeeps DEF TypeOK, ProfilesOK
  <1> QED BY <1>3, <1>4 DEF Open

\* The text is written: alone, the file then holds the copy.
LEMMA WriteKeeps ==
  ASSUME SaveInv, NEW t \in Threads, Write(t)
  PROVE  SaveInv'
  <1>1. /\ TypeInv /\ TypeOK /\ ThreadsOK /\ ProfilesOK /\ "ui" \in Threads
    BY DEF SaveInv, TypeInv, Threads
  <1>2. at[t] = "write" /\ Saving(t) /\ UNCHANGED <<mem, copy, solo, kept, gone, jobs, restarts>>
    BY DEF Write, Saving, told
  <1>3. Torn \in NoState /\ Torn \notin Content
    BY PersistenceAssumption DEF NoState
  <1>4. CASE /\ file' \in Overlay(file, copy[t])
             /\ fileIs' = IF solo THEN "whole" ELSE "unsure"
             /\ at' = [at EXCEPT ![t] = "run"]
             /\ Done(t)
             /\ UNCHANGED failures
    <2> DEFINE c == copy[t]
               q == todo[t]
    <2>1. /\ c \in Content /\ c.profiles # {} /\ file' \in {c, Torn}
          /\ q \in Seq(Steps) /\ q # <<>> /\ Shape(t, q) /\ Head(q).op \in Saves
          /\ todo'[t] = Tail(q)
      BY <1>1, <1>2, <1>4, Standing, DoneFacts DEF ProfilesOK, Overlay, Next1
    <2>2. /\ todo' \in [Threads -> Seq(Steps)] /\ at' \in [Threads -> {"run", "open", "write"}]
          /\ ThreadsOK'
          /\ \A u \in Threads : u # t => todo'[u] = todo[u] /\ (Saving(u)' <=> Saving(u))
          /\ ~ Saving(t)'
          /\ \A op : ToTell(op)' \subseteq ToTell(op)
          /\ \A i \in DOMAIN todo'["ui"] : todo'["ui"][i].op = "profiles" =>
               \E j \in DOMAIN todo["ui"] : todo["ui"][j] = todo'["ui"][i]
          /\ Importing => Importing'
      BY <1>1, <1>2, <1>4, EndFacts
    <2>3. TypeOK'
      <3>1. file' \in Content \cup NoState /\ fileIs' \in {"whole", "stale", "unsure"}
        BY <1>3, <1>4, <2>1
      <3> QED BY <1>1, <1>2, <1>4, <2>2, <3>1 DEF TypeOK
    <2>4. ProfilesOK'
      BY <1>1, <1>2, <1>3, <2>1, <2>2, EndProfiles
    <2>5. solo => file' = c /\ \A u \in Threads : Saving(u) => u = t
      BY <1>2, <1>4 DEF SaveInv, OneSaver, Overlay
    <2>6. /\ \A u \in Threads : Saving(u)' => Saving(u)
          /\ solo' => \A u \in Threads : ~ Saving(u)'
      BY <1>2, <2>2, <2>5
    <2>7. OneSaver'
      <3>1. \A u \in Threads : at'[u] = "write" => Saving(u)'
        BY DEF Saving
      <3> QED BY <2>6, <3>1 DEF OneSaver
    <2>8. solo => Load(file').rules = c.rules /\ (c.profile \in c.profiles \cup {Home} => Load(file') = c)
      BY <2>1, <2>5, LoadFacts
    <2>9. /\ \A r : (solo => r \in c.rules) => IsKept(r)'
          /\ \A r : (solo => r \notin c.rules) => IsGone(r)'
      <3>1. Load(file)' = Load(file')
        BY DEF Load
      <3> QED BY <1>2, <1>4, <2>6, <2>8, <3>1 DEF IsKept, IsGone
    <2>10. /\ \A r : IsKept(r) => IsKept(r)'
           /\ \A r : IsGone(r) => IsGone(r)'
      BY <1>2, <2>9 DEF IsKept, IsGone
    <2>11. ASSUME solo, NoSaves' PROVE Load(file') = mem'
      <3>1. \A u \in Threads : ~ Has(todo'[u], Saves)
        BY <2>11 DEF NoSaves, Has
      <3>2. ~ AnotherSave(t)
        <4> SUFFICES ASSUME NEW u \in Threads, NEW i \in DOMAIN todo[u], todo[u][i].op \in Saves,
                            u # t \/ i # 1
                     PROVE  FALSE
          BY DEF AnotherSave
        <4>1. CASE u # t
          BY <2>2, <3>1, <4>1 DEF Has
        <4>2. CASE u = t
          <5>1. i - 1 \in DOMAIN Tail(q) /\ Tail(q)[i - 1] = q[i]
            BY <2>1, <4>2, TailFacts
          <5> QED BY <2>1, <3>1, <4>2, <5>1 DEF Has
        <4> QED BY <4>1, <4>2
      <3>3. c = mem
        BY <1>2, <2>11, <3>2 DEF SaveInv, Followed
      <3>4. ~ Importing
        <4>1. CASE t = "ui"
          BY <2>1, <4>1, TailHas DEF Importing, Has, Whole
        <4>2. CASE t # "ui"
          <5>1. todo'["ui"] = todo["ui"] /\ ~ Has(todo["ui"], Saves) /\ Shape("ui", todo["ui"])
            BY <1>1, <2>2, <3>1, <4>2, Standing
          <5> QED BY <5>1 DEF Importing, Shape, Has, Whole, Saves
        <4> QED BY <4>1, <4>2
      <3>5. c.profile \in c.profiles \cup {Home}
        BY <1>1, <3>3, <3>4 DEF ProfilesOK, ActiveKnown
      <3> QED BY <1>2, <2>8, <2>11, <3>3, <3>5
    <2>12. Followed'
      <3>1. fileIs' = "whole" => solo
        BY <1>4
      <3>2. Load(file)' = Load(file')
        BY DEF Load
      <3> QED BY <2>6, <2>11, <3>1, <3>2 DEF Followed
    <2>13. Lasts'
      BY <1>2, <2>10 DEF SaveInv, Lasts
    <2>14. WillLast'
      <3>1. \A r \in ToTell("gone")' : r \notin mem'.rules
        BY <1>2, <2>2 DEF SaveInv, WillLast
      <3>2. CASE t = "ui"
        <4>1. \A r \in ToTell("kept") : r \in mem.rules => r \in c.rules
          BY <1>2, <3>2 DEF SaveInv, Includes
        <4>2. \A r \in ToTell("gone") : r \notin c.rules
          BY <1>2, <3>2 DEF SaveInv, Includes
        <4> QED BY <1>2, <2>2, <2>9, <3>1, <4>1, <4>2 DEF WillLast
      <3>3. CASE t # "ui"
        <4>1. todo'["ui"] = todo["ui"]
          BY <1>1, <2>2, <3>3
        <4>2. Has(todo["ui"], {"must"})' <=> Has(todo["ui"], {"must"})
          BY <4>1, TellsStand
        <4> QED BY <1>2, <2>2, <2>10, <3>1, <4>2 DEF SaveInv, WillLast
      <3> QED BY <3>2, <3>3
    <2>15. Includes'
      BY <1>1, <1>2, <2>2, <2>6 DEF SaveInv, Includes
    <2> QED BY <2>2, <2>3, <2>4, <2>7, <2>12, <2>13, <2>14, <2>15 DEF SaveInv, TypeInv
  <1>5. CASE Fail(t) /\ file' \in {file, Torn} /\ fileIs' = "unsure"
    BY <1>1, <1>2, <1>3, <1>5, FailKeeps DEF TypeOK, ProfilesOK
  <1> QED BY <1>4, <1>5 DEF Write

\* The next start finds what the user was told.
LEMMA RestartKeeps ==
  ASSUME SaveInv, Restart
  PROVE  SaveInv'
  <1>1. /\ TypeInv /\ TypeOK /\ ThreadsOK /\ ProfilesOK /\ "ui" \in Threads
    BY DEF SaveInv, TypeInv, Threads
  <1>2. /\ restarts < MaxRestarts /\ restarts' = restarts + 1
        /\ mem' = Load(file)
        /\ todo' = [t \in Threads |-> <<>>]
        /\ at' = [t \in Threads |-> "run"]
        /\ solo' = TRUE /\ fileIs' = "whole"
        /\ fileIs = "unsure" => kept' = {} /\ gone' = {}
        /\ fileIs # "unsure" => kept' = kept /\ gone' = gone
        /\ UNCHANGED <<file, copy, jobs, failures>>
    BY DEF Restart, told
  <1>3. /\ Load(file) \in Content /\ Load(file).profiles # {}
        /\ Load(file).profile \in Load(file).profiles \cup {Home}
    BY <1>1, LoadFacts DEF TypeOK, ProfilesOK
  <1>4. \A t \in Threads : todo'[t] = <<>> /\ at'[t] = "run" /\ ~ Saving(t)'
    BY <1>2 DEF Saving
  <1>5. TypeOK'
    <2>1. restarts' \in 0 .. MaxRestarts
      BY <1>1, <1>2, PersistenceAssumption DEF TypeOK
    <2>2. <<>> \in Seq(Steps)
      OBVIOUS
    <2>3. kept' \subseteq Rules /\ gone' \subseteq Rules
      BY <1>1, <1>2 DEF TypeOK
    <2> QED BY <1>1, <1>2, <1>3, <2>1, <2>2, <2>3 DEF TypeOK
  <1>6. ThreadsOK'
    <2> SUFFICES ASSUME NEW u \in Threads
                 PROVE  /\ Shape(u, todo'[u])
                        /\ Saving(u)' => todo'[u] # <<>> /\ Head(todo'[u]).op \in Saves
      BY DEF ThreadsOK, Next1, Shape
    <2> QED BY <1>4, ShapeEmpty
  <1>7. ProfilesOK'
    <2>1. todo'["ui"] = <<>>
      BY <1>1, <1>4
    <2>2. ActiveKnown'
      BY <1>2, <1>3 DEF ActiveKnown
    <2> QED BY <1>1, <1>2, <1>3, <2>1, <2>2 DEF ProfilesOK
  <1>8. OneSaver' /\ Includes'
    BY <1>1, <1>4 DEF OneSaver, Includes, Saving
  <1>9. Load(file)' = Load(file)
    BY <1>2 DEF Load
  <1>10. Followed'
    BY <1>2, <1>4, <1>9 DEF Followed
  <1>11. Lasts'
    BY <1>2, <1>4, <1>9 DEF SaveInv, Lasts, IsKept, IsGone
  <1>12. WillLast'
    <2>1. todo'["ui"] = <<>>
      BY <1>1, <1>4
    <2>2. \A op : ToTell(op)' = {}
      BY <2>1 DEF ToTell
    <2> QED BY <2>2 DEF WillLast
  <1> QED BY <1>5, <1>6, <1>7, <1>8, <1>10, <1>11, <1>12 DEF SaveInv, TypeInv

-----------------------------------------------------------------------------
(* The theorems. *)

\* The invariant holds at the first start.
LEMMA SaveInvInit == Init => SaveInv
  <1> SUFFICES ASSUME Init PROVE SaveInv
    OBVIOUS
  <1>1. /\ DefaultState \in Content /\ DefaultState.profiles # {}
        /\ DefaultState.profile \in DefaultState.profiles \cup {Home}
    BY PersistenceAssumption DEF DefaultState, Content
  <1>2. /\ file = Missing /\ mem = DefaultState
        /\ \A t \in Threads : todo[t] = <<>> /\ ~ Saving(t) /\ copy[t] = DefaultState /\ at[t] = "run"
        /\ kept = {} /\ gone = {} /\ todo["ui"] = <<>>
    BY DEF Init, Saving, Threads
  <1>3. Missing \in NoState /\ Missing \notin Content
    BY PersistenceAssumption DEF NoState
  <1>4. TypeOK
    <2>1. <<>> \in Seq(Steps)
      OBVIOUS
    <2> QED BY <1>1, <1>3, <2>1, PersistenceAssumption DEF Init, TypeOK
  <1>5. ThreadsOK
    BY <1>2, ShapeEmpty DEF ThreadsOK
  <1>6. ProfilesOK
    BY <1>1, <1>2, <1>3 DEF ProfilesOK, ActiveKnown
  <1>7. OneSaver /\ Includes
    BY <1>2 DEF OneSaver, Includes, Threads
  <1>8. Followed
    <2>1. Load(file) = mem
      BY <1>1, <1>2, <1>3, NormalFacts DEF Load
    <2> QED BY <1>2, <2>1 DEF Followed
  <1>9. Lasts /\ WillLast
    BY <1>2 DEF Lasts, WillLast, ToTell
  <1> QED BY <1>4, <1>5, <1>6, <1>7, <1>8, <1>9 DEF SaveInv, TypeInv

\* Every step keeps the invariant.
LEMMA SaveInvNext == SaveInv /\ [Next]_vars => SaveInv'
  <1> SUFFICES ASSUME SaveInv, [Next]_vars PROVE SaveInv'
    OBVIOUS
  <1>1. CASE \/ Command
             \/ \E due \in SUBSET Timed, session \in BOOLEAN : Prune(due, session)
             \/ \E t \in Threads : Notify(t)
    <2>1. mem \in Content
      BY DEF SaveInv, TypeInv, TypeOK
    <2> QED BY <1>1, <2>1, AllBeginWell, BeginKeeps
  <1>2. CASE \E t \in Threads : Change(t)
    BY <1>2, ChangeKeeps
  <1>3. CASE \E t \in Threads : Answer(t)
    BY <1>3, AnswerKeeps
  <1>4. CASE \E t \in Threads : Copy(t)
    BY <1>4, CopyKeeps
  <1>5. CASE \E t \in Threads : Open(t)
    BY <1>5, OpenKeeps
  <1>6. CASE \E t \in Threads : Write(t)
    BY <1>6, WriteKeeps
  <1>7. CASE Restart
    BY <1>7, RestartKeeps
  <1>8. CASE UNCHANGED vars
    <2>1. /\ UNCHANGED <<mem, file, todo, at, copy, solo, fileIs, kept, gone>>
          /\ UNCHANGED <<jobs, failures, restarts>>
      BY <1>8 DEF vars
    <2>2. TypeOK' /\ ThreadsOK' /\ ProfilesOK'
      BY <2>1 DEF SaveInv, TypeInv, TypeOK, ThreadsOK, ProfilesOK, ActiveKnown, Importing, Shape,
                  Saving, Next1
    <2>3. OneSaver' /\ Followed'
      BY <2>1 DEF SaveInv, OneSaver, Followed, AnotherSave, NoSaves, Has, Load, Saving
    <2>4. Lasts' /\ WillLast' /\ Includes'
      BY <2>1, SavesStand, TellsStand DEF SaveInv, Lasts, WillLast, Includes
    <2> QED BY <2>2, <2>3, <2>4 DEF SaveInv, TypeInv
  <1> QED BY <1>1, <1>2, <1>3, <1>4, <1>5, <1>6, <1>7, <1>8 DEF Next

\* Everything is saved with its type: the state in memory and every copy of it
\* is a state, the file one or none, and each thread has steps left to do.
THEOREM TypesHold == Spec => []TypeOK
  <1>1. SaveInv => TypeOK
    BY DEF SaveInv, TypeInv
  <1> QED BY <1>1, SaveInvInit, SaveInvNext, PTL DEF Spec

\* Whatever the threads do at once, when none has anything left to do and the
\* last saves did not meet, the file holds what is in memory (Shared::save).
THEOREM QuietIsSaved == Spec => []SavedWhenQuiet
  <1>1. SaveInv => SavedWhenQuiet
    <2> SUFFICES ASSUME SaveInv, Quiet, fileIs = "whole" PROVE Load(file) = mem
      BY DEF SavedWhenQuiet
    <2>1. NoSaves
      BY ShapeEmpty DEF Quiet, NoSaves
    <2> QED BY <2>1 DEF SaveInv, Followed
  <1> QED BY <1>1, SaveInvInit, SaveInvNext, PTL DEF Spec

\* A rule of which the user was told is found by the next start, one the user
\* was told is removed is not, unless the file is in doubt (Shared::save, and
\* the commands that answer after it).
THEOREM WhatWasToldSurvives == Spec => []ToldSurvives
  <1>1. SaveInv => ToldSurvives
    BY DEF SaveInv, Lasts, IsKept, IsGone, ToldSurvives
  <1> QED BY <1>1, SaveInvInit, SaveInvNext, PTL DEF Spec

\* The active profile exists or is the fallback "home", but for the middle of an
\* import, whatever is imported, also after a start from whatever file the
\* program left (normalize_state, import_state).
THEOREM ProfileIsKnown == Spec => []ActiveKnown
  <1>1. SaveInv => ActiveKnown
    BY DEF SaveInv, TypeInv, ProfilesOK
  <1> QED BY <1>1, SaveInvInit, SaveInvNext, PTL DEF Spec
=============================================================================
