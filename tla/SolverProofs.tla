---------------------------- MODULE SolverProofs ----------------------------
(***************************************************************************)
(* Proofs about the candidate search of the command line, for every set of *)
(* files, tests, candidates and patches, and whatever children print.      *)
(*                                                                         *)
(* ScopeInv follows the test scope through localization.  FanoutInv keeps  *)
(* the parent's verdict with its patch and says that nothing moves between *)
(* a selection and its application.  In between stand the lemmas on        *)
(* orders: that InOrder lists a set by its keys, for which every field of  *)
(* a key has to be a number, the distance to the median included.          *)
(***************************************************************************)
EXTENDS Localization, Fanout, FiniteSetTheorems, TLAPS

-----------------------------------------------------------------------------
(* Orders on finite sets.                                                  *)

IsStrictOrder(R, S) ==
    /\ \A x \in S : <<x, x>> \notin R
    /\ \A x, y, z \in S : <<x, y>> \in R /\ <<y, z>> \in R => <<x, z>> \in R

IsTotal(R, S) == \A x, y \in S : x # y => <<x, y>> \in R \/ <<y, x>> \in R

LEMMA LeastElement ==
    ASSUME NEW S, IsFiniteSet(S), S # {}, NEW R, IsStrictOrder(R, S)
    PROVE  \E x \in S : \A y \in S : <<y, x>> \notin R
<1> DEFINE Below(x) == {y \in S : <<y, x>> \in R}
           Belows == {Below(x) : x \in S}
<1>1. Belows # {} /\ Belows \subseteq FiniteSubsetsOf(S)
  <2>1. FiniteSubsetsOf(S) = SUBSET S
    BY FS_FiniteSubsetsOfFinite
  <2>2. Belows \subseteq SUBSET S
    OBVIOUS
  <2>3. PICK x \in S : TRUE
    OBVIOUS
  <2>4. Below(x) \in Belows
    OBVIOUS
  <2>. HIDE DEF Belows
  <2>. QED  BY <2>1, <2>2, <2>4
<1>2. IsWellFoundedOn(StrictSubsetOrdering(S), FiniteSubsetsOf(S))
  BY FS_StrictSubsetOrderingWellFounded
<1>3. PICK b \in Belows : \A a \in Belows : <<a, b>> \notin StrictSubsetOrdering(S)
  <2>. HIDE DEF Belows
  <2>. QED  BY <1>1, <1>2, WFMin, Zenon
<1>4. PICK x \in S : b = Below(x)
  OBVIOUS
<1>5. ASSUME NEW y \in S, <<y, x>> \in R
      PROVE  FALSE
  <2>1. Below(y) \subseteq Below(x) /\ y \in Below(x) /\ y \notin Below(y)
    BY <1>5 DEF IsStrictOrder
  <2>2. <<Below(y), b>> \in StrictSubsetOrdering(S)
    BY <2>1, <1>4 DEF StrictSubsetOrdering
  <2>. QED  BY <2>2, <1>3
<1>. QED  BY <1>5

\* In a total order each place is taken.
LEMMA PlacesTaken ==
    ASSUME NEW S, IsFiniteSet(S), NEW R, IsStrictOrder(R, S), IsTotal(R, S),
           NEW n \in 0 .. Cardinality(S) - 1
    PROVE  \E x \in S : Cardinality({y \in S : <<y, x>> \in R}) = n
<1> DEFINE Below(x) == {y \in S : <<y, x>> \in R}
           place == [x \in S |-> Cardinality(Below(x))]
           last == Cardinality(S) - 1
<1>1. Cardinality(S) \in Nat /\ Cardinality(S) > 0
  BY FS_CardinalityType
<1>2. ASSUME NEW x \in S
      PROVE  /\ IsFiniteSet(Below(x)) /\ Cardinality(Below(x)) \in Nat
             /\ Cardinality(Below(x)) < Cardinality(S)
  <2>1. Below(x) \in SUBSET S /\ x \notin Below(x)
    BY DEF IsStrictOrder
  <2>2. IsFiniteSet(Below(x)) /\ Cardinality(Below(x)) <= Cardinality(S)
        /\ (Cardinality(S) = Cardinality(Below(x)) => S = Below(x))
    BY <2>1, FS_Subset
  <2>3. Cardinality(Below(x)) \in Nat
    BY <2>2, FS_CardinalityType
  <2>. QED  BY <2>1, <2>2, <2>3, <1>1
<1>3. ASSUME NEW x \in S, NEW y \in S, <<x, y>> \in R
      PROVE  Cardinality(Below(x)) # Cardinality(Below(y))
  <2>1. Below(x) \in SUBSET Below(y) /\ x \in Below(y) /\ x \notin Below(x)
    BY <1>3 DEF IsStrictOrder
  <2>2. Cardinality(Below(y)) = Cardinality(Below(x)) => Below(y) = Below(x)
    BY <2>1, <1>2, FS_Subset
  <2>. QED  BY <2>1, <2>2
<1>4. place \in Injection(S, 0 .. last)
  <2>1. place \in [S -> 0 .. last]
    BY <1>1, <1>2
  <2>2. ASSUME NEW x \in S, NEW y \in S, place[x] = place[y]
        PROVE  x = y
    BY <2>2, <1>3 DEF IsTotal
  <2>3. IsInjective(place)
    BY <2>2, Zenon DEF IsInjective
  <2>. QED  BY <2>1, <2>3 DEF Injection
<1>5. IsFiniteSet(0 .. last) /\ Cardinality(0 .. last) = Cardinality(S)
  BY <1>1, FS_Interval
<1>6. place \in Surjection(S, 0 .. last)
  BY <1>4, <1>5, FS_Injection
<1>7. PICK x \in S : place[x] = n
  BY <1>6 DEF Surjection
<1>. QED  BY <1>7

-----------------------------------------------------------------------------
(* Keys compared field by field.                                           *)

LEMMA FirstDifference ==
    ASSUME NEW n \in Nat, NEW k \in [1 .. n -> Int], NEW l \in [1 .. n -> Int], k # l
    PROVE  Precedes(k, l) \/ Precedes(l, k)
<1> DEFINE D == {i \in 1 .. n : k[i] # l[i]}
           R == {p \in D \X D : p[1] < p[2]}
<1>1. D # {}
  OBVIOUS
<1>2. IsFiniteSet(D)
  BY FS_Interval, FS_Subset
<1>3. \A x, y \in D : <<x, y>> \in R <=> x < y
  OBVIOUS
<1>4. IsStrictOrder(R, D)
  <2>1. D \subseteq Int
    OBVIOUS
  <2>. HIDE DEF D, R
  <2>. QED  BY <1>3, <2>1 DEF IsStrictOrder
<1>5. PICK i \in D : \A j \in D : <<j, i>> \notin R
  <2>. HIDE DEF D, R
  <2>. QED  BY <1>1, <1>2, <1>4, LeastElement
<1>6. ASSUME NEW j \in 1 .. i - 1
      PROVE  k[j] = l[j]
  <2>1. j \in 1 .. n /\ j < i
    OBVIOUS
  <2>2. j \notin D
    BY <2>1, <1>3, <1>5
  <2>. QED  BY <2>1, <2>2
<1>7. i \in DOMAIN k /\ i \in DOMAIN l /\ (k[i] < l[i] \/ l[i] < k[i])
  OBVIOUS
<1>. QED  BY <1>6, <1>7 DEF Precedes

LEMMA PrecedesIsStrict ==
    ASSUME NEW n \in Nat, NEW k \in [1 .. n -> Int]
    PROVE  /\ ~Precedes(k, k)
           /\ \A l, m \in [1 .. n -> Int] : Precedes(k, l) /\ Precedes(l, m) => Precedes(k, m)
<1>1. ~Precedes(k, k)
  BY DEF Precedes
<1>2. ASSUME NEW l \in [1 .. n -> Int], NEW m \in [1 .. n -> Int], Precedes(k, l), Precedes(l, m)
      PROVE  Precedes(k, m)
  <2>1. PICK a \in 1 .. n : k[a] < l[a] /\ \A j \in 1 .. a - 1 : k[j] = l[j]
    BY <1>2 DEF Precedes
  <2>2. PICK b \in 1 .. n : l[b] < m[b] /\ \A j \in 1 .. b - 1 : l[j] = m[j]
    BY <1>2 DEF Precedes
  <2>3. CASE a <= b
    <3>1. k[a] < m[a]
      BY <2>1, <2>2, <2>3
    <3>2. \A j \in 1 .. a - 1 : k[j] = m[j]
      BY <2>1, <2>2, <2>3
    <3>. QED  BY <3>1, <3>2 DEF Precedes
  <2>4. CASE b < a
    <3>1. k[b] < m[b]
      BY <2>1, <2>2, <2>4
    <3>2. \A j \in 1 .. b - 1 : k[j] = m[j]
      BY <2>1, <2>2, <2>4
    <3>. QED  BY <3>1, <3>2 DEF Precedes
  <2>. QED  BY <2>3, <2>4
<1>. QED  BY <1>1, <1>2

\* InOrder lists a set in the order of its keys.
Keyed(ids, key, n) ==
    /\ key \in [ids -> [1 .. n -> Int]]
    /\ \A c, d \in ids : key[c] = key[d] => c = d

LEMMA InOrderLists ==
    ASSUME NEW ids, IsFiniteSet(ids), NEW n \in Nat, NEW key, Keyed(ids, key, n)
    PROVE  /\ InOrder(ids, key) \in Seq(ids)
           /\ Len(InOrder(ids, key)) = Cardinality(ids)
           /\ \A i \in DOMAIN InOrder(ids, key) :
                Cardinality({d \in ids : Precedes(key[d], key[InOrder(ids, key)[i]])}) = i - 1
<1> DEFINE R == {p \in ids \X ids : Precedes(key[p[1]], key[p[2]])}
           list == InOrder(ids, key)
           size == Cardinality(ids)
<1>1. \A c, d \in ids : <<c, d>> \in R <=> Precedes(key[c], key[d])
  OBVIOUS
<1>2. \A c \in ids : key[c] \in [1 .. n -> Int]
  BY DEF Keyed
<1>3. IsStrictOrder(R, ids)
  <2>. HIDE DEF R
  <2>. QED  BY <1>1, <1>2, PrecedesIsStrict, Zenon DEF IsStrictOrder
<1>4. IsTotal(R, ids)
  <2>1. ASSUME NEW c \in ids, NEW d \in ids, c # d
        PROVE  Precedes(key[c], key[d]) \/ Precedes(key[d], key[c])
    BY <2>1, <1>2, FirstDifference DEF Keyed
  <2>. HIDE DEF R
  <2>. QED  BY <1>1, <2>1 DEF IsTotal
<1>5. size \in Nat
  BY FS_CardinalityType
<1>6. ASSUME NEW i \in 1 .. size
      PROVE  \E c \in ids : Cardinality({d \in ids : Precedes(key[d], key[c])}) = i - 1
  <2>1. i - 1 \in 0 .. size - 1
    BY <1>5
  <2>2. PICK c \in ids : Cardinality({d \in ids : <<d, c>> \in R}) = i - 1
    <3>. HIDE DEF R
    <3>. QED  BY <2>1, <1>3, <1>4, PlacesTaken
  <2>3. {d \in ids : <<d, c>> \in R} = {d \in ids : Precedes(key[d], key[c])}
    <3>. HIDE DEF R
    <3>. QED  BY <1>1
  <2>. QED  BY <2>2, <2>3
<1>7. list = [i \in 1 .. size |->
                CHOOSE c \in ids : Cardinality({d \in ids : Precedes(key[d], key[c])}) = i - 1]
  BY DEF InOrder
<1>8. ASSUME NEW i \in 1 .. size
      PROVE  /\ list[i] \in ids
             /\ Cardinality({d \in ids : Precedes(key[d], key[list[i]])}) = i - 1
  BY <1>6, <1>7
<1>9. list \in [1 .. size -> ids]
  <2>. HIDE DEF list
  <2>. QED  BY <1>7, <1>8
<1>10. list \in Seq(ids) /\ Len(list) = size /\ DOMAIN list = 1 .. size
  <2>. HIDE DEF list
  <2>. QED  BY <1>5, <1>9
<1>. QED  BY <1>8, <1>10

\* No key is smaller than that of the first one.
LEMMA FirstInOrder ==
    ASSUME NEW ids, IsFiniteSet(ids), ids # {}, NEW n \in Nat \ {0}, NEW key, Keyed(ids, key, n)
    PROVE  /\ InOrder(ids, key)[1] \in ids
           /\ \A d \in ids : key[InOrder(ids, key)[1]][1] <= key[d][1]
<1> DEFINE first == InOrder(ids, key)[1]
           before == {d \in ids : Precedes(key[d], key[first])}
<1>1. Cardinality(ids) \in Nat \ {0}
  BY FS_CardinalityType, FS_EmptySet
<1>2. 1 \in DOMAIN InOrder(ids, key)
  BY <1>1, InOrderLists
<1>3. first \in ids /\ Cardinality(before) = 0
  <2>1. first \in ids
    BY <1>2, InOrderLists
  <2>2. \A i \in DOMAIN InOrder(ids, key) :
            Cardinality({d \in ids : Precedes(key[d], key[InOrder(ids, key)[i]])}) = i - 1
    BY InOrderLists
  <2>3. Cardinality(before) = 1 - 1
    BY <1>2, <2>2, Zenon
  <2>. QED  BY <2>1, <2>3
<1>4. IsFiniteSet(before)
  BY FS_Subset
<1>5. before = {}
  BY <1>3, <1>4, FS_EmptySet
<1>6. ASSUME NEW d \in ids
      PROVE  key[first][1] <= key[d][1]
  <2>1. ~Precedes(key[d], key[first])
    BY <1>5
  <2>2. key[d] \in [1 .. n -> Int] /\ key[first] \in [1 .. n -> Int]
    BY <1>3 DEF Keyed
  <2>3. 1 \in DOMAIN key[d] /\ \A j \in 1 .. 1 - 1 : key[d][j] = key[first][j]
    BY <2>2
  <2>4. ~(key[d][1] < key[first][1])
    BY <2>1, <2>3 DEF Precedes
  <2>. QED  BY <2>2, <2>4
<1>. QED  BY <1>3, <1>6

-----------------------------------------------------------------------------
(* Localization.                                                           *)

Given(e) == e = [scope |-> case.scope, complete |-> case.complete, authority |-> "given",
                 trusted |-> TRUE]

\* A scope kept for this run passed on the untouched tree.
PassedBefore(scope) == <<scope, "passed">> \in baselines

\* While scopes are tried, what the run was given is in saved.
ScopeInv ==
    /\ lpc \in {"probe", "plan"} => Given(env) /\ fallback = NoScope
    /\ lpc = "try" => Given(saved) /\ (fallback # NoScope => PassedBefore(fallback))
    /\ lpc \notin {"probe", "plan", "try"} =>
            Given(env) \/ (PassedBefore(env.scope) /\ ~env.complete /\ ~env.trusted)

LEMMA ScopeKept ==
    ASSUME ScopeInv, [LocalizationNext]_localizationVars
    PROVE  ScopeInv'
<1>1. CASE UNCHANGED localizationVars
  BY <1>1 DEF ScopeInv, Given, PassedBefore, localizationVars, lscope, lplan, lfan
<1>2. ASSUME NEW correlated, NEW left, Probe(correlated, left)
      PROVE  ScopeInv'
  BY <1>2 DEF ScopeInv, Given, PassedBefore, Probe, lscope, lplan, lfan
<1>3. CASE PlanScopes
  BY <1>3 DEF ScopeInv, Given, PassedBefore, PlanScopes, lscope, lplan, lfan
<1>4. ASSUME NEW result, NEW time, NEW left, TryScope(result, time, left)
      PROVE  ScopeInv'
  <2>1. lpc = "try" /\ lpc' = "try" /\ UNCHANGED <<case, env, saved>>
    BY <1>4 DEF TryScope
  <2>2. ASSUME fallback' # NoScope
        PROVE  PassedBefore(fallback)'
    <3>1. CASE result = "passed" /\ fallback = NoScope
      BY <1>4, <3>1, Zenon DEF TryScope, Usable, PassedBefore
    <3>2. CASE ~(result = "passed" /\ fallback = NoScope)
      <4>1. fallback' = fallback /\ baselines \subseteq baselines'
        BY <1>4, <3>2 DEF TryScope
      <4>. QED  BY <4>1, <2>1, <2>2 DEF ScopeInv, PassedBefore
    <3>. QED  BY <3>1, <3>2
  <2>. QED  BY <2>1, <2>2 DEF ScopeInv, Given
<1>5. CASE SkipScope
  BY <1>5 DEF ScopeInv, Given, PassedBefore, SkipScope, lscope, lplan, lfan
<1>6. CASE SettleScopes
  BY <1>6 DEF ScopeInv, Given, PassedBefore, SettleScopes, lscope, lplan, lfan
<1>7. CASE Plan
  <2>1. lpc = "shape" /\ lpc' \in {"ended", "lanes", "fanout"} /\ UNCHANGED <<case, lscope>>
    BY <1>7 DEF Plan
  <2>. QED  BY <2>1 DEF ScopeInv, Given, PassedBefore, lscope
<1>8. ASSUME NEW d, NEW late, NEW minutes, RunLane(d, late, minutes)
      PROVE  ScopeInv'
  BY <1>8 DEF ScopeInv, Given, PassedBefore, RunLane, lscope, lplan
<1>9. ASSUME NEW applied, LaneTournament(applied) \/ PlainFanout(applied)
      PROVE  ScopeInv'
  BY <1>9 DEF ScopeInv, Given, PassedBefore, LaneTournament, PlainFanout, lscope, lplan
<1>. QED  BY <1>1, <1>2, <1>3, <1>4, <1>5, <1>6, <1>7, <1>8, <1>9, Zenon DEF LocalizationNext

\* A run leaves localization with the test scope it was given, with the power it had, or
\* with one that passed on the untouched tree and completes nothing, for any list of
\* attempts and however they end (main.rs, the scope validation of "localizing").
THEOREM ScopesGainNoPower == LocalizationSpec => []ScopeGainsNoPower
<1>1. LocalizationInit => ScopeInv
  BY DEF LocalizationInit, LocalizationStarted, ScopeInv, Given
<1>2. ScopeInv => ScopeGainsNoPower
  BY DEF ScopeInv, ScopeGainsNoPower, Given, PassedBefore
<1>. QED  BY <1>1, <1>2, ScopeKept, PTL DEF LocalizationSpec

-----------------------------------------------------------------------------
(* Candidates.                                                             *)

\* A record of a candidate: what counts in it is about its patch.
Kept(r) ==
    /\ r = [field \in {"at", "patch", "marks", "seen", "log", "timedOut", "second", "scope",
                       "excluded", "verdict", "saved", "tested", "proven", "printed"} |-> r[field]]
    /\ r.patch \in Patches \cup {NoPatch}
    /\ ChildrenGiveNoVerdict => (r.marks \cap ParentMarks # {} => r.tested = r.patch)

Resting(r) == r.at \in {"waiting", "done", "dropped"}

LEMMA VerdictKept ==
    ASSUME NEW r, Kept(r), NEW signal
    PROVE  Kept(Verdict(r, signal))
  BY DEF Kept, Verdict

LEMMA ChildLeftKept ==
    ASSUME NEW c \in Ids, DOMAIN cand = Ids, Kept(cand[c]), NEW left \in Leavings, NEW kept,
           ChildLeft(c, left, kept)
    PROVE  /\ Kept(cand'[c]) /\ cand' = [cand EXCEPT ![c] = cand'[c]]
           /\ UNCHANGED <<setup, fpc, launchedUpTo, overdue, decision, parentTree>>
<1> DEFINE marks == ToSet(SubSeq(left.lines, 1, kept))
           new == [cand[c] EXCEPT !.patch = left.patch, !.marks = marks, !.seen = @ \cup marks,
                                  !.timedOut = @ \/ left.late, !.printed = ToSet(left.lines),
                                  !.tested = NoPatch, !.excluded = {}, !.verdict = None,
                                  !.second = cand[c].at = "judge"]
           after == [new EXCEPT !.at = AfterChild(new)]
<1>1. cand' = [cand EXCEPT ![c] = after] /\ kept \in 0 .. Len(left.lines)
  BY DEF ChildLeft, Update
<1>2. ChildrenGiveNoVerdict => marks \cap ParentMarks = {}
  <2>1. ASSUME NEW x \in marks
        PROVE  x \in ToSet(left.lines)
    <3>1. left.lines \in Seq(STRING)
      BY FanoutAssumption
    <3>2. kept \in Nat /\ kept <= Len(left.lines) /\ Len(left.lines) \in Nat
      BY <1>1, <3>1
    <3>3. PICK i \in 1 .. kept : x = left.lines[i]
      BY <2>1, <3>1, <3>2 DEF ToSet
    <3>. QED  BY <3>1, <3>2, <3>3 DEF ToSet
  <2>. QED  BY <2>1 DEF ChildrenGiveNoVerdict
<1>3. Kept(after)
  <2>1. left.patch \in Patches \cup {NoPatch}
    BY FanoutAssumption
  <2>. QED  BY <1>2, <2>1 DEF Kept
<1>4. UNCHANGED <<setup, fpc, launchedUpTo, overdue, decision, parentTree>>
  BY DEF ChildLeft
<1>. QED  BY <1>1, <1>3, <1>4

\* Every step of a candidate's thread changes that candidate, which was not at rest, and
\* at most the variables of the process.
LEMMA ThreadKept ==
    ASSUME NEW c \in Ids, DOMAIN cand = Ids, Kept(cand[c]), CandidateStep(c)
    PROVE  /\ ~Resting(cand[c])
           /\ Kept(cand'[c]) /\ cand' = [cand EXCEPT ![c] = cand'[c]]
           /\ UNCHANGED <<setup, fpc, launchedUpTo, overdue, decision, parentTree>>
<1>1. CASE DropCandidate(c)
  BY <1>1 DEF DropCandidate, Update, Kept, Resting
<1>2. ASSUME cand[c].at \in {"child", "judge"}, NEW left \in Leavings, NEW kept,
             ChildLeft(c, left, kept)
      PROVE  /\ ~Resting(cand[c])
             /\ Kept(cand'[c]) /\ cand' = [cand EXCEPT ![c] = cand'[c]]
             /\ UNCHANGED <<setup, fpc, launchedUpTo, overdue, decision, parentTree>>
  BY <1>2, ChildLeftKept DEF Resting
<1>3. CASE SkipValidation(c)
  <2> DEFINE unavailable == [Verdict(cand[c], "unavailable") EXCEPT
                                !.log = FALSE,
                                !.proven = IF ScopeFor(c) = {} THEN NoPatch ELSE cand[c].patch]
  <2>1. Kept(Verdict(cand[c], cand[c].verdict)) /\ Kept(Verdict(cand[c], "unavailable"))
    BY VerdictKept
  <2>2. Kept(unavailable)
    BY <2>1 DEF Kept
  <2>3. cand[c].at = "validate"
        /\ \/ cand' = [cand EXCEPT ![c] = Verdict(cand[c], cand[c].verdict)]
           \/ cand' = [cand EXCEPT ![c] = unavailable]
    BY <1>3 DEF SkipValidation, Update
  <2>4. UNCHANGED <<setup, fpc, launchedUpTo, overdue, decision, parentTree>>
    BY <1>3 DEF SkipValidation
  <2>. HIDE DEF unavailable
  <2>. QED  BY <2>1, <2>2, <2>3, <2>4 DEF Resting
<1>4. CASE SaveTestEnv(c)
  <2>1. cand[c].at = "validate"
        /\ cand' = [cand EXCEPT ![c] = [cand[c] EXCEPT !.at = "set", !.saved = testEnv,
                                                       !.scope = ScopeFor(c)]]
        /\ UNCHANGED <<setup, fpc, launchedUpTo, overdue, decision, parentTree>>
    BY <1>4 DEF SaveTestEnv, Update
  <2>. QED  BY <2>1 DEF Kept, Resting
<1>5. CASE SetTestEnv(c)
  BY <1>5 DEF SetTestEnv, Update, Kept, Resting
<1>6. CASE RestoreTestEnv(c)
  BY <1>6 DEF RestoreTestEnv, Update, Kept, Resting
<1>7. CASE Finish(c)
  BY <1>7 DEF Finish, Update, Kept, Resting
<1>8. ASSUME NEW out, RunTest(c, out)
      PROVE  /\ ~Resting(cand[c])
             /\ Kept(cand'[c]) /\ cand' = [cand EXCEPT ![c] = cand'[c]]
             /\ UNCHANGED <<setup, fpc, launchedUpTo, overdue, decision, parentTree>>
  <2>1. cand[c].at = "test" /\ UNCHANGED <<setup, fpc, launchedUpTo, overdue, decision, parentTree>>
    BY <1>8 DEF RunTest
  <2>2. PICK log, total, path :
            LET new == [cand[c] EXCEPT !.log = log, !.proven = cand[c].patch, !.verdict = total]
            IN  \/ cand' = [cand EXCEPT ![c] = [new EXCEPT !.at = "restore", !.excluded = {path}]]
                \/ cand' = [cand EXCEPT ![c] = [Verdict(new, total) EXCEPT !.at = "restore"]]
    BY <1>8, Zenon DEF RunTest, Update
  <2> DEFINE new == [cand[c] EXCEPT !.log = log, !.proven = cand[c].patch, !.verdict = total]
  <2>3. Kept(new)
    BY DEF Kept
  <2>4. Kept(Verdict(new, total))
    BY <2>3, VerdictKept
  <2>5. Kept([new EXCEPT !.at = "restore", !.excluded = {path}])
    BY <2>3 DEF Kept
  <2>6. Kept([Verdict(new, total) EXCEPT !.at = "restore"])
    BY <2>4 DEF Kept
  <2>. HIDE DEF new
  <2>. QED  BY <2>1, <2>2, <2>5, <2>6 DEF Resting, new
<1>. QED
  BY <1>1, <1>2, <1>3, <1>4, <1>5, <1>6, <1>7, <1>8 DEF CandidateStep, RunChild, Strengthen

-----------------------------------------------------------------------------
(* Keys.                                                                   *)

LEMMA Places ==
    /\ Candidates \in Seq(Ids) /\ IsFiniteSet(Ids)
    /\ \A c \in Ids : Position(c) \in DOMAIN Candidates /\ Candidates[Position(c)] = c
<1>1. Candidates \in Seq(Ids)
  BY FanoutAssumption DEF Ids
<1>2. ASSUME NEW c \in Ids
      PROVE  Position(c) \in DOMAIN Candidates /\ Candidates[Position(c)] = c
  <2>1. \E i \in DOMAIN Candidates : Candidates[i] = c
    BY <1>1 DEF Ids, ToSet
  <2>. QED  BY <2>1 DEF Position
<1>3. IsFiniteSet(Ids)
  <2>1. IsFiniteSet(1 .. Len(Candidates))
    BY <1>1, FS_Interval
  <2>2. Candidates \in Surjection(1 .. Len(Candidates), Ids)
    BY <1>1 DEF Surjection, Ids, ToSet
  <2>. QED  BY <2>1, <2>2, FS_Surjection
<1>. QED  BY <1>1, <1>2, <1>3

IsPatch(p) == p \in Patches \cup {NoPatch}

LEMMA Sizes ==
    ASSUME NEW c \in Ids, IsPatch(cand[c].patch)
    PROVE  ChangedLines(c) \in Nat /\ Penalty(c) \in Int
<1>1. HasPatch(c) => Info(c) \in PatchRecord
  BY FanoutAssumption DEF HasPatch, Info, IsPatch
<1>2. ChangedLines(c) \in Nat
  BY <1>1 DEF ChangedLines, PatchRecord
<1>3. \A flag : \A weight \in Nat : Weighs(c, flag, weight) \in Nat
  BY DEF Weighs
<1>4. Penalty(c) \in Int
  BY <1>3 DEF Penalty
<1>. QED  BY <1>2, <1>4

LEMMA Scores ==
    ASSUME NEW c \in Ids, IsPatch(cand[c].patch)
    PROVE  score_execution(c) \in Int
<1>1. HypothesisScore[c] \in Nat
  BY FanoutAssumption DEF Ids
<1>2. SignalScore(Signal(c)) \in Int
  BY DEF SignalScore
<1>3. Lesser(HypothesisScore[c], 200) \in Int /\ Lesser(ChangedLines(c), 80) \in Int
  BY <1>1, Sizes DEF Lesser
<1>. QED  BY <1>2, <1>3, Sizes DEF score_execution

LEMMA SignalRanks == \A signal : validation_signal_rank(signal) \in 0 .. 4
  BY DEF validation_signal_rank

LEMMA PositionsDiffer ==
    ASSUME NEW c \in Ids, NEW d \in Ids, Position(c) = Position(d)
    PROVE  c = d
  BY Places

\* The order of the static tiebreak and the ranking of the candidates are orders.
LEMMA StaticKeys ==
    ASSUME NEW ids \in SUBSET Ids, \A c \in ids : IsPatch(cand[c].patch)
    PROVE  Keyed(ids, [c \in ids |-> compare_static_risk_tiebreak(c)], 8)
<1>1. ASSUME NEW c \in ids
      PROVE  compare_static_risk_tiebreak(c) \in [1 .. 8 -> Int]
  <2>1. ChangedLines(c) \in Int /\ Penalty(c) \in Int /\ score_execution(c) \in Int
    BY Sizes, Scores
  <2>2. HypothesisScore[c] \in Int
    BY FanoutAssumption DEF Ids
  <2>3. Position(c) \in Int
    BY Places
  <2>4. \A b : Yes(b) \in Int
    BY DEF Yes
  <2>5. -validation_signal_rank(Signal(c)) \in Int
    BY SignalRanks
  <2>. QED  BY <2>1, <2>2, <2>3, <2>4, <2>5 DEF compare_static_risk_tiebreak
<1>2. ASSUME NEW c \in ids, NEW d \in ids,
             compare_static_risk_tiebreak(c) = compare_static_risk_tiebreak(d)
      PROVE  c = d
  <2>1. Position(c) = Position(d)
    BY <1>2, Zenon DEF compare_static_risk_tiebreak
  <2>. QED  BY <2>1, PositionsDiffer
<1>. QED  BY <1>1, <1>2 DEF Keyed

\* The lines of the candidate at a place, where several may have as many.
LEMMA LinesAt ==
    ASSUME NEW sized \in SUBSET Ids, sized # {}, \A c \in sized : ChangedLines(c) \in Nat,
           NEW k \in Nat
    PROVE  LET place(c) == Cardinality({d \in sized : ChangedLines(d) < ChangedLines(c)})
           IN  (CHOOSE lines \in {ChangedLines(c) : c \in sized} :
                    \E c \in sized : /\ ChangedLines(c) = lines /\ place(c) <= k
                                     /\ \A d \in sized : place(d) <= k => ChangedLines(d) <= lines)
                \in Nat
<1> DEFINE place(c) == Cardinality({d \in sized : ChangedLines(d) < ChangedLines(c)})
           Fewer == {p \in sized \X sized : ChangedLines(p[1]) < ChangedLines(p[2])}
           More == {p \in sized \X sized : ChangedLines(p[2]) < ChangedLines(p[1])}
           low == {c \in sized : place(c) <= k}
<1>1. IsFiniteSet(sized) /\ IsFiniteSet(low)
  BY Places, FS_Subset
<1>2. \A c, d \in sized : /\ <<c, d>> \in Fewer <=> ChangedLines(c) < ChangedLines(d)
                          /\ <<c, d>> \in More <=> ChangedLines(d) < ChangedLines(c)
  OBVIOUS
<1>3. IsStrictOrder(Fewer, sized) /\ IsStrictOrder(More, low)
  <2>1. low \subseteq sized
    OBVIOUS
  <2>. HIDE DEF Fewer, More, low
  <2>. QED  BY <1>2, <2>1 DEF IsStrictOrder
<1>4. low # {}
  <2>1. PICK c \in sized : \A d \in sized : <<d, c>> \notin Fewer
    <3>. HIDE DEF Fewer
    <3>. QED  BY <1>1, <1>3, LeastElement
  <2>2. {d \in sized : ChangedLines(d) < ChangedLines(c)} = {}
    BY <2>1
  <2>3. place(c) = 0
    BY <2>2, FS_EmptySet
  <2>. QED  BY <2>3
<1>5. PICK c \in low : \A d \in low : <<d, c>> \notin More
  <2>. HIDE DEF More, low
  <2>. QED  BY <1>1, <1>3, <1>4, LeastElement
<1>6. \A d \in sized : place(d) <= k => ChangedLines(d) <= ChangedLines(c)
  <2>1. \A d \in low : ~(ChangedLines(c) < ChangedLines(d))
    <3>1. low \subseteq sized
      OBVIOUS
    <3>. HIDE DEF More, low
    <3>. QED  BY <1>2, <1>5, <3>1
  <2>. HIDE DEF place
  <2>. QED  BY <2>1
<1>7. \E lines \in {ChangedLines(d) : d \in sized} :
        \E e \in sized : /\ ChangedLines(e) = lines /\ place(e) <= k
                         /\ \A d \in sized : place(d) <= k => ChangedLines(d) <= lines
  <2>1. c \in sized /\ place(c) <= k
    OBVIOUS
  <2>. HIDE DEF place, low
  <2>. QED  BY <1>6, <2>1
<1>. HIDE DEF place
<1>. QED  BY <1>7 DEF place

LEMMA MedianIsNumber ==
    ASSUME NEW ids \in SUBSET Ids, \A c \in ids : IsPatch(cand[c].patch)
    PROVE  MedianX2(ids) \in Nat
<1> DEFINE sized == {c \in ids : ChangedLines(c) > 0}
           n == Cardinality(sized)
           place(c) == Cardinality({d \in sized : ChangedLines(d) < ChangedLines(c)})
           at(k) == CHOOSE lines \in {ChangedLines(c) : c \in sized} :
                       \E c \in sized : /\ ChangedLines(c) = lines /\ place(c) <= k
                                        /\ \A d \in sized : place(d) <= k => ChangedLines(d) <= lines
<1>1. MedianX2(ids) = IF sized = {} THEN 0
                      ELSE IF n % 2 = 1 THEN 2 * at(n \div 2) ELSE at(n \div 2 - 1) + at(n \div 2)
  BY Zenon DEF MedianX2
<1>2. \A c \in sized : ChangedLines(c) \in Nat
  BY Sizes
<1>3. ASSUME sized # {}, NEW k \in Nat
      PROVE  at(k) \in Nat
  <2>1. sized \in SUBSET Ids
    OBVIOUS
  <2>. HIDE DEF sized
  <2>. QED  BY <1>2, <1>3, <2>1, LinesAt, Zenon
<1>4. sized # {} => n \in Nat /\ n > 0
  <2>1. IsFiniteSet(sized)
    BY Places, FS_Subset
  <2>. HIDE DEF sized
  <2>. QED  BY <2>1, FS_CardinalityType, FS_EmptySet
<1>5. sized # {} => n \div 2 \in Nat /\ (n % 2 # 1 => n \div 2 - 1 \in Nat)
  <2>. HIDE DEF n
  <2>. QED  BY <1>4
<1>. HIDE DEF sized, n, at
<1>. QED  BY <1>1, <1>3, <1>5

LEMMA RankKeys ==
    ASSUME NEW ids \in SUBSET Ids, \A c \in ids : IsPatch(cand[c].patch)
    PROVE  Keyed(ids, [c \in ids |-> compare_execution_rank(c, MedianX2(ids))], 6)
<1> DEFINE median == MedianX2(ids)
<1>1. median \in Nat
  BY MedianIsNumber
<1>. HIDE DEF median
<1>2. ASSUME NEW c \in ids
      PROVE  compare_execution_rank(c, median) \in [1 .. 6 -> Int]
  <2>1. ChangedLines(c) \in Int /\ Penalty(c) \in Int /\ -score_execution(c) \in Int
    BY Sizes, Scores
  <2>2. -HypothesisScore[c] \in Int
    BY FanoutAssumption DEF Ids
  <2>3. Position(c) \in Int
    BY Places
  <2>4. Distance(c, median) \in Int
    BY <1>1, <2>1 DEF Distance
  <2>. QED  BY <2>1, <2>2, <2>3, <2>4 DEF compare_execution_rank
<1>3. ASSUME NEW c \in ids, NEW d \in ids,
             compare_execution_rank(c, median) = compare_execution_rank(d, median)
      PROVE  c = d
  <2>1. Position(c) = Position(d)
    BY <1>3, Zenon DEF compare_execution_rank
  <2>. QED  BY <2>1, PositionsDiffer
<1>4. Keyed(ids, [c \in ids |-> compare_execution_rank(c, median)], 6)
  BY <1>2, <1>3 DEF Keyed
<1>. QED  BY <1>4 DEF median

\* The ranking lists the candidates that may be selected, each once.
LEMMA RankedAreSelectable ==
    ASSUME \A c \in Ids : IsPatch(cand[c].patch)
    PROVE  LET ids == {c \in Ids : Selectable(c)}
           IN  RankedCandidates \in Seq(ids) /\ Len(RankedCandidates) = Cardinality(ids)
<1> DEFINE ids == {c \in Ids : Selectable(c)}
           key == [c \in ids |-> compare_execution_rank(c, MedianX2(ids))]
<1>1. ids \in SUBSET Ids /\ IsFiniteSet(ids)
  BY Places, FS_Subset
<1>2. RankedCandidates = IF ids = {} THEN << >> ELSE InOrder(ids, key)
  BY Zenon DEF RankedCandidates
<1>3. Keyed(ids, key, 6)
  <2>. HIDE DEF ids
  <2>. QED  BY <1>1, RankKeys
<1>4. InOrder(ids, key) \in Seq(ids) /\ Len(InOrder(ids, key)) = Cardinality(ids)
  <2>. HIDE DEF ids, key
  <2>. QED  BY <1>1, <1>3, InOrderLists
<1>5. ids = {} => Cardinality(ids) = 0
  BY FS_EmptySet
<1>. HIDE DEF ids, key
<1>. QED  BY <1>2, <1>4, <1>5 DEF ids

LEMMA MembersOfSeq ==
    ASSUME NEW S, NEW s \in Seq(S), s # << >>
    PROVE  ToSet(s) \in SUBSET S /\ ToSet(s) # {}
<1>1. 1 \in DOMAIN s
  OBVIOUS
<1>. QED  BY <1>1 DEF ToSet

LEMMA FieldIsRanked ==
    ASSUME NEW ids, NEW list \in Seq(ids), list # << >>, setup \in Setups
    PROVE  ArbitrationField(list) \in SUBSET ids /\ ArbitrationField(list) # {}
<1> DEFINE n == Lesser(Len(list), IF setup.arbiterMax = 0 THEN 1 ELSE setup.arbiterMax)
<1>1. setup.arbiterMax \in Nat
  BY FanoutAssumption DEF SetupRecord
<1>2. n \in Nat /\ 1 <= n /\ n <= Len(list)
  BY <1>1 DEF Lesser
<1>3. ArbitrationField(list) = ToSet(SubSeq(list, 1, n))
  BY DEF ArbitrationField
<1>. HIDE DEF n
<1>4. SubSeq(list, 1, n) \in Seq(ids) /\ Len(SubSeq(list, 1, n)) = n
  BY <1>2
<1>5. SubSeq(list, 1, n) # << >>
  BY <1>2, <1>4
<1>6. ToSet(SubSeq(list, 1, n)) \in SUBSET ids /\ ToSet(SubSeq(list, 1, n)) # {}
  BY <1>4, <1>5, MembersOfSeq, Zenon
<1>. QED  BY <1>3, <1>6, Zenon

\* No candidate of the field is better validated than the one the static tiebreak takes.
LEMMA FallbackIsBest ==
    ASSUME NEW field \in SUBSET Ids, field # {}, \A c \in field : IsPatch(cand[c].patch)
    PROVE  LET tiebreak == static_risk_tiebreak_index(field)
           IN  /\ tiebreak \in field
               /\ \A c \in field : validation_signal_rank(Signal(c))
                                      <= validation_signal_rank(Signal(tiebreak))
<1> DEFINE key == [c \in field |-> compare_static_risk_tiebreak(c)]
           tiebreak == static_risk_tiebreak_index(field)
<1>1. Keyed(field, key, 8) /\ IsFiniteSet(field)
  BY StaticKeys, Places, FS_Subset
<1>2. tiebreak = InOrder(field, key)[1]
  BY DEF static_risk_tiebreak_index
<1>3. tiebreak \in field /\ \A c \in field : key[tiebreak][1] <= key[c][1]
  <2>. HIDE DEF key, tiebreak
  <2>. QED  BY <1>1, <1>2, FirstInOrder
<1>4. \A c \in field : key[c][1] = -validation_signal_rank(Signal(c))
  BY DEF compare_static_risk_tiebreak
<1>5. \A c \in field : validation_signal_rank(Signal(c)) \in Int
  BY SignalRanks
<1>. HIDE DEF key, tiebreak
<1>6. \A c \in field : validation_signal_rank(Signal(c)) <= validation_signal_rank(Signal(tiebreak))
  BY <1>3, <1>4, <1>5
<1>. QED  BY <1>3, <1>6 DEF tiebreak

\* The choice is of the field, and none of the field is better validated.
BestOfField(d) ==
    /\ d.choice # None => d.choice \in d.field
    /\ \A c \in d.field :
          validation_signal_rank(Signal(c)) <= validation_signal_rank(Signal(d.choice))

LEMMA SelectChoosesBest ==
    ASSUME setup \in Setups, \A c \in Ids : IsPatch(cand[c].patch), NEW answer, Select(answer)
    PROVE  BestOfField(decision')
<1> DEFINE ids == {c \in Ids : Selectable(c)}
           field == ArbitrationField(RankedCandidates)
           tiebreak == static_risk_tiebreak_index(field)
<1>1. CASE RankedCandidates = << >>
  <2>1. decision' = [choice |-> None, selector |-> "none", field |-> {}]
    BY <1>1 DEF Select
  <2>. QED  BY <2>1 DEF BestOfField
<1>2. CASE decision' = [choice |-> RankedCandidates[1], selector |-> "heuristic",
                        field |-> {RankedCandidates[1]}]
  <2>1. validation_signal_rank(Signal(RankedCandidates[1])) \in Int
    BY SignalRanks
  <2>. QED  BY <1>2, <2>1 DEF BestOfField
<1>3. CASE /\ RankedCandidates # << >>
           /\ decision' = IF answer \in field /\ arbiter_selection_allowed(answer, tiebreak)
                          THEN [choice |-> answer, selector |-> "llm_arbiter", field |-> field]
                          ELSE [choice |-> tiebreak, selector |-> "static_risk_tiebreak",
                                field |-> field]
  <2>1. RankedCandidates \in Seq(ids)
    BY RankedAreSelectable
  <2>2. field \in SUBSET ids /\ field # {}
    <3>. HIDE DEF ids
    <3>. QED  BY <1>3, <2>1, FieldIsRanked
  <2>3. /\ tiebreak \in field
        /\ \A c \in field : validation_signal_rank(Signal(c))
                               <= validation_signal_rank(Signal(tiebreak))
    <3>1. field \in SUBSET Ids /\ \A c \in field : IsPatch(cand[c].patch)
      BY <2>2
    <3>. HIDE DEF field
    <3>. QED  BY <2>2, <3>1, FallbackIsBest
  <2>4. ASSUME arbiter_selection_allowed(answer, tiebreak)
        PROVE  validation_signal_rank(Signal(tiebreak)) <= validation_signal_rank(Signal(answer))
    <3>1. validation_signal_rank(Signal(tiebreak)) \in Int
          /\ validation_signal_rank(Signal(answer)) \in Int
      BY SignalRanks
    <3>. HIDE DEF tiebreak
    <3>. QED  BY <2>4, <3>1 DEF arbiter_selection_allowed
  <2>5. \A c \in Ids : validation_signal_rank(Signal(c)) \in Int
    BY SignalRanks
  <2>. HIDE DEF field, tiebreak
  <2>6. CASE answer \in field /\ arbiter_selection_allowed(answer, tiebreak)
    <3>1. decision' = [choice |-> answer, selector |-> "llm_arbiter", field |-> field]
      BY <1>3, <2>6
    <3>. QED  BY <2>2, <2>3, <2>4, <2>5, <2>6, <3>1 DEF BestOfField
  <2>7. CASE ~(answer \in field /\ arbiter_selection_allowed(answer, tiebreak))
    <3>1. decision' = [choice |-> tiebreak, selector |-> "static_risk_tiebreak", field |-> field]
      BY <1>3, <2>7
    <3>. QED  BY <2>3, <3>1 DEF BestOfField
  <2>. QED  BY <2>6, <2>7
<1>. QED  BY <1>1, <1>2, <1>3, Zenon DEF Select

-----------------------------------------------------------------------------
(* The invariant.                                                          *)

\* Every candidate keeps the tie between its verdict and its patch, has not begun unless it
\* was started and is at rest once the parent has stopped collecting, so that what is
\* known when one is selected is what holds when it is applied.
FanoutInv ==
    /\ setup \in Setups
    /\ launchedUpTo \in Nat
    /\ DOMAIN cand = Ids
    /\ \A c \in Ids : Kept(cand[c])
    /\ \A c \in Ids \ Started : cand[c].at = "waiting"
    /\ fpc # "collecting" => \A c \in Ids : Resting(cand[c])
    /\ fpc \in {"applying", "ended"} => BestOfField(decision)
    /\ parentTree # NoPatch => fpc = "ended"

LEMMA FanoutBegins == FanoutInit => FanoutInv
<1> SUFFICES ASSUME FanoutInit
             PROVE  FanoutInv
  OBVIOUS
<1>1. Kept(Fresh) /\ Resting(Fresh)
  BY DEF Kept, Fresh, Resting
<1>. QED  BY <1>1 DEF FanoutInit, FanoutStarted, FanoutInv, Fresh

\* Nothing else changes while a candidate's thread goes on, nor after the threads rest.
LEMMA SettledKept ==
    ASSUME FanoutInv, UNCHANGED <<setup, launchedUpTo, cand>>, fpc # "collecting" \/ fpc' = fpc,
           fpc' \in {"applying", "ended"} => BestOfField(decision)',
           parentTree' # NoPatch => fpc' = "ended",
           fpc' # "collecting" => fpc # "collecting"
    PROVE  FanoutInv'
  BY DEF FanoutInv, Started, Kept, Resting, ChildrenGiveNoVerdict

LEMMA StartKept ==
    ASSUME FanoutInv, StartChunk
    PROVE  FanoutInv'
<1>1. /\ fpc = "collecting" /\ launchedUpTo < Limit
      /\ launchedUpTo' = Lesser(launchedUpTo + setup.concurrency, Limit)
      /\ cand' = [c \in Ids |-> IF Position(c) \in launchedUpTo + 1 .. launchedUpTo'
                                THEN [Fresh EXCEPT !.at = "child"] ELSE cand[c]]
      /\ UNCHANGED <<setup, fpc, overdue, testEnv, decision, parentTree>>
  BY DEF StartChunk
<1>2. setup.concurrency \in Nat /\ setup.max \in Nat /\ launchedUpTo \in Nat
  BY FanoutAssumption DEF FanoutInv, SetupRecord
<1>3. Limit \in Nat
  BY <1>2, Places DEF Limit, Lesser
<1>4. launchedUpTo' \in Nat /\ launchedUpTo <= launchedUpTo'
  BY <1>1, <1>2, <1>3 DEF Lesser
<1>5. Kept([Fresh EXCEPT !.at = "child"])
  BY DEF Kept, Fresh
<1>6. \A c \in Ids : Kept(cand'[c])
  BY <1>1, <1>5 DEF FanoutInv
<1>7. ASSUME NEW c \in Ids \ Started'
      PROVE  cand'[c].at = "waiting"
  <2>1. c \notin Started
    BY <1>2, <1>4, <1>7 DEF Started
  <2>2. Position(c) \notin launchedUpTo + 1 .. launchedUpTo'
    <3>1. Candidates[Position(c)] = c
      BY Places
    <3>2. Position(c) \notin 1 .. launchedUpTo'
      BY <1>7, <3>1 DEF Started
    <3>. QED  BY <1>2, <1>4, <3>2
  <2>. QED  BY <1>1, <2>1, <2>2 DEF FanoutInv
<1>. QED  BY <1>1, <1>4, <1>6, <1>7 DEF FanoutInv, Kept, ChildrenGiveNoVerdict

LEMMA FanoutKept ==
    ASSUME FanoutInv, [FanoutNext]_fanoutVars
    PROVE  FanoutInv'
<1>1. CASE UNCHANGED fanoutVars
  <2>1. BestOfField(decision)' = BestOfField(decision)
    BY <1>1 DEF BestOfField, fanoutVars, Signal
  <2>. QED  BY <1>1, <2>1, SettledKept DEF fanoutVars, FanoutInv
<1>2. ASSUME NEW c \in Ids, CandidateStep(c)
      PROVE  FanoutInv'
  <2>1. /\ ~Resting(cand[c])
        /\ Kept(cand'[c]) /\ cand' = [cand EXCEPT ![c] = cand'[c]]
        /\ UNCHANGED <<setup, fpc, launchedUpTo, overdue, decision, parentTree>>
    BY <1>2, ThreadKept DEF FanoutInv
  <2>2. fpc = "collecting" /\ c \in Started
    BY <2>1 DEF FanoutInv, Resting
  <2>3. Started' = Started
    BY <2>1 DEF Started
  <2>. QED  BY <2>1, <2>2, <2>3 DEF FanoutInv, Kept, ChildrenGiveNoVerdict
<1>3. CASE DeadlinePasses
  BY <1>3, SettledKept DEF DeadlinePasses, FanoutInv
<1>4. CASE StartChunk
  BY <1>4, StartKept
<1>5. CASE StopCollecting
  <2>1. /\ fpc = "collecting" /\ \A c \in Started : Finished(c)
        /\ fpc' = "selecting"
        /\ UNCHANGED <<setup, launchedUpTo, overdue, cand, testEnv, decision, parentTree>>
    BY <1>5 DEF StopCollecting
  <2>2. \A c \in Ids : Resting(cand[c])
    BY <2>1 DEF Finished, Resting, FanoutInv
  <2>. QED  BY <2>1, <2>2 DEF FanoutInv, Started, Kept, Resting, ChildrenGiveNoVerdict
<1>6. ASSUME NEW answer, Select(answer)
      PROVE  FanoutInv'
  <2>1. fpc = "selecting" /\ fpc' = "applying"
        /\ UNCHANGED <<setup, launchedUpTo, overdue, cand, testEnv, parentTree>>
    BY <1>6 DEF Select
  <2>2. BestOfField(decision')
    BY <1>6, SelectChoosesBest DEF FanoutInv, Kept, IsPatch
  <2>3. BestOfField(decision)'
    BY <2>1, <2>2 DEF BestOfField, Signal
  <2>. QED  BY <2>1, <2>3, SettledKept DEF FanoutInv
<1>7. ASSUME NEW taken, Apply(taken)
      PROVE  FanoutInv'
  <2>1. fpc = "applying" /\ fpc' = "ended"
        /\ UNCHANGED <<setup, launchedUpTo, overdue, cand, testEnv, decision>>
    BY <1>7 DEF Apply
  <2>2. BestOfField(decision)'
    BY <2>1 DEF BestOfField, Signal, FanoutInv
  <2>. QED  BY <2>1, <2>2, SettledKept
<1>. QED  BY <1>1, <1>2, <1>3, <1>4, <1>5, <1>6, <1>7 DEF FanoutNext

LEMMA FanoutInvariant == FanoutSpec => []FanoutInv
  BY FanoutBegins, FanoutKept, PTL DEF FanoutSpec

\* The verdict that counts for a finished candidate is about the patch that would be
\* applied, for any number of children, leavings and outputs of tests, if no child prints
\* a parent's verdict (candidate_fanout.rs, the evidence epoch of a second child).
THEOREM VerdictsAreOfPatches ==
    ASSUME ChildrenGiveNoVerdict
    PROVE  FanoutSpec => []VerdictIsOfPatch
<1>1. FanoutInv => VerdictIsOfPatch
  BY DEF FanoutInv, Kept, VerdictIsOfPatch
<1>. QED  BY <1>1, FanoutInvariant, PTL

\* Whatever the arbiter answers, no candidate it could choose from is better validated than
\* the one applied (arbiter_selection_allowed, static_risk_tiebreak_index).
THEOREM ArbiterNeverWeakens == FanoutSpec => []ArbiterWeakensNothing
<1>1. FanoutInv => ArbiterWeakensNothing
  BY DEF FanoutInv, BestOfField, ArbiterWeakensNothing
<1>. QED  BY <1>1, FanoutInvariant, PTL

=============================================================================
