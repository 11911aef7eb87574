-------------------------- MODULE CycleMemoryProofs --------------------------
(***************************************************************************)
(* The safety of CycleMemory, for any finite set of markets, any limit of  *)
(* notes and any number of cycles, saves and edits: the list of priorities *)
(* is what its history says, it is a queue, and no note of the running     *)
(* cycle is evicted while an older one is left.                            *)
(***************************************************************************)
EXTENDS CycleMemory, FiniteSetTheorems, SequenceTheorems, WellFoundedInduction, TLAPS

Notes == [created : Nat, cycle : Nat, accessed : Nat]

(* A running cycle has read the priorities that still stand; no cycle that *)
(* planned, or evicted a note of its own, is later than the current one,   *)
(* and none that planned is the running one.                               *)
PlanRead ==
    /\ stage # "off" => prev = priorities
    /\ \A m \in Markets :
          /\ lastHot[m] <= cycle /\ lastTraded[m] <= cycle
          /\ stage # "off" => lastHot[m] < cycle /\ lastTraded[m] < cycle

(* The notes are of cycles up to the current one, which writes none before *)
(* its agents are done.                                                    *)
NotesDated ==
    /\ IsFiniteSet(notes) /\ notes \subseteq Notes
    /\ lostFresh <= cycle
    /\ \A n \in notes :
          /\ n.cycle <= cycle
          /\ stage \in {"context", "agents"} => n.cycle < cycle

(* The notes the running cycle wrote are more recent than those it read.   *)
OlderGoFirst ==
    stage = "notes" =>
       \A n, m \in notes :
          n.cycle = cycle /\ m.cycle < cycle => m.accessed < n.accessed

Inv ==
    /\ TypeOK /\ PlanRead /\ NotesDated /\ OlderGoFirst
    /\ PrioritiesAreHistory /\ FreshNotesSurvive
-----------------------------------------------------------------------------
(* Lists in order. *)
Rising(s) == \A i, j \in DOMAIN s : i < j => s[i] < s[j]

HasSmallest(T) == \E t \in T : \A u \in T : ~ (u \subseteq t /\ u # t)

(* Finite-set induction without a predicate: a non-empty set of subsets of *)
(* a finite set has one with no smaller one in the set.                     *)
LEMMA Smallest ==
  \A S, T : IsFiniteSet(S) /\ T \in SUBSET SUBSET S /\ T # {} => HasSmallest(T)
<1> SUFFICES ASSUME NEW S, IsFiniteSet(S), NEW T \in SUBSET SUBSET S, T # {}
             PROVE  HasSmallest(T)
  OBVIOUS
<1>1. IsWellFoundedOn(StrictSubsetOrdering(S), FiniteSubsetsOf(S))
  BY FS_StrictSubsetOrderingWellFounded
<1>2. FiniteSubsetsOf(S) = SUBSET S
  BY FS_FiniteSubsetsOfFinite
<1>3. \E t \in T : \A u \in T : ~ (<<u, t>> \in StrictSubsetOrdering(S))
  BY <1>1, <1>2, WFMin
<1> QED
  BY <1>3 DEF HasSmallest, StrictSubsetOrdering

(* A finite set of numbers has a greatest one.                             *)
LEMMA Greatest ==
  ASSUME NEW S, IsFiniteSet(S), S \subseteq Nat, S # {}
  PROVE  \E x \in S : \A y \in S : y <= x
<1> DEFINE Above(x) == {y \in S : x <= y}
           T == {Above(x) : x \in S}
<1>1. T \in SUBSET SUBSET S /\ T # {}
  OBVIOUS
<1>2. PICK t \in T : \A u \in T : ~ (u \subseteq t /\ u # t)
  <2>1. HasSmallest(T)
    <3> HIDE DEF T
    <3> QED
      BY <1>1, Smallest
  <2> QED
    BY <2>1 DEF HasSmallest
<1>3. PICK x \in S : t = Above(x)
  OBVIOUS
<1>4. ASSUME NEW y \in S, ~ (y <= x)
      PROVE  FALSE
  <2>1. x \in Nat /\ y \in Nat /\ x < y
    BY <1>4
  <2>2. \A z \in Nat : y <= z => x <= z
    BY <2>1
  <2>3. x <= x /\ ~ (y <= x)
    BY <2>1
  <2>4. Above(y) \subseteq Above(x) /\ x \in Above(x) /\ x \notin Above(y)
    BY <2>2, <2>3
  <2> QED
    BY <2>4, <1>2, <1>3
<1> QED
  BY <1>4

(* A list in order, with a greater number added at its end.                *)
LEMMA OneGreater ==
  ASSUME NEW S, IsFiniteSet(S), S \subseteq Nat, NEW x \in Nat,
         x \notin S, \A y \in S : y <= x,
         NEW s \in SetToSeqs(S), Rising(s)
  PROVE  \E r \in SetToSeqs(S \union {x}) : Rising(r)
<1> DEFINE n == Cardinality(S)
           r == [i \in 1 .. n + 1 |-> IF i = n + 1 THEN x ELSE s[i]]
<1>1. n \in Nat /\ Cardinality(S \union {x}) = n + 1
  BY FS_CardinalityType, FS_AddElement
<1>2. s \in [1 .. n -> S] /\ \A i, j \in 1 .. n : i # j => s[i] # s[j]
  BY DEF SetToSeqs
<1>3. ASSUME NEW i \in 1 .. n
      PROVE  s[i] \in S /\ s[i] \in Nat /\ s[i] < x
  <2>1. s[i] \in S
    BY <1>2
  <2>2. s[i] \in Nat /\ s[i] <= x /\ s[i] # x
    BY <2>1
  <2> QED
    BY <2>1, <2>2
<1> HIDE DEF n
<1>4. r \in [1 .. n + 1 -> S \union {x}]
  BY <1>1, <1>3
<1>5. \A i, j \in 1 .. n + 1 : i < j => r[i] < r[j]
  BY <1>1, <1>2, <1>3 DEF Rising
<1>6. \A i, j \in 1 .. n + 1 : i # j => r[i] # r[j]
  BY <1>1, <1>2, <1>3
<1>7. r \in SetToSeqs(S \union {x})
  BY <1>1, <1>4, <1>6 DEF SetToSeqs
<1> QED
  BY <1>5, <1>7 DEF Rising

(* Every finite set of numbers can be put in order.                        *)
LEMMA CanBeSorted ==
  ASSUME NEW S, IsFiniteSet(S), S \subseteq Nat
  PROVE  \E s \in SetToSeqs(S) : Rising(s)
<1> DEFINE T == {t \in SUBSET S : ~ \E s \in SetToSeqs(t) : Rising(s)}
<1>1. SUFFICES ASSUME T # {} PROVE FALSE
  OBVIOUS
<1>2. PICK t \in T : \A u \in T : ~ (u \subseteq t /\ u # t)
  <2>1. T \in SUBSET SUBSET S
    OBVIOUS
  <2>2. HasSmallest(T)
    <3> HIDE DEF T
    <3> QED
      BY <1>1, <2>1, Smallest
  <2> QED
    BY <2>2 DEF HasSmallest
<1>3. t \subseteq Nat /\ IsFiniteSet(t)
  BY FS_Subset
<1>4. t # {}
  <2>1. <<>> \in SetToSeqs({}) /\ Rising(<<>>)
    BY FS_EmptySet DEF SetToSeqs, Rising
  <2> QED
    BY <2>1
<1>5. PICK x \in t : \A y \in t : y <= x
  BY <1>3, <1>4, Greatest
<1>6. PICK s \in SetToSeqs(t \ {x}) : Rising(s)
  BY <1>2
<1>7. IsFiniteSet(t \ {x}) /\ (t \ {x}) \union {x} = t
  BY <1>3, FS_RemoveElement
<1>8. \E r \in SetToSeqs((t \ {x}) \union {x}) : Rising(r)
  BY <1>5, <1>6, <1>7, OneGreater
<1> QED
  BY <1>7, <1>8

(* What Sorted returns, for every finite set of numbers.                   *)
LEMMA SortedSet ==
  ASSUME NEW S, IsFiniteSet(S), S \subseteq Nat
  PROVE  /\ Sorted(S) \in Seq(S) /\ Rising(Sorted(S))
         /\ IsInjective(Sorted(S)) /\ ToSet(Sorted(S)) = S
<1> DEFINE s == Sorted(S)
           n == Cardinality(S)
<1>1. s \in SetToSeqs(S) /\ Rising(s)
  BY CanBeSorted DEF Sorted, Rising
<1>2. n \in Nat
  BY FS_CardinalityType
<1>3. s \in [1 .. n -> S] /\ \A i, j \in 1 .. n : i # j => s[i] # s[j]
  BY <1>1 DEF SetToSeqs
<1> HIDE DEF s
<1>4. IsInjective(s) /\ s \in Injection(1 .. n, S)
  BY <1>3 DEF IsInjective, Injection
<1>5. Cardinality(1 .. n) = n
  BY <1>2, FS_Interval
<1>6. s \in Surjection(1 .. n, S)
  BY <1>4, <1>5, FS_Injection
<1>7. ToSet(s) = S
  BY <1>3, <1>6 DEF Surjection, ToSet
<1>8. s \in Seq(S)
  BY <1>2, <1>3
<1> QED
  BY <1>1, <1>4, <1>7, <1>8 DEF s

(* What Kept returns, for every list and set of markets.                   *)
LEMMA KeptList ==
  ASSUME NEW list \in Seq(Markets), NEW ms
  PROVE  /\ Kept(list, ms) \in Seq(Markets)
         /\ ToSet(Kept(list, ms)) = ToSet(list) \intersect ms
         /\ IsInjective(list) => IsInjective(Kept(list, ms))
<1> DEFINE P == {i \in DOMAIN list : list[i] \in ms}
           at == Sorted(P)
           k == [i \in DOMAIN at |-> list[at[i]]]
<1>1. k = Kept(list, ms)
  BY DEF Kept
<1>2. DOMAIN list = 1 .. Len(list) /\ Len(list) \in Nat
  OBVIOUS
<1>3. P \subseteq Nat /\ IsFiniteSet(P)
  <2>1. IsFiniteSet(1 .. Len(list))
    BY <1>2, FS_Interval
  <2>2. P \in SUBSET (1 .. Len(list))
    BY <1>2
  <2>3. IsFiniteSet(P)
    <3> HIDE DEF P
    <3> QED
      BY <2>1, <2>2, FS_Subset
  <2> QED
    BY <2>2, <2>3
<1>4. at \in Seq(P) /\ IsInjective(at) /\ ToSet(at) = P
  BY <1>3, SortedSet
<1>5. \A i \in DOMAIN at : at[i] \in DOMAIN list /\ list[at[i]] \in ms
  BY <1>4
<1> HIDE DEF at
<1>6. k \in Seq(Markets)
  <2>1. DOMAIN at = 1 .. Len(at) /\ Len(at) \in Nat
    BY <1>4
  <2>2. \A i \in DOMAIN at : list[at[i]] \in Markets
    BY <1>5
  <2> QED
    BY <2>1, <2>2
<1>7. ToSet(k) = ToSet(list) \intersect ms
  BY <1>4, <1>5 DEF ToSet
<1>8. ASSUME IsInjective(list) PROVE IsInjective(k)
  BY <1>4, <1>8 DEF IsInjective
<1> QED
  BY <1>1, <1>6, <1>7, <1>8

(* Two sets that have the same members of a list keep the same of it.      *)
LEMMA KeptSame ==
  ASSUME NEW list, NEW A, NEW B,
         \A i \in DOMAIN list : list[i] \in A <=> list[i] \in B
  PROVE  Kept(list, A) = Kept(list, B)
<1>1. {i \in DOMAIN list : list[i] \in A} = {i \in DOMAIN list : list[i] \in B}
  OBVIOUS
<1> QED
  BY <1>1 DEF Kept

(* A list followed by another.                                             *)
LEMMA Followed ==
  ASSUME NEW s \in Seq(Markets), NEW t \in Seq(Markets)
  PROVE  /\ s \o t \in Seq(Markets)
         /\ ToSet(s \o t) = ToSet(s) \union ToSet(t)
         /\ IsInjective(s) /\ IsInjective(t) /\ ToSet(s) \intersect ToSet(t) = {}
               => IsInjective(s \o t)
         /\ IsPrefix(s, s \o t)
<1> DEFINE r == s \o t
<1>1. /\ r \in Seq(Markets) /\ Len(r) = Len(s) + Len(t)
      /\ \A i \in 1 .. Len(s) + Len(t) :
            r[i] = IF i <= Len(s) THEN s[i] ELSE t[i - Len(s)]
  BY ConcatProperties
<1>2. /\ Len(s) \in Nat /\ Len(t) \in Nat
      /\ DOMAIN s = 1 .. Len(s) /\ DOMAIN t = 1 .. Len(t)
      /\ DOMAIN r = 1 .. Len(s) + Len(t)
  BY <1>1, LenProperties
<1> HIDE DEF r
<1>3. \A i \in DOMAIN s : i \in DOMAIN r /\ r[i] = s[i]
  BY <1>1, <1>2
<1>4. \A i \in DOMAIN t : i + Len(s) \in DOMAIN r /\ r[i + Len(s)] = t[i]
  BY <1>1, <1>2
<1>5. \A i \in DOMAIN r :
         IF i <= Len(s) THEN i \in DOMAIN s /\ r[i] = s[i]
         ELSE i - Len(s) \in DOMAIN t /\ r[i] = t[i - Len(s)]
  BY <1>1, <1>2
<1>6. ToSet(r) = ToSet(s) \union ToSet(t)
  <2>1. ToSet(s) \subseteq ToSet(r) /\ ToSet(t) \subseteq ToSet(r)
    BY <1>3, <1>4 DEF ToSet
  <2>2. ToSet(r) \subseteq ToSet(s) \union ToSet(t)
    BY <1>5 DEF ToSet
  <2> QED
    BY <2>1, <2>2
<1>7. ASSUME IsInjective(s), IsInjective(t), ToSet(s) \intersect ToSet(t) = {},
             NEW i \in DOMAIN r, NEW j \in DOMAIN r, r[i] = r[j]
      PROVE  i = j
  <2>1. \A a \in DOMAIN s, b \in DOMAIN t : s[a] # t[b]
    BY <1>7 DEF ToSet
  <2>2. i \in Nat /\ j \in Nat
    BY <1>2
  <2>3. CASE i <= Len(s) /\ j <= Len(s)
    BY <1>5, <1>7, <2>3 DEF IsInjective
  <2>4. CASE ~ (i <= Len(s)) /\ ~ (j <= Len(s))
    <3>1. i - Len(s) = j - Len(s)
      BY <1>5, <1>7, <2>4 DEF IsInjective
    <3> QED
      BY <3>1, <2>2, <1>2
  <2> QED
    BY <1>5, <1>7, <2>1, <2>3, <2>4
<1>8. IsInjective(s) /\ IsInjective(t) /\ ToSet(s) \intersect ToSet(t) = {}
         => IsInjective(r)
  BY <1>7 DEF IsInjective
<1>9. IsPrefix(s, r)
  <2>1. Len(s) <= Len(r)
    BY <1>1, <1>2
  <2>2. SubSeq(s, 1, Len(s)) = SubSeq(r, 1, Len(s))
    BY <1>1, <1>2, <1>3
  <2> QED
    BY <2>1, <2>2 DEF IsPrefix
<1> QED
  BY <1>6, <1>8, <1>9 DEF r

(* What _next_priorities returns: the carried markets in their order, then *)
(* the new ones, each once.                                                *)
LEMMA PlanList ==
  ASSUME prev \in Seq(Markets), IsInjective(prev),
         hot \subseteq Markets, traded \subseteq Markets
  PROVE  /\ NextPriorities \in Seq(Markets) /\ IsInjective(NextPriorities)
         /\ ToSet(NextPriorities) = (ToSet(prev) \union hot) \ traded
         /\ IsPrefix(Kept(prev, Markets \ traded), NextPriorities)
<1> DEFINE carried == Kept(prev, Markets \ traded)
           fresh == hot \ (traded \union ToSet(carried))
           added == Sorted(fresh)
<1>1. /\ carried \in Seq(Markets) /\ IsInjective(carried)
      /\ ToSet(carried) = ToSet(prev) \intersect (Markets \ traded)
  BY KeptList
<1>2. ToSet(prev) \subseteq Markets
  BY DEF ToSet
<1>3. fresh \subseteq Markets /\ fresh \subseteq Nat /\ IsFiniteSet(fresh)
  <2>1. fresh \subseteq Markets
    OBVIOUS
  <2>2. IsFiniteSet(Markets) /\ Markets \subseteq Nat
    BY MemoryAssumption
  <2> HIDE DEF fresh
  <2> QED
    BY <2>1, <2>2, FS_Subset
<1>4. added \in Seq(fresh) /\ IsInjective(added) /\ ToSet(added) = fresh
  <2> HIDE DEF fresh
  <2> QED
    BY <1>3, SortedSet
<1>5. added \in Seq(Markets)
  <2> HIDE DEF fresh, added
  <2> QED
    BY <1>3, <1>4, SeqMonotonic
<1>6. ToSet(carried) \intersect fresh = {}
  OBVIOUS
<1>7. ToSet(carried) \union fresh = (ToSet(prev) \union hot) \ traded
  BY <1>1, <1>2
<1>8. NextPriorities = carried \o added
  BY DEF NextPriorities
<1> HIDE DEF carried, fresh, added
<1>9. /\ carried \o added \in Seq(Markets) /\ IsInjective(carried \o added)
      /\ ToSet(carried \o added) = ToSet(carried) \union fresh
      /\ IsPrefix(carried, carried \o added)
  BY <1>1, <1>4, <1>5, <1>6, Followed
<1> QED
  BY <1>7, <1>8, <1>9 DEF carried

(* The first n numbers in order are the identity.                          *)
LEMMA SortedInterval ==
  ASSUME NEW n \in Nat
  PROVE  Sorted(1 .. n) = [i \in 1 .. n |-> i]
<1> DEFINE s == Sorted(1 .. n)
           wrong == {i \in 1 .. n : s[i] # i}
<1>1. 1 .. n \subseteq Nat /\ IsFiniteSet(1 .. n) /\ Cardinality(1 .. n) = n
  BY FS_Interval
<1>2. s \in SetToSeqs(1 .. n)
  BY <1>1, CanBeSorted DEF Sorted, Rising
<1>3. s \in [1 .. n -> 1 .. n]
  BY <1>1, <1>2 DEF SetToSeqs
<1>4. Rising(s) /\ IsInjective(s) /\ ToSet(s) = 1 .. n
  BY <1>1, SortedSet
<1> HIDE DEF s
<1>5. SUFFICES ASSUME wrong # {} PROVE FALSE
  BY <1>3 DEF s
<1>6. PICK i \in wrong : \A j \in wrong : j <= i
  <2>1. wrong \subseteq 1 .. n
    OBVIOUS
  <2>2. IsFiniteSet(wrong) /\ wrong \subseteq Nat
    <3> HIDE DEF wrong
    <3> QED
      BY <1>1, <2>1, FS_Subset
  <2> HIDE DEF wrong
  <2> QED
    BY <1>5, <2>2, Greatest
<1>7. \A j \in 1 .. n : j > i => s[j] = j
  BY <1>6
<1>8. s[i] < i
  BY <1>3, <1>4, <1>7 DEF IsInjective
<1>9. PICK j \in 1 .. n : s[j] = i
  BY <1>3, <1>4 DEF ToSet
<1>10. CASE j < i
  BY <1>3, <1>4, <1>8, <1>9, <1>10 DEF Rising
<1>11. CASE j > i
  BY <1>7, <1>9, <1>11
<1> QED
  BY <1>9, <1>10, <1>11

(* A list that keeps all it has stays as it is.                            *)
LEMMA KeptWhole ==
  ASSUME NEW list \in Seq(Markets)
  PROVE  /\ Kept(list, ToSet(list)) = list
         /\ IsPrefix(Kept(list, ToSet(list)), list)
<1> DEFINE P == {i \in DOMAIN list : list[i] \in ToSet(list)}
<1>1. Len(list) \in Nat /\ DOMAIN list = 1 .. Len(list)
      /\ list \in [1 .. Len(list) -> Markets]
  BY LenProperties
<1>2. P = 1 .. Len(list)
  BY <1>1 DEF ToSet
<1>3. Sorted(P) = [i \in 1 .. Len(list) |-> i]
  <2> HIDE DEF P
  <2> QED
    BY <1>1, <1>2, SortedInterval
<1>4. Kept(list, ToSet(list)) = [i \in DOMAIN Sorted(P) |-> list[Sorted(P)[i]]]
  BY DEF Kept
<1>5. Kept(list, ToSet(list)) = list
  <2> HIDE DEF P
  <2>1. [i \in DOMAIN Sorted(P) |-> list[Sorted(P)[i]]]
           = [i \in 1 .. Len(list) |-> list[i]]
    BY <1>3
  <2> QED
    BY <1>1, <1>4, <2>1
<1>6. IsPrefix(list, list)
  BY <1>1 DEF IsPrefix
<1> QED
  BY <1>5, <1>6

(* A plan that carries the list it read queues what is new behind it.      *)
LEMMA PlanQueues ==
  ASSUME prev = priorities, prev \in Seq(Markets), IsInjective(prev),
         hot \subseteq Markets, traded \subseteq Markets,
         priorities' = NextPriorities
  PROVE  IsPrefix(Kept(priorities, ToSet(priorities')), priorities')
<1>1. /\ ToSet(NextPriorities) = (ToSet(prev) \union hot) \ traded
      /\ IsPrefix(Kept(prev, Markets \ traded), NextPriorities)
  BY PlanList
<1>2. \A i \in DOMAIN prev :
         prev[i] \in ToSet(NextPriorities) <=> prev[i] \in Markets \ traded
  BY <1>1 DEF ToSet
<1>3. Kept(prev, ToSet(NextPriorities)) = Kept(prev, Markets \ traded)
  BY <1>2, KeptSame
<1> QED
  BY <1>1, <1>3
-----------------------------------------------------------------------------
(* The notes. *)
(* A touched note differs in the time of its last access only.             *)
LEMMA TouchedNote ==
  ASSUME NEW n \in Notes, clock \in Nat
  PROVE  /\ Touched(n) \in Notes
         /\ Touched(n).created = n.created /\ Touched(n).cycle = n.cycle
         /\ Touched(n).accessed = clock + 1
  BY DEF Touched, Notes

LEMMA ReadKeepsTypes ==
  ASSUME NotesTypeOK, notes \subseteq Notes, IsFiniteSet(notes), ReadNotes
  PROVE  /\ NotesTypeOK' /\ notes' \subseteq Notes
         /\ IsFiniteSet(notes') /\ Cardinality(notes') <= Cardinality(notes)
<1>1. clock \in Nat /\ clock' = clock + 1 /\ UNCHANGED <<lostFresh, edits>>
  BY DEF NotesTypeOK, ReadNotes
<1>2. ASSUME NEW n \in notes'
      PROVE  /\ n \in Notes /\ n.created \in 1 .. clock' /\ n.cycle \in Nat
             /\ n.accessed \in n.created .. clock'
  <2>1. PICK m \in notes : n = Touched(m)
    BY DEF ReadNotes
  <2>2. m \in Notes /\ m.created \in 1 .. clock /\ m.cycle \in Nat
    BY DEF NotesTypeOK
  <2>3. /\ n \in Notes /\ n.created = m.created /\ n.cycle = m.cycle
        /\ n.accessed = clock + 1
    BY <1>1, <2>1, TouchedNote
  <2> QED
    BY <1>1, <2>2, <2>3
<1>3. NotesTypeOK' /\ notes' \subseteq Notes
  BY <1>1, <1>2 DEF NotesTypeOK
<1> DEFINE touch == [n \in notes |-> Touched(n)]
<1>4. touch \in Surjection(notes, notes')
  BY DEF ReadNotes, Surjection
<1> HIDE DEF touch
<1>5. IsFiniteSet(notes') /\ Cardinality(notes') <= Cardinality(notes)
  BY <1>4, FS_Surjection
<1> QED
  BY <1>3, <1>5

(* A note in place of another, which leaves no more notes than there were. *)
LEMMA Replaced ==
  ASSUME NotesTypeOK, notes \subseteq Notes, IsFiniteSet(notes),
         NEW n \in notes, NEW k \in Notes,
         k.created \in 1 .. clock + 1, k.accessed = clock + 1,
         notes' = (notes \ {n}) \union {k}, clock' = clock + 1,
         lostFresh' \in Nat, edits' \in 0 .. MaxEdits
  PROVE  /\ NotesTypeOK' /\ notes' \subseteq Notes
         /\ IsFiniteSet(notes') /\ Cardinality(notes') <= Cardinality(notes)
<1>1. clock \in Nat /\ clock' \in Nat
  BY DEF NotesTypeOK
<1>2. ASSUME NEW m \in notes'
      PROVE  /\ m \in Notes /\ m.created \in 1 .. clock' /\ m.cycle \in Nat
             /\ m.accessed \in m.created .. clock'
  <2>1. CASE m = k
    BY <1>1, <2>1 DEF Notes
  <2>2. CASE m \in notes
    <3>1. /\ m.created \in 1 .. clock /\ m.cycle \in Nat
          /\ m.accessed \in m.created .. clock
      BY <2>2 DEF NotesTypeOK
    <3> QED
      BY <1>1, <2>2, <3>1
  <2> QED
    BY <2>1, <2>2
<1>3. NotesTypeOK' /\ notes' \subseteq Notes
  BY <1>1, <1>2 DEF NotesTypeOK
<1>4. /\ IsFiniteSet(notes \ {n})
      /\ Cardinality(notes \ {n}) = Cardinality(notes) - 1
      /\ Cardinality(notes) \in Nat
  BY FS_RemoveElement, FS_CardinalityType
<1>5. IsFiniteSet(notes') /\ Cardinality(notes') <= Cardinality(notes \ {n}) + 1
  <2> DEFINE rest == notes \ {n}
  <2>1. IsFiniteSet(rest) /\ Cardinality(rest) \in Nat
    BY <1>4, FS_CardinalityType
  <2> HIDE DEF rest
  <2>2. /\ IsFiniteSet(rest \union {k})
        /\ Cardinality(rest \union {k}) =
              IF k \in rest THEN Cardinality(rest) ELSE Cardinality(rest) + 1
    BY <2>1, FS_AddElement
  <2>3. Cardinality(rest \union {k}) <= Cardinality(rest) + 1
    BY <2>1, <2>2
  <2> QED
    BY <2>2, <2>3 DEF rest
<1> QED
  BY <1>3, <1>4, <1>5

LEMMA EditKeepsTypes ==
  ASSUME NotesTypeOK, notes \subseteq Notes, IsFiniteSet(notes),
         NEW n \in notes, EditNote(n)
  PROVE  /\ NotesTypeOK' /\ notes' \subseteq Notes
         /\ IsFiniteSet(notes') /\ Cardinality(notes') <= Cardinality(notes)
<1>1. /\ clock \in Nat /\ n \in Notes /\ n.created \in 1 .. clock
      /\ lostFresh' \in Nat /\ edits' \in 0 .. MaxEdits
  BY NotesAssumption DEF NotesTypeOK, EditNote
<1>2. /\ Touched(n) \in Notes /\ Touched(n).created \in 1 .. clock + 1
      /\ Touched(n).accessed = clock + 1
  BY <1>1, TouchedNote
<1> QED
  BY <1>1, <1>2, Replaced DEF EditNote

LEMMA NewNoteFields ==
  ASSUME NEW c \in Nat, clock \in Nat
  PROVE  /\ NewNote(c) \in Notes /\ NewNote(c).cycle = c
         /\ NewNote(c).created = clock + 1 /\ NewNote(c).accessed = clock + 1
  BY DEF NewNote, Notes

(* A write leaves at most MaxNotes notes.                                  *)
LEMMA WriteKeepsTypes ==
  ASSUME NotesTypeOK, notes \subseteq Notes, IsFiniteSet(notes),
         Cardinality(notes) <= MaxNotes, NEW c \in Nat, WriteNote(c)
  PROVE  /\ NotesTypeOK' /\ notes' \subseteq Notes
         /\ IsFiniteSet(notes') /\ Cardinality(notes') <= MaxNotes
<1>1. /\ clock \in Nat /\ clock' = clock + 1 /\ UNCHANGED edits
      /\ lostFresh \in Nat /\ edits \in 0 .. MaxEdits
      /\ Cardinality(notes) \in Nat /\ MaxNotes \in Nat \ {0}
  BY FS_CardinalityType, NotesAssumption DEF NotesTypeOK, WriteNote
<1>2. /\ NewNote(c) \in Notes /\ NewNote(c).created \in 1 .. clock + 1
      /\ NewNote(c).accessed = clock + 1
  BY <1>1, NewNoteFields
<1>3. CASE Cardinality(notes) >= MaxNotes
  <2>1. PICK n \in notes : /\ notes' = (notes \ {n}) \union {NewNote(c)}
                           /\ lostFresh' = IF n.cycle = c THEN c ELSE lostFresh
    BY <1>3 DEF WriteNote
  <2>3. /\ NotesTypeOK' /\ notes' \subseteq Notes
        /\ IsFiniteSet(notes') /\ Cardinality(notes') <= Cardinality(notes)
    BY <1>1, <1>2, <2>1, Replaced
  <2>4. Cardinality(notes') \in Nat
    BY <2>3, FS_CardinalityType
  <2> QED
    BY <1>1, <2>3, <2>4
<1>4. CASE ~ (Cardinality(notes) >= MaxNotes)
  <2>1. notes' = notes \union {NewNote(c)} /\ UNCHANGED lostFresh
    BY <1>4 DEF WriteNote
  <2>2. IsFiniteSet(notes') /\ Cardinality(notes') <= Cardinality(notes) + 1
    BY <1>1, <2>1, FS_AddElement
  <2>3. Cardinality(notes') \in Nat
    BY <2>2, FS_CardinalityType
  <2>4. ASSUME NEW m \in notes'
        PROVE  /\ m \in Notes /\ m.created \in 1 .. clock' /\ m.cycle \in Nat
               /\ m.accessed \in m.created .. clock'
    <3>1. CASE m = NewNote(c)
      BY <1>1, <1>2, <3>1 DEF Notes
    <3>2. CASE m \in notes
      <4>1. /\ m.created \in 1 .. clock /\ m.cycle \in Nat
            /\ m.accessed \in m.created .. clock
        BY <3>2 DEF NotesTypeOK
      <4> QED
        BY <1>1, <3>2, <4>1
    <3> QED
      BY <2>1, <3>1, <3>2
  <2> QED
    BY <1>1, <1>4, <2>1, <2>2, <2>3, <2>4 DEF NotesTypeOK
<1> QED
  BY <1>3, <1>4
-----------------------------------------------------------------------------
LEMMA InvInit == Init => Inv
<1> SUFFICES ASSUME Init PROVE Inv
  OBVIOUS
<1>1. <<>> \in Seq(Markets) /\ ToSet(<<>>) = {} /\ IsInjective(<<>>)
  BY DEF ToSet, IsInjective
<1>2. IsFiniteSet({}) /\ Cardinality({}) = 0
  BY FS_EmptySet
<1>3. TypeOK
  BY MemoryAssumption, NotesAssumption DEF Init, NotesInit, TypeOK,
     NotesTypeOK
<1>4. PlanRead /\ PrioritiesAreHistory
  BY <1>1 DEF Init, PlanRead, PrioritiesAreHistory
<1>5. NotesDated /\ OlderGoFirst /\ FreshNotesSurvive
  BY <1>2, NotesAssumption
  DEF Init, NotesInit, NotesDated, OlderGoFirst, FreshNotesSurvive
<1> QED
  BY <1>3, <1>4, <1>5 DEF Inv

(* The types of what is not a note.                                        *)
CycleTypes ==
    /\ {priorities, prev} \subseteq Seq(Markets)
    /\ stage \in {"off", "context", "agents", "notes"} /\ cycle \in 0 .. MaxCycles
    /\ hot \subseteq Markets /\ traded \subseteq Markets
    /\ saves \in 0 .. MaxSaves
    /\ {lastHot, lastTraded} \subseteq [Markets -> 0 .. MaxCycles]

(* A step that leaves the notes alone leaves their types.                  *)
LEMMA NotesStand ==
  ASSUME NotesTypeOK, notes \subseteq Notes, IsFiniteSet(notes), UNCHANGED noteVars
  PROVE  /\ NotesTypeOK' /\ notes' \subseteq Notes
         /\ IsFiniteSet(notes') /\ Cardinality(notes') = Cardinality(notes)
  BY DEF NotesTypeOK, noteVars

(* Every step keeps the types, the notes finite and within their limit.    *)
LEMMA NotesTyped ==
  ASSUME Inv, [Next]_vars
  PROVE  /\ NotesTypeOK' /\ notes' \subseteq Notes
         /\ IsFiniteSet(notes') /\ Cardinality(notes') <= MaxNotes
<1>1. /\ NotesTypeOK /\ notes \subseteq Notes /\ IsFiniteSet(notes)
      /\ Cardinality(notes) <= MaxNotes /\ Cardinality(notes) \in Nat
      /\ MaxNotes \in Nat /\ cycle \in Nat
  BY FS_CardinalityType, NotesAssumption DEF Inv, TypeOK, NotesDated,
     FreshNotesSurvive
<1>2. CASE Context
  <2>1. /\ NotesTypeOK' /\ notes' \subseteq Notes
        /\ IsFiniteSet(notes') /\ Cardinality(notes') <= Cardinality(notes)
    BY <1>1, <1>2, ReadKeepsTypes DEF Context
  <2>2. Cardinality(notes') \in Nat
    BY <2>1, FS_CardinalityType
  <2> QED
    BY <1>1, <2>1, <2>2
<1>3. CASE SaveNote
  BY <1>1, <1>3, WriteKeepsTypes DEF SaveNote
<1>4. CASE EditBetween
  <2>1. PICK n \in notes : EditNote(n)
    BY <1>4 DEF EditBetween
  <2>2. /\ NotesTypeOK' /\ notes' \subseteq Notes
        /\ IsFiniteSet(notes') /\ Cardinality(notes') <= Cardinality(notes)
    BY <1>1, <2>1, EditKeepsTypes
  <2>3. Cardinality(notes') \in Nat
    BY <2>2, FS_CardinalityType
  <2> QED
    BY <1>1, <2>2, <2>3
<1>5. CASE UNCHANGED noteVars
  BY <1>1, <1>5, NotesStand
<1> QED
  BY <1>2, <1>3, <1>4, <1>5
  DEF Next, vars, Start, Agents, SaveFails, PersistPlan, Fail

LEMMA CycleTyped ==
  ASSUME Inv, [Next]_vars
  PROVE  CycleTypes'
<1>1. CycleTypes
  BY DEF Inv, TypeOK, CycleTypes
<1>3. CASE Start
  BY <1>1, <1>3, MemoryAssumption DEF Start, CycleTypes, planVars
<1>4. CASE Context
  BY <1>1, <1>4 DEF Context, CycleTypes, planVars
<1>5. CASE Agents
  BY <1>1, <1>5 DEF Agents, CycleTypes, planVars
<1>6. CASE SaveNote \/ SaveFails
  <2>1. saves' \in 0 .. MaxSaves
    BY <1>1, <1>6, MemoryAssumption DEF SaveNote, SaveFails, CycleTypes
  <2>2. UNCHANGED <<planVars, stage, cycle, prev, hot, traded>>
    BY <1>6 DEF SaveNote, SaveFails
  <2> QED
    BY <1>1, <2>1, <2>2 DEF CycleTypes, planVars
<1>7. CASE PersistPlan
  <2>1. prev = priorities /\ IsInjective(priorities)
    BY <1>7 DEF Inv, PlanRead, PrioritiesAreHistory, PersistPlan
  <2>2. priorities' \in Seq(Markets)
    BY <1>1, <1>7, <2>1, PlanList DEF CycleTypes, PersistPlan
  <2> QED
    BY <1>1, <1>7, <2>2 DEF CycleTypes, PersistPlan, Off
<1>8. CASE Fail
  BY <1>1, <1>8, MemoryAssumption DEF Fail, Off, CycleTypes, planVars
<1>9. CASE UNCHANGED <<planVars, runVars>>
  BY <1>1, <1>9 DEF CycleTypes, planVars, runVars
<1> QED
  BY <1>3, <1>4, <1>5, <1>6, <1>7, <1>8, <1>9 DEF Next, vars, EditBetween

LEMMA TypesNext == Inv /\ [Next]_vars => TypeOK'
  BY NotesTyped, CycleTyped DEF CycleTypes, TypeOK

(* The list stands for the history of the plans, and the running cycle has *)
(* read it.                                                                *)
LEMMA PlanNext == Inv /\ [Next]_vars => PlanRead' /\ PrioritiesAreHistory'
<1> SUFFICES ASSUME Inv, [Next]_vars PROVE PlanRead' /\ PrioritiesAreHistory'
  OBVIOUS
<1>1. PlanRead /\ PrioritiesAreHistory /\ CycleTypes
  BY DEF Inv, TypeOK, CycleTypes
<1>2. /\ cycle \in Nat /\ cycle' \in Nat
      /\ \A m \in Markets : lastHot[m] \in Nat /\ lastTraded[m] \in Nat
  BY <1>1, CycleTyped DEF CycleTypes
<1>3. CASE Start
  BY <1>1, <1>2, <1>3 DEF Start, planVars, PlanRead, PrioritiesAreHistory
<1>4. CASE Context \/ Agents \/ SaveNote \/ SaveFails
  BY <1>1, <1>4
  DEF Context, Agents, SaveNote, SaveFails, planVars, PlanRead, PrioritiesAreHistory
<1>5. CASE PersistPlan
  <2>1. /\ prev = priorities /\ IsInjective(priorities)
        /\ ToSet(priorities) = {m \in Markets : lastHot[m] > lastTraded[m]}
        /\ \A m \in Markets : lastHot[m] < cycle /\ lastTraded[m] < cycle
    BY <1>1, <1>5 DEF PlanRead, PrioritiesAreHistory, PersistPlan
  <2>2. /\ IsInjective(priorities')
        /\ ToSet(priorities') = (ToSet(priorities) \union hot) \ traded
    BY <1>1, <1>5, <2>1, PlanList DEF CycleTypes, PersistPlan
  <2>3. \A m \in Markets :
           /\ lastHot'[m] = IF m \in hot THEN cycle ELSE lastHot[m]
           /\ lastTraded'[m] = IF m \in traded THEN cycle ELSE lastTraded[m]
    BY <1>5 DEF PersistPlan
  <2>4. ASSUME NEW m \in Markets
        PROVE  lastHot'[m] > lastTraded'[m]
                 <=> m \in (ToSet(priorities) \union hot) \ traded
    <3>1. CASE m \in traded
      BY <1>2, <2>1, <2>3
    <3>2. CASE m \notin traded /\ m \in hot
      BY <2>1, <2>3, <3>2
    <3>3. CASE m \notin traded /\ m \notin hot
      BY <2>1, <2>3, <3>3
    <3> QED
      BY <3>1, <3>2, <3>3
  <2>5. ToSet(priorities') = {m \in Markets : lastHot'[m] > lastTraded'[m]}
    <3>1. (ToSet(priorities) \union hot) \ traded \subseteq Markets
      BY <1>1, <2>1 DEF CycleTypes
    <3> QED
      BY <2>2, <2>4, <3>1
  <2>6. PlanRead'
    <3>1. stage' = "off" /\ cycle' = cycle
      BY <1>5 DEF PersistPlan, Off
    <3>2. \A m \in Markets : lastHot'[m] <= cycle /\ lastTraded'[m] <= cycle
      BY <1>2, <2>1, <2>3
    <3> QED
      BY <3>1, <3>2 DEF PlanRead
  <2> QED
    BY <2>2, <2>5, <2>6 DEF PrioritiesAreHistory
<1>6. CASE Fail
  BY <1>1, <1>6 DEF Fail, Off, planVars, PlanRead, PrioritiesAreHistory
<1>7. CASE UNCHANGED <<planVars, runVars>>
  BY <1>1, <1>7 DEF planVars, runVars, PlanRead, PrioritiesAreHistory
<1> QED
  BY <1>3, <1>4, <1>5, <1>6, <1>7 DEF Next, vars, EditBetween

(* What the order of the evictions rests on: the dates of the notes.       *)
Dates ==
    /\ lostFresh <= cycle
    /\ \A n \in notes :
          /\ n.cycle <= cycle /\ n.cycle >= lostFresh
          /\ stage \in {"context", "agents"} => n.cycle < cycle
    /\ OlderGoFirst

(* A write: the oldest note is one of an older cycle while there is one.   *)
LEMMA WriteDates ==
  ASSUME Inv, SaveNote
  PROVE  Dates'
<1>1. /\ stage = "notes" /\ stage' = "notes" /\ cycle' = cycle /\ cycle \in Nat
      /\ WriteNote(cycle) /\ clock \in Nat /\ lostFresh \in Nat
      /\ lostFresh <= cycle
  BY DEF Inv, TypeOK, NotesTypeOK, NotesDated, SaveNote
<1>2. /\ NewNote(cycle).cycle = cycle /\ NewNote(cycle).accessed = clock + 1
  BY <1>1, NewNoteFields
<1>3. \A n \in notes :
         /\ n.cycle \in Nat /\ n.cycle <= cycle /\ n.cycle >= lostFresh
         /\ n.accessed \in Nat /\ n.accessed < clock + 1
  <2> SUFFICES ASSUME NEW n \in notes
               PROVE  /\ n.cycle \in Nat /\ n.cycle <= cycle /\ n.cycle >= lostFresh
                      /\ n.accessed \in Nat /\ n.accessed < clock + 1
    OBVIOUS
  <2>1. n.created \in 1 .. clock /\ n.cycle \in Nat /\ n.accessed \in n.created .. clock
    BY DEF Inv, TypeOK, NotesTypeOK
  <2>2. n.cycle <= cycle /\ n.cycle >= lostFresh
    BY DEF Inv, NotesDated, FreshNotesSurvive
  <2> QED
    BY <1>1, <2>1, <2>2
<1>4. \A n, m \in notes : n.cycle = cycle /\ m.cycle < cycle => m.accessed < n.accessed
  BY <1>1 DEF Inv, OlderGoFirst
<1>5. notes' \subseteq notes \union {NewNote(cycle)}
  BY <1>1 DEF WriteNote
<1>6. ASSUME NEW n \in notes', NEW m \in notes', n.cycle = cycle, m.cycle < cycle
      PROVE  m.accessed < n.accessed
  <2>1. m \in notes
    BY <1>1, <1>2, <1>5, <1>6
  <2>2. CASE n \in notes
    BY <1>4, <1>6, <2>1, <2>2
  <2>3. CASE n = NewNote(cycle)
    BY <1>2, <1>3, <2>1, <2>3
  <2> QED
    BY <1>5, <2>2, <2>3
<1>7. lostFresh' <= cycle /\ \A n \in notes' : n.cycle <= cycle /\ n.cycle >= lostFresh'
  <2>1. CASE UNCHANGED lostFresh
    BY <1>1, <1>2, <1>3, <1>5, <2>1
  <2>2. CASE lostFresh' # lostFresh
    <3>1. PICK n \in notes : /\ Oldest(n)
                             /\ notes' = (notes \ {n}) \union {NewNote(cycle)}
                             /\ n.cycle = cycle /\ lostFresh' = cycle
      BY <1>1, <2>2 DEF WriteNote
    <3>2. ASSUME NEW m \in notes PROVE m.cycle = cycle
      <4>1. ~ (m.accessed < n.accessed)
        BY <1>3, <3>1 DEF Oldest
      <4>2. ~ (m.cycle < cycle)
        BY <1>4, <3>1, <4>1
      <4> QED
        BY <1>1, <1>3, <4>2
    <3> QED
      BY <1>1, <1>2, <3>1, <3>2
  <2> QED
    BY <2>1, <2>2
<1> QED
  BY <1>1, <1>6, <1>7 DEF Dates, OlderGoFirst

(* A read or an edit touches notes, and moves none to another cycle.       *)
LEMMA TouchDates ==
  ASSUME Inv, cycle' = cycle, stage' # "notes", lostFresh' = lostFresh,
         stage' \in {"context", "agents"} => stage \in {"context", "agents"},
         \A n \in notes' : n \in notes \/ \E m \in notes : n = Touched(m)
  PROVE  Dates'
<1>1. /\ \A m \in notes : m \in Notes /\ m.cycle <= cycle /\ m.cycle >= lostFresh
      /\ \A m \in notes : stage \in {"context", "agents"} => m.cycle < cycle
      /\ lostFresh <= cycle /\ clock \in Nat
  BY DEF Inv, NotesDated, FreshNotesSurvive, TypeOK, NotesTypeOK
<1>2. ASSUME NEW n \in notes'
      PROVE  \E m \in notes : n.cycle = m.cycle
  BY <1>1, TouchedNote
<1> QED
  BY <1>1, <1>2 DEF Dates, OlderGoFirst

(* Evictions spare the running cycle's notes while there is an older one.  *)
LEMMA DatesNext == Inv /\ [Next]_vars => Dates'
<1> SUFFICES ASSUME Inv, [Next]_vars PROVE Dates'
  OBVIOUS
<1>1. /\ lostFresh <= cycle /\ lostFresh \in Nat /\ cycle \in Nat
      /\ \A n \in notes :
            /\ n.cycle \in Nat /\ n.cycle <= cycle /\ n.cycle >= lostFresh
            /\ stage \in {"context", "agents"} => n.cycle < cycle
      /\ OlderGoFirst
  BY DEF Inv, TypeOK, NotesTypeOK, NotesDated, FreshNotesSurvive
<1>2. CASE Start
  <2>1. /\ notes' = notes /\ lostFresh' = lostFresh
        /\ cycle' = cycle + 1 /\ stage' = "context"
    BY <1>2 DEF Start, noteVars
  <2> QED
    BY <1>1, <2>1 DEF Dates, OlderGoFirst
<1>3. CASE Context
  BY <1>3, TouchDates DEF Context, ReadNotes
<1>4. CASE Agents
  <2>1. /\ notes' = notes /\ lostFresh' = lostFresh /\ cycle' = cycle
        /\ stage = "agents" /\ stage' = "notes"
    BY <1>4 DEF Agents, noteVars
  <2> QED
    BY <1>1, <2>1 DEF Dates, OlderGoFirst
<1>5. CASE SaveNote
  BY <1>5, WriteDates
<1>6. CASE SaveFails
  BY <1>1, <1>6 DEF SaveFails, noteVars, Dates, OlderGoFirst
<1>7. CASE EditBetween
  <2>1. PICK n \in notes : EditNote(n)
    BY <1>7 DEF EditBetween
  <2>2. \A m \in notes' : m \in notes \/ m = Touched(n)
    BY <2>1 DEF EditNote
  <2>3. cycle' = cycle /\ stage' = "off" /\ lostFresh' = lostFresh
    BY <1>7 DEF EditBetween, EditNote, runVars
  <2> QED
    BY <2>2, <2>3, TouchDates
<1>8. CASE PersistPlan \/ Fail
  <2>1. notes' = notes /\ lostFresh' = lostFresh /\ cycle' = cycle /\ stage' = "off"
    BY <1>8 DEF PersistPlan, Fail, Off, noteVars
  <2> QED
    BY <1>1, <2>1 DEF Dates, OlderGoFirst
<1>9. CASE UNCHANGED vars
  BY <1>1, <1>9 DEF vars, noteVars, runVars, Dates, OlderGoFirst
<1> QED
  BY <1>2, <1>3, <1>4, <1>5, <1>6, <1>7, <1>8, <1>9 DEF Next

LEMMA InvNext == Inv /\ [Next]_vars => Inv'
<1> SUFFICES ASSUME Inv, [Next]_vars PROVE Inv'
  OBVIOUS
<1>1. TypeOK' /\ PlanRead' /\ PrioritiesAreHistory'
  BY TypesNext, PlanNext
<1>2. /\ Dates' /\ notes' \subseteq Notes
      /\ IsFiniteSet(notes') /\ Cardinality(notes') <= MaxNotes
  BY DatesNext, NotesTyped
<1> QED
  BY <1>1, <1>2 DEF Inv, Dates, NotesDated, FreshNotesSurvive

-----------------------------------------------------------------------------
(* What a cycle hands to the next stays as the code keeps it, however many *)
(* cycles fail and wherever they do.                                       *)
THEOREM Invariance == Spec => []Inv
<1>1. Inv /\ [Next]_vars => Inv'
  BY InvNext
<1> QED
  BY InvInit, <1>1, PTL DEF Spec

(* The types of the plan's list, of the notes and of the running cycle's   *)
(* variables are invariant (cycle_plan.py:76-94, notes_tool.py:91-205).    *)
THEOREM MemoryTypes == Spec => []TypeOK
<1>1. Inv => TypeOK
  BY DEF Inv
<1> QED
  BY Invariance, <1>1, PTL

(* The list of priorities holds, once each, exactly the markets that were  *)
(* hot in a finished cycle and traded in none since, for any finite set of *)
(* markets and any number of cycles, failed or not (cycle_plan.py:76-94).  *)
THEOREM ListIsHistory == Spec => []PrioritiesAreHistory
<1>1. Inv => PrioritiesAreHistory
  BY DEF Inv
<1> QED
  BY Invariance, <1>1, PTL

(* At most MaxNotes notes are kept, for any limit, and a write evicts a    *)
(* note of its own cycle only when no older one is left                    *)
(* (notes_tool.py:119-164).                                                *)
THEOREM OwnNotesSurvive == Spec => []FreshNotesSurvive
<1>1. Inv => FreshNotesSurvive
  BY DEF Inv
<1> QED
  BY Invariance, <1>1, PTL

(* A step reorders nothing that stays on the list of priorities and puts   *)
(* nothing before it: what a plan adds it adds at the end, and no other    *)
(* step of a cycle writes the list (cycle_plan.py:81-93).                  *)
THEOREM ListIsQueue == Spec => PrioritiesQueue
<1>1. Inv /\ [Next]_vars
         => [IsPrefix(Kept(priorities, ToSet(priorities')), priorities')]_vars
  <2> SUFFICES ASSUME Inv, [Next]_vars
               PROVE  IsPrefix(Kept(priorities, ToSet(priorities')), priorities')
    OBVIOUS
  <2>1. priorities \in Seq(Markets)
    BY DEF Inv, TypeOK
  <2>2. CASE PersistPlan
    <3>1. /\ prev = priorities /\ prev \in Seq(Markets) /\ IsInjective(prev)
          /\ hot \subseteq Markets /\ traded \subseteq Markets
          /\ priorities' = NextPriorities
      BY <2>2 DEF Inv, TypeOK, PlanRead, PrioritiesAreHistory, PersistPlan
    <3> QED
      BY <3>1, PlanQueues
  <2>3. CASE priorities' = priorities
    BY <2>1, <2>3, KeptWhole
  <2> QED
    BY <2>2, <2>3
    DEF Next, vars, planVars, Start, Context, Agents, SaveNote, SaveFails,
        EditBetween, Fail
<1> QED
  BY Invariance, <1>1, PTL DEF Spec, PrioritiesQueue
=============================================================================
