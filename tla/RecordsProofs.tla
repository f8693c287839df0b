---------------------------- MODULE RecordsProofs ----------------------------
(***************************************************************************)
(* Proofs about the records the application keeps beside the items:        *)
(* themes and their selection, the generator's history, and the two        *)
(* halves of an item.  For any ids, limits and bounds.                     *)
(***************************************************************************)
EXTENDS Themes, GeneratorHistory, ItemPayloads, SequenceTheorems, FiniteSetTheorems,
        WellFoundedInduction, TLAPS

-----------------------------------------------------------------------------
(* Lists from which elements are dropped.                                  *)

\* A finite set of positions can be put in order: each goes by its rank.
LEMMA CanBeOrdered ==
    ASSUME NEW kept \in SUBSET Int, IsFiniteSet(kept)
    PROVE  /\ InOrder(kept) \in [1..Cardinality(kept) -> kept]
           /\ \A i, j \in 1..Cardinality(kept) : i < j => InOrder(kept)[i] < InOrder(kept)[j]
<1> DEFINE n == Cardinality(kept)
           upTo(i) == {j \in kept : j <= i}
           rank == [i \in kept |-> Cardinality(upTo(i))]
<1>1. n \in Nat
  BY FS_CardinalityType
<1>2. ASSUME NEW i \in kept PROVE rank[i] \in 1..n
  <2>1. upTo(i) \in SUBSET kept /\ i \in upTo(i)
    OBVIOUS
  <2>2. /\ IsFiniteSet(upTo(i)) /\ Cardinality(upTo(i)) <= n
        /\ Cardinality(upTo(i)) \in Nat
    BY <2>1, FS_Subset, FS_CardinalityType
  <2>3. Cardinality(upTo(i)) # 0
    BY <2>1, <2>2, FS_EmptySet
  <2> QED
    BY <1>1, <2>2, <2>3
<1>3. ASSUME NEW i \in kept, NEW j \in kept, i < j PROVE rank[i] < rank[j]
  <2>1. upTo(i) \in SUBSET upTo(j) /\ j \in upTo(j) /\ j \notin upTo(i)
    <3>1. i \in Int /\ j \in Int /\ \A k \in kept : k \in Int
      OBVIOUS
    <3>2. \A k \in kept : k <= i => k <= j
      BY <1>3, <3>1
    <3>3. ~(j <= i) /\ j <= j
      BY <1>3, <3>1
    <3> QED
      BY <3>2, <3>3
  <2>2. IsFiniteSet(upTo(j))
    <3>1. upTo(j) \in SUBSET kept
      OBVIOUS
    <3> QED
      BY <3>1, FS_Subset
  <2>3. /\ Cardinality(upTo(i)) <= Cardinality(upTo(j))
        /\ Cardinality(upTo(j)) = Cardinality(upTo(i)) => upTo(j) = upTo(i)
    BY <2>1, <2>2, FS_Subset
  <2>4. Cardinality(upTo(j)) # Cardinality(upTo(i))
    BY <2>1, <2>3
  <2>5. rank[i] \in Int /\ rank[j] \in Int
    BY <1>2
  <2> QED
    BY <2>3, <2>4, <2>5
<1> HIDE DEF n, rank
<1>4. rank \in Injection(kept, 1..n)
  <2>1. rank \in [kept -> 1..n]
    BY <1>2 DEF rank
  <2>2. ASSUME NEW i \in kept, NEW j \in kept, rank[i] = rank[j] PROVE i = j
    <3>1. rank[i] \in Int /\ i \in Int /\ j \in Int
      BY <1>2
    <3>2. ~(i < j) /\ ~(j < i)
      BY <1>3, <2>2, <3>1
    <3> QED
      BY <3>1, <3>2
  <2> QED
    BY <2>1, <2>2 DEF Injection, IsInjective
<1>5. rank \in Surjection(kept, 1..n)
  <2>1. IsFiniteSet(1..n) /\ Cardinality(1..n) = n
    BY <1>1, FS_Interval
  <2> QED
    BY <1>4, <2>1, FS_Injection DEF n
<1> DEFINE nth == [k \in 1..n |-> CHOOSE i \in kept : rank[i] = k]
<1>6. \A k \in 1..n : nth[k] \in kept /\ rank[nth[k]] = k
  <2>1. \A k \in 1..n : \E i \in kept : rank[i] = k
    BY <1>5 DEF Surjection
  <2> QED
    BY <2>1
<1> HIDE DEF nth
<1>7. ASSUME NEW k \in 1..n, NEW l \in 1..n, k < l PROVE nth[k] < nth[l]
  <2>1. nth[k] \in kept /\ nth[l] \in kept /\ rank[nth[k]] = k /\ rank[nth[l]] = l
    BY <1>6
  <2>2. nth[k] # nth[l]
    BY <1>7, <2>1
  <2>3. ~(nth[l] < nth[k])
    <3>1. nth[l] < nth[k] => l < k
      BY <1>3, <2>1
    <3> QED
      BY <1>1, <1>7, <3>1
  <2>4. nth[k] \in Int /\ nth[l] \in Int
    BY <2>1
  <2> QED
    BY <2>2, <2>3, <2>4
<1>8. \E f \in [1..n -> kept] : \A i, j \in DOMAIN f : i < j => f[i] < f[j]
  <2>1. nth \in [1..n -> kept] /\ DOMAIN nth = 1..n
    BY <1>6 DEF nth
  <2> QED
    BY <1>7, <2>1
<1>9. /\ InOrder(kept) \in [1..n -> kept]
      /\ \A i, j \in DOMAIN InOrder(kept) : i < j => InOrder(kept)[i] < InOrder(kept)[j]
  BY <1>8 DEF InOrder, n
<1> QED
  BY <1>9 DEF n

(* What is kept of a list are its elements at the positions kept, and all  *)
(* of them.                                                                *)
LEMMA OnlyThose ==
    ASSUME NEW S, NEW s \in Seq(S), NEW kept \in SUBSET (1..Len(s))
    PROVE  /\ Only(s, kept) \in Seq(S)
           /\ Len(Only(s, kept)) = Cardinality(kept)
           /\ Len(Only(s, kept)) \in Nat /\ Len(Only(s, kept)) <= Len(s)
           /\ \A k \in 1..Len(Only(s, kept)) : \E i \in kept : Only(s, kept)[k] = s[i]
           /\ \A i \in kept : \E k \in 1..Len(Only(s, kept)) : Only(s, kept)[k] = s[i]
<1> DEFINE n == Cardinality(kept)
           at == InOrder(kept)
           left == [k \in 1..n |-> s[at[k]]]
<1>1. Len(s) \in Nat /\ IsFiniteSet(1..Len(s)) /\ Cardinality(1..Len(s)) = Len(s)
  BY FS_Interval
<1>2. IsFiniteSet(kept) /\ n \in Nat /\ n <= Len(s)
  BY <1>1, FS_Subset, FS_CardinalityType
<1>3. /\ at \in [1..n -> kept]
      /\ \A i, j \in 1..n : i < j => at[i] < at[j]
  BY <1>2, CanBeOrdered
<1>4. Only(s, kept) = left
  BY <1>3 DEF Only
<1>5. \A k \in 1..n : at[k] \in kept /\ at[k] \in 1..Len(s)
  BY <1>3
<1>6. left \in Seq(S) /\ Len(left) = n
  <2>1. \A k \in 1..n : s[at[k]] \in S
    BY <1>5
  <2> QED
    BY <1>2, <2>1
<1>7. \A i \in kept : \E k \in 1..n : at[k] = i
  <2>1. \A k, l \in 1..n : at[k] = at[l] => k = l
    BY <1>3, <1>5
  <2>2. at \in Injection(1..n, kept)
    BY <1>3, <2>1 DEF Injection, IsInjective
  <2>3. IsFiniteSet(1..n) /\ Cardinality(1..n) = n
    BY <1>2, FS_Interval
  <2>4. at \in Surjection(1..n, kept)
    BY <1>2, <2>2, <2>3, FS_Injection
  <2> QED
    BY <2>4 DEF Surjection
<1>8. \A k \in 1..n : left[k] = s[at[k]]
  OBVIOUS
<1>9. \A k \in 1..n : \E i \in kept : left[k] = s[i]
  BY <1>5, <1>8
<1>10. \A i \in kept : \E k \in 1..n : left[k] = s[i]
  BY <1>7, <1>8
<1> HIDE DEF left, at, n
<1> QED
  BY <1>2, <1>4, <1>6, <1>9, <1>10 DEF n

-----------------------------------------------------------------------------
(* The generator's history.                                                *)

(* What pruning leaves are elements of the list, none expired, no more     *)
(* than the limit.                                                         *)
LEMMA PrunedAreAlive ==
    ASSUME NEW S, NEW h \in Seq(S)
    PROVE  /\ Prune(h) \in Seq(S) /\ Len(Prune(h)) <= MAX_ENTRIES
           /\ \A k \in DOMAIN Prune(h) :
                Alive(Prune(h)[k]) /\ \E i \in DOMAIN h : Prune(h)[k] = h[i]
<1> DEFINE alive == {k \in DOMAIN h : Alive(h[k])}
           kept == Only(h, alive)
           n == IF Len(kept) < MAX_ENTRIES THEN Len(kept) ELSE MAX_ENTRIES
<1>1. DOMAIN h = 1..Len(h) /\ alive \in SUBSET (1..Len(h))
  OBVIOUS
<1>2. /\ kept \in Seq(S) /\ Len(kept) \in Nat
      /\ \A k \in 1..Len(kept) : \E i \in alive : kept[k] = h[i]
  BY <1>1, OnlyThose
<1>3. Prune(h) = SubSeq(kept, 1, n)
  BY DEF Prune
<1>4. n \in 0..Len(kept) /\ n <= MAX_ENTRIES
  BY <1>2, HistoryAssumption
<1>5. \A k \in 1..Len(kept) : Alive(kept[k]) /\ \E i \in DOMAIN h : kept[k] = h[i]
  BY <1>2
<1> HIDE DEF alive, kept, n
<1>6. /\ SubSeq(kept, 1, n) \in Seq(S) /\ Len(SubSeq(kept, 1, n)) = n
      /\ \A k \in 1..n : SubSeq(kept, 1, n)[k] = kept[k]
  BY <1>2, <1>4, SubSeqProperties
<1>7. DOMAIN Prune(h) = 1..n
  BY <1>3, <1>6
<1>8. 1..n \subseteq 1..Len(kept)
  BY <1>2, <1>4
<1> QED
  BY <1>3, <1>4, <1>5, <1>6, <1>7, <1>8

HistoryEntry == [id : Entries, created_at : Int]

(* No entry is in two places: a value that is yet to be recorded is        *)
(* neither kept nor dropped, and what is dropped is not kept.              *)
OnePlaceEach ==
    /\ history \in Seq(HistoryEntry) /\ reading \in Int
    /\ dropped \cap Ids(history) = {}
    /\ ungenerated \cap (Ids(history) \cup dropped) = {}

NoneExpiredShown == \A i \in DOMAIN answer : Alive(answer[i])

HistoryFresh == OnePlaceEach /\ NoneExpiredShown

LEMMA IdsOfPruned ==
    ASSUME NEW h \in Seq(HistoryEntry)
    PROVE  Prune(h) \in Seq(HistoryEntry) /\ Ids(Prune(h)) \subseteq Ids(h)
<1>1. Prune(h) \in Seq(HistoryEntry)
  BY PrunedAreAlive
<1>2. \A k \in DOMAIN Prune(h) : \E i \in DOMAIN h : Prune(h)[k] = h[i]
  BY PrunedAreAlive
<1> QED
  BY <1>1, <1>2 DEF Ids

(* A list is saved that has nothing in it but what was there and values    *)
(* not recorded before.                                                    *)
LEMMA SavedInOnePlace ==
    ASSUME OnePlaceEach, NEW h \in Seq(HistoryEntry), Save(h),
           NEW new \in SUBSET ungenerated, ungenerated' = ungenerated \ new,
           Ids(h) \subseteq Ids(history) \cup new, reading' = reading
    PROVE  OnePlaceEach'
<1>1. history' = h /\ dropped' = dropped \cup (Ids(history) \ Ids(h))
  BY DEF Save
<1>2. Ids(history)' = Ids(h)
  BY <1>1 DEF Ids
<1> QED
  BY <1>1, <1>2 DEF OnePlaceEach

LEMMA HistoryFreshInit == HistoryInit => HistoryFresh
<1> SUFFICES ASSUME HistoryInit PROVE HistoryFresh
  OBVIOUS
<1>1. history = <<>> /\ answer = <<>> /\ reading = 0 /\ dropped = {}
  BY DEF HistoryInit
<1>2. history \in Seq(HistoryEntry) /\ DOMAIN history = {} /\ DOMAIN answer = {}
  BY <1>1
<1>3. Ids(history) = {}
  BY <1>2 DEF Ids
<1> QED
  BY <1>1, <1>2, <1>3 DEF HistoryFresh, OnePlaceEach, NoneExpiredShown

LEMMA HistoryFreshStep == HistoryFresh /\ [HistoryNext]_historyVars => HistoryFresh'
<1> SUFFICES ASSUME HistoryFresh, [HistoryNext]_historyVars PROVE HistoryFresh'
  OBVIOUS
<1>a. OnePlaceEach /\ NoneExpiredShown /\ history \in Seq(HistoryEntry)
  BY DEF HistoryFresh, OnePlaceEach
<1>b. ASSUME answer' = answer, reading' = reading PROVE NoneExpiredShown'
  BY <1>a, <1>b DEF NoneExpiredShown, Alive
<1>c. ASSUME answer' = <<>> PROVE NoneExpiredShown'
  BY <1>c DEF NoneExpiredShown
<1>d. ASSUME history' = history, dropped' = dropped, ungenerated' \subseteq ungenerated, reading' = reading
      PROVE  OnePlaceEach'
  BY <1>a, <1>d DEF OnePlaceEach, Ids
<1>1. ASSUME NEW id \in Entries, Generate(id) PROVE HistoryFresh'
  <2>1. /\ id \in ungenerated /\ ungenerated' = ungenerated \ {id}
        /\ answer' = answer /\ reading' = reading
    BY <1>1 DEF Generate
  <2>2. CASE ~opened
    <3>1. history' = history /\ dropped' = dropped
      BY <1>1, <2>2 DEF Generate
    <3> QED
      BY <2>1, <3>1, <1>b, <1>d DEF HistoryFresh
  <2>3. CASE opened
    <3> DEFINE new == [id |-> id, created_at |-> reading]
               h == <<new>> \o history
    <3>1. Save(Prune(h))
      BY <1>1, <2>3 DEF Generate
    <3>2. new \in HistoryEntry /\ new.id = id
      BY <1>a DEF OnePlaceEach, HistoryEntry
    <3> HIDE DEF new
    <3>3. <<new>> \in Seq(HistoryEntry) /\ Len(<<new>>) = 1 /\ <<new>>[1] = new
      BY <3>2
    <3>4. /\ h \in Seq(HistoryEntry) /\ DOMAIN h = 1..(1 + Len(history))
          /\ h[1] = new /\ \A i \in 2..(1 + Len(history)) : h[i] = history[i - 1]
      BY <1>a, <3>3
    <3> HIDE DEF h
    <3>5. Ids(h) \subseteq Ids(history) \cup {id}
      <4>1. ASSUME NEW i \in DOMAIN h PROVE h[i].id \in Ids(history) \cup {id}
        <5>1. CASE i = 1
          BY <3>2, <3>4, <5>1
        <5>2. CASE i # 1
          <6>1. i \in 2..(1 + Len(history)) /\ i - 1 \in 1..Len(history) /\ DOMAIN history = 1..Len(history)
            BY <1>a, <3>4, <5>2
          <6> QED
            BY <3>4, <6>1 DEF Ids
        <5> QED
          BY <5>1, <5>2
      <4> QED
        BY <4>1 DEF Ids
    <3>6. Prune(h) \in Seq(HistoryEntry) /\ Ids(Prune(h)) \subseteq Ids(history) \cup {id}
      BY <3>4, <3>5, IdsOfPruned
    <3>7. OnePlaceEach'
      <4>1. {id} \in SUBSET ungenerated
        BY <2>1
      <4>2. \A g : g \in Seq(HistoryEntry) /\ Save(g) /\ Ids(g) \subseteq Ids(history) \cup {id}
                  => OnePlaceEach'
        BY <1>a, <2>1, <4>1, SavedInOnePlace
      <4> QED
        BY <3>1, <3>6, <4>2
    <3> QED
      BY <2>1, <3>7, <1>b DEF HistoryFresh
  <2> QED
    BY <2>2, <2>3
<1>2. ASSUME NEW id \in Entries, HistoryCopy(id) PROVE HistoryFresh'
  <2> DEFINE h == Prune(history)
             same == {k \in DOMAIN h : h[k].id = id}
  <2>1. /\ answer' = Only(h, same) /\ reading' = reading
        /\ history' = history /\ dropped' = dropped /\ ungenerated' = ungenerated
    BY <1>2 DEF HistoryCopy
  <2>2. h \in Seq(HistoryEntry) /\ DOMAIN h = 1..Len(h) /\ \A k \in DOMAIN h : Alive(h[k])
    BY <1>a, PrunedAreAlive
  <2> HIDE DEF h
  <2>3. /\ Only(h, same) \in Seq(HistoryEntry)
        /\ \A k \in 1..Len(Only(h, same)) : \E i \in same : Only(h, same)[k] = h[i]
    <3>1. same \in SUBSET (1..Len(h))
      BY <2>2
    <3> QED
      BY <2>2, <3>1, OnlyThose
  <2>4. \A k \in DOMAIN Only(h, same) : Alive(Only(h, same)[k])
    <3>1. DOMAIN Only(h, same) = 1..Len(Only(h, same))
      BY <2>3
    <3>2. \A i \in same : Alive(h[i])
      BY <2>2
    <3> QED
      BY <2>3, <3>1, <3>2, Zenon
  <2>5. NoneExpiredShown'
    BY <2>1, <2>4 DEF NoneExpiredShown, Alive
  <2> QED
    BY <2>1, <2>5, <1>d DEF HistoryFresh
<1>3. ASSUME HistoryList PROVE HistoryFresh'
  <2>1. /\ Save(Prune(history)) /\ answer' = Prune(history)
        /\ reading' = reading /\ ungenerated' = ungenerated
    BY <1>3 DEF HistoryList
  <2>2. Prune(history) \in Seq(HistoryEntry) /\ Ids(Prune(history)) \subseteq Ids(history)
    BY <1>a, IdsOfPruned
  <2>3. OnePlaceEach'
    <3>1. /\ ungenerated' = ungenerated \ {} /\ Ids(Prune(history)) \subseteq Ids(history) \cup {}
          /\ {} \in SUBSET ungenerated /\ Save(Prune(history)) /\ reading' = reading
      BY <2>1, <2>2
    <3> QED
      BY <1>a, <2>2, <3>1, SavedInOnePlace, Zenon
  <2>4. NoneExpiredShown'
    BY <1>a, <2>1, PrunedAreAlive DEF NoneExpiredShown, Alive
  <2> QED
    BY <2>3, <2>4 DEF HistoryFresh
<1>4. ASSUME HistoryClear PROVE HistoryFresh'
  <2>1. Save(<<>>) /\ answer' = answer /\ reading' = reading /\ ungenerated' = ungenerated
    BY <1>4 DEF HistoryClear
  <2>2. <<>> \in Seq(HistoryEntry) /\ Ids(<<>>) = {}
    BY DEF Ids
  <2>3. OnePlaceEach'
    <3>1. ungenerated' = ungenerated \ {} /\ Ids(<<>>) \subseteq Ids(history) \cup {}
      BY <2>1, <2>2
    <3> QED
      BY <1>a, <2>1, <2>2, <3>1, SavedInOnePlace
  <2> QED
    BY <2>1, <2>3, <1>b DEF HistoryFresh
<1>5. ASSUME OpenOrLock PROVE HistoryFresh'
  BY <1>5, <1>c, <1>d DEF OpenOrLock, HistoryFresh
<1>6. ASSUME NEW t \in 0..MaxNow, SetClock(t) PROVE HistoryFresh'
  <2>1. /\ reading' = t /\ answer' = <<>>
        /\ history' = history /\ dropped' = dropped /\ ungenerated' = ungenerated
    BY <1>6 DEF SetClock
  <2>2. t \in Int
    BY HistoryAssumption
  <2>3. OnePlaceEach'
    BY <1>a, <2>1, <2>2 DEF OnePlaceEach, Ids
  <2> QED
    BY <2>1, <2>3, <1>c DEF HistoryFresh
<1>7. ASSUME UNCHANGED historyVars PROVE HistoryFresh'
  <2>1. /\ answer' = answer /\ reading' = reading
        /\ history' = history /\ dropped' = dropped /\ ungenerated' = ungenerated
    BY <1>7 DEF historyVars
  <2> QED
    BY <2>1, <1>b, <1>d DEF HistoryFresh
<1> QED
  BY <1>1, <1>2, <1>3, <1>4, <1>5, <1>6, <1>7 DEF HistoryNext

(* prune, save and the commands of generator.rs: no expired entry is       *)
(* listed or copied, and one that was dropped does not come back, whatever *)
(* the clock is set to.  That a dropped entry stays away needs more than   *)
(* the property says: a value that is recorded must be a new one.          *)
THEOREM ExpiredEntriesStayGone == HistorySpec => []ExpiredStaysGone
<1>1. HistoryFresh => ExpiredStaysGone
  BY DEF HistoryFresh, OnePlaceEach, NoneExpiredShown, ExpiredStaysGone
<1> QED
  BY <1>1, HistoryFreshInit, HistoryFreshStep, PTL DEF HistorySpec

-----------------------------------------------------------------------------
(* Themes.                                                                 *)

LEMMA LeastPosition ==
    ASSUME NEW S \in SUBSET Nat, S # {}
    PROVE  \E k \in S : \A j \in S : k <= j
<1>1. \E x \in S : \A y \in S : ~ (<<y, x>> \in OpToRel(<, Nat))
  BY WFMin, NatLessThanWellFounded, Zenon
<1>2. PICK x \in S : \A y \in S : ~ (<<y, x>> \in OpToRel(<, Nat))
  BY <1>1, Zenon
<1>3. \A y \in S : ~ (y < x)
  BY <1>2, Zenon DEF OpToRel
<1> QED
  BY <1>3

\* What may be selected while the list of documents is list.
Offered(list) == {list[k].id : k \in DOMAIN list} \cup {"builtin"}

(* An import leaves every document or replaces it by one of its id.        *)
LEMMA ImportOffersNoLess ==
    ASSUME NEW list \in Seq(Documents), NEW d \in Documents
    PROVE  Imported(list, d) \in Seq(Documents) /\ Offered(list) \subseteq Offered(Imported(list, d))
<1> DEFINE match == {k \in DOMAIN list : Valid(list[k]) /\ list[k].id = d.id}
           first == CHOOSE k \in match : \A j \in match : k <= j
<1>1. CASE match = {}
  <2>1. Imported(list, d) = Append(list, d)
    BY <1>1 DEF Imported
  <2>2. /\ Append(list, d) \in Seq(Documents)
        /\ \A k \in DOMAIN list : k \in DOMAIN Append(list, d) /\ Append(list, d)[k] = list[k]
    OBVIOUS
  <2> QED
    BY <2>1, <2>2 DEF Offered
<1>2. CASE match # {}
  <2>1. DOMAIN list = 1..Len(list) /\ match \in SUBSET Nat
    OBVIOUS
  <2>2. \E k \in match : \A j \in match : k <= j
    BY <1>2, <2>1, LeastPosition
  <2>3. first \in match
    BY <2>2
  <2>4. Imported(list, d) = [list EXCEPT ![first] = d]
    BY <1>2 DEF Imported
  <2> HIDE DEF first
  <2>5. list[first].id = d.id /\ first \in DOMAIN list
    BY <2>3
  <2> HIDE DEF match
  <2>6. /\ [list EXCEPT ![first] = d] \in Seq(Documents)
        /\ DOMAIN [list EXCEPT ![first] = d] = DOMAIN list
        /\ \A k \in DOMAIN list : [list EXCEPT ![first] = d][k].id = list[k].id
    BY <2>5
  <2> QED
    BY <2>4, <2>6 DEF Offered
<1> QED
  BY <1>1, <1>2

(* A deletion takes no document of another id.                             *)
LEMMA DeletionTakesItsOwn ==
    ASSUME themes \in Seq(Documents), NEW id,
           NEW left, left = Only(themes, {k \in DOMAIN themes : ~(Valid(themes[k]) /\ themes[k].id = id)})
    PROVE  left \in Seq(Documents) /\ Offered(themes) \ {id} \subseteq Offered(left)
<1> DEFINE kept == {k \in DOMAIN themes : ~(Valid(themes[k]) /\ themes[k].id = id)}
<1>1. DOMAIN themes = 1..Len(themes) /\ kept \in SUBSET (1..Len(themes))
  OBVIOUS
<1>2. /\ left \in Seq(Documents)
      /\ \A i \in kept : \E k \in 1..Len(left) : left[k] = themes[i]
  BY <1>1, OnlyThose
<1>3. ASSUME NEW k \in DOMAIN themes, themes[k].id # id PROVE themes[k].id \in Offered(left)
  <2>1. k \in kept
    BY <1>3
  <2>2. PICK j \in 1..Len(left) : left[j] = themes[k]
    BY <1>2, <2>1
  <2>3. DOMAIN left = 1..Len(left)
    BY <1>2
  <2> QED
    BY <2>2, <2>3 DEF Offered
<1> QED
  BY <1>2, <1>3 DEF Offered

SelectionStored == erased \/ selected \in Offered(themes)

\* A save keeps every document, or a build that cannot decode them has erased them.
LEMMA SavedOver ==
    ASSUME themes \in Seq(Documents), Encoded
    PROVE  /\ Known \in Seq(Documents)
           /\ erased => erased'
           /\ erased' \/ Known = themes
<1>1. Known = themes \/ Known = <<>>
  BY DEF Known
<1>2. <<>> \in Seq(Documents)
  OBVIOUS
<1>3. Known \in Seq(Documents)
  BY <1>1, <1>2, Zenon
<1>4. erased' = (erased \/ Known # themes)
  BY Zenon DEF Encoded
<1> QED
  BY <1>3, <1>4, Zenon

(* Between the two statements of a command, what the second one will make  *)
(* of the pair.                                                            *)
PairFollows ==
    /\ ~cutShort /\ themeStep.do \in {"none", "reset"} =>
          asked.id = selected /\ asked.mode = mode /\ SelectionStored
    /\ ~cutShort /\ themeStep.do = "deselect" =>
          /\ asked.mode = mode
          /\ IF selected = themeStep.id THEN asked.id = "builtin"
             ELSE asked.id = selected /\ SelectionStored
    /\ themeStep.do = "select" =>
          asked.id = themeStep.id /\ asked.mode = mode /\ themeStep.id \in Offered(themes)

SelectionInv ==
    /\ themes \in Seq(Documents)
    /\ asked = [id |-> asked.id, mode |-> asked.mode]
    /\ themeStep = NoStep \/ themeStep.do # "none"
    /\ PairFollows

LEMMA SelectionInvInit == ThemeInit => SelectionInv
<1> SUFFICES ASSUME ThemeInit PROVE SelectionInv
  OBVIOUS
<1>1. /\ themes = <<>> /\ selected = "builtin" /\ mode = "system" /\ themeStep = NoStep
      /\ asked = [id |-> "builtin", mode |-> "system"]
  BY DEF ThemeInit
<1>2. themes \in Seq(Documents)
  BY <1>1
<1>3. themeStep.do = "none" /\ SelectionStored
  BY <1>1 DEF NoStep, Offered, SelectionStored
<1> QED
  BY <1>1, <1>2, <1>3 DEF SelectionInv, PairFollows

LEMMA SelectionInvStep == SelectionInv /\ [ThemeNext]_themeVars => SelectionInv'
<1> SUFFICES ASSUME SelectionInv, [ThemeNext]_themeVars PROVE SelectionInv'
  OBVIOUS
<1> USE DEF NoStep, themeWorld
<1>a. themes \in Seq(Documents) /\ PairFollows
  BY DEF SelectionInv
<1>1. ASSUME NEW d \in Documents, ThemeImport(d) PROVE SelectionInv'
  <2>1. /\ themes' = Imported(Known, d) /\ Encoded
        /\ themeStep = NoStep /\ themeStep' = themeStep
        /\ selected' = selected /\ mode' = mode /\ asked' = asked /\ cutShort' = cutShort
    BY <1>1 DEF ThemeImport
  <2>2. /\ Known \in Seq(Documents) /\ (erased => erased')
        /\ erased' \/ Known = themes
    BY <1>a, <2>1, SavedOver
  <2>3. themes' \in Seq(Documents) /\ Offered(Known) \subseteq Offered(themes')
    BY <2>1, <2>2, ImportOffersNoLess
  <2>4. SelectionStored => SelectionStored'
    BY <2>1, <2>2, <2>3 DEF SelectionStored
  <2>5. PairFollows'
    BY <1>a, <2>1, <2>4 DEF PairFollows
  <2> QED
    BY <2>1, <2>3, <2>5 DEF SelectionInv
<1>10. ASSUME SettingsSet PROVE SelectionInv'
  <2>1. /\ themes' = Known /\ Encoded /\ themeStep = NoStep /\ themeStep' = themeStep
        /\ selected' = selected /\ mode' = mode /\ asked' = asked /\ cutShort' = cutShort
    BY <1>10 DEF SettingsSet
  <2>2. /\ themes' \in Seq(Documents) /\ (erased => erased')
        /\ erased' \/ themes' = themes
    BY <1>a, <2>1, SavedOver
  <2>3. SelectionStored => SelectionStored'
    BY <2>1, <2>2 DEF SelectionStored
  <2>4. PairFollows'
    BY <1>a, <2>1, <2>3 DEF PairFollows
  <2> QED
    BY <2>1, <2>2, <2>4 DEF SelectionInv
<1>2. ASSUME NEW id \in ThemeIds, ThemeDelete(id) PROVE SelectionInv'
  <2>1. /\ themes' = Only(themes, {k \in DOMAIN themes : ~(Valid(themes[k]) /\ themes[k].id = id)})
        /\ themeStep = NoStep /\ themeStep' = [do |-> "deselect", id |-> id]
        /\ asked' = [asked EXCEPT !.id = IF @ = id THEN "builtin" ELSE @]
        /\ selected' = selected /\ mode' = mode /\ cutShort' = cutShort /\ erased' = erased
    BY <1>2 DEF ThemeDelete
  <2>2. themes' \in Seq(Documents) /\ Offered(themes) \ {id} \subseteq Offered(themes')
    BY <1>a, <2>1, DeletionTakesItsOwn
  <2>3. /\ asked' = [id |-> asked'.id, mode |-> asked'.mode] /\ asked'.mode = asked.mode
        /\ asked'.id = IF asked.id = id THEN "builtin" ELSE asked.id
    <3>1. asked = [id |-> asked.id, mode |-> asked.mode]
      BY DEF SelectionInv
    <3> QED
      BY <2>1, <3>1
  <2>4. themeStep.do = "none" /\ themeStep'.do = "deselect" /\ themeStep'.id = id
    BY <2>1
  <2>5. ASSUME ~cutShort' PROVE /\ asked'.mode = mode'
                                /\ IF selected' = id THEN asked'.id = "builtin"
                                   ELSE asked'.id = selected' /\ SelectionStored'
    <3>1. asked.id = selected /\ asked.mode = mode /\ SelectionStored
      BY <1>a, <2>1, <2>4, <2>5 DEF PairFollows
    <3> QED
      BY <2>1, <2>2, <2>3, <3>1 DEF SelectionStored
  <2>6. PairFollows'
    BY <2>4, <2>5 DEF PairFollows, Offered
  <2> QED
    BY <2>2, <2>3, <2>4, <2>6 DEF SelectionInv
<1>3. ASSUME Deselect PROVE SelectionInv'
  <2>1. /\ themeStep.do = "deselect" /\ themeStep' = NoStep /\ themeStep'.do = "none"
        /\ selected' = IF selected = themeStep.id THEN "builtin" ELSE selected
        /\ themes' = themes /\ mode' = mode /\ asked' = asked /\ cutShort' = cutShort
        /\ erased' = erased
    BY <1>3 DEF Deselect
  <2>2. "builtin" \in Offered(themes)
    BY DEF Offered
  <2>3. PairFollows'
    BY <1>a, <2>1, <2>2 DEF PairFollows, SelectionStored
  <2> QED
    BY <1>a, <2>1, <2>3 DEF SelectionInv
<1>4. ASSUME NEW id \in ThemeIds \cup {"builtin"}, NEW m \in Modes, ThemeSet(id, m) PROVE SelectionInv'
  <2>1. /\ id # "builtin" => Selectable(id)
        /\ mode' = m /\ themeStep' = [do |-> "select", id |-> id]
        /\ asked' = [id |-> id, mode |-> m] /\ themes' = themes
    BY <1>4 DEF ThemeSet
  <2>2. id \in Offered(themes')
    BY <2>1 DEF Selectable, Known, Offered
  <2>3. /\ themeStep'.do = "select" /\ themeStep'.id = id
        /\ asked'.id = id /\ asked'.mode = m
    BY <2>1
  <2>4. PairFollows'
    BY <2>1, <2>2, <2>3 DEF PairFollows, Offered
  <2> QED
    BY <1>a, <2>1, <2>3, <2>4 DEF SelectionInv
<1>5. ASSUME Select PROVE SelectionInv'
  <2>1. /\ themeStep.do = "select" /\ themeStep' = NoStep /\ themeStep'.do = "none"
        /\ selected' = themeStep.id
        /\ themes' = themes /\ mode' = mode /\ asked' = asked
    BY <1>5 DEF Select
  <2>2. PairFollows'
    BY <1>a, <2>1 DEF PairFollows, SelectionStored
  <2> QED
    BY <1>a, <2>1, <2>2 DEF SelectionInv
<1>6. ASSUME /\ themes' = themes /\ selected' = selected /\ mode' = mode
             /\ asked' = asked /\ cutShort' = cutShort /\ erased' = erased
             /\ themeStep.do \in {"none", "reset"}
             /\ themeStep' = NoStep \/ themeStep' = [do |-> "reset"]
      PROVE SelectionInv'
  <2>1. themeStep'.do \in {"none", "reset"} /\ (themeStep' = NoStep \/ themeStep'.do # "none")
    BY <1>6
  <2>2. PairFollows'
    BY <1>a, <1>6, <2>1 DEF PairFollows, SelectionStored
  <2> QED
    BY <1>a, <1>6, <2>1, <2>2 DEF SelectionInv
<1>7. ASSUME \/ \E which \in {"unlock", "app"} : TourMarkSeen(which)
             \/ TourReset \/ TourResetApp \/ SealOrUnseal \/ BuildChanges
      PROVE SelectionInv'
  BY <1>6, <1>7 DEF TourMarkSeen, TourReset, TourResetApp, SealOrUnseal, BuildChanges
<1>8. ASSUME ThemeCut PROVE SelectionInv'
  <2>1. /\ themeStep' = NoStep /\ themeStep'.do = "none" /\ themeStep # NoStep
        /\ themes' = themes /\ selected' = selected /\ mode' = mode /\ asked' = asked
        /\ erased' = erased
        /\ cutShort' = (cutShort \/ themeStep.do # "reset")
    BY <1>8 DEF ThemeCut
  <2>2. ~cutShort' => ~cutShort /\ themeStep.do = "reset"
    BY <2>1
  <2>3. PairFollows'
    BY <1>a, <2>1, <2>2 DEF PairFollows, SelectionStored
  <2> QED
    BY <1>a, <2>1, <2>3 DEF SelectionInv
<1>9. ASSUME UNCHANGED themeVars PROVE SelectionInv'
  BY <1>9 DEF themeVars, SelectionInv, PairFollows, SelectionStored
<1> QED
  BY <1>1, <1>2, <1>3, <1>4, <1>5, <1>7, <1>8, <1>9, <1>10 DEF ThemeNext

(* theme_import, theme_delete and theme_set, with the two statements of    *)
(* the last two apart: between commands the pair stored is the one asked   *)
(* for, and names a document that is stored, unless a command was cut or a *)
(* build that could not decode the documents has saved over them.          *)
(* The inductive invariant says what a command in progress has yet to      *)
(* make of the pair.                                                       *)
THEOREM SelectionAlwaysHolds == ThemeSpec => []SelectionHolds
<1>1. SelectionInv => SelectionHolds
  <2> SUFFICES ASSUME SelectionInv, themeStep = NoStep, ~cutShort
               PROVE  /\ [id |-> selected, mode |-> mode] = asked
                      /\ selected # "builtin" /\ ~erased
                         => \E k \in DOMAIN themes : themes[k].id = selected
    BY DEF SelectionHolds
  <2>1. themeStep.do = "none"
    BY DEF NoStep
  <2>2. asked.id = selected /\ asked.mode = mode /\ SelectionStored
    BY <2>1 DEF SelectionInv, PairFollows
  <2> QED
    BY <2>2 DEF SelectionInv, SelectionStored, Offered
<1> QED
  BY <1>1, SelectionInvInit, SelectionInvStep, PTL DEF ThemeSpec

-----------------------------------------------------------------------------
(* The two halves of an item.                                              *)

(* A history that is cut, put behind another password and cut again loses  *)
(* no more than one that is cut once.                                      *)
LEMMA CutOnceOrTwice ==
    ASSUME NEW S, NEW s \in Seq(S), NEW w \in S
    PROVE  Truncated(<<w>> \o Truncated(s)) = Truncated(<<w>> \o s)
<1> DEFINE L == PASSWORD_HISTORY_LIMIT
           n == IF Len(s) < L THEN Len(s) ELSE L
           m == IF 1 + Len(s) < L THEN 1 + Len(s) ELSE L
           cut == Truncated(s)
<1>1. L \in Nat /\ L >= 1 /\ Len(s) \in Nat
  BY PayloadAssumption
<1>2. n \in 0..Len(s) /\ m \in 0..(1 + Len(s)) /\ m = (IF 1 + n < L THEN 1 + n ELSE L) /\ m <= 1 + n
  BY <1>1
<1>3. cut = SubSeq(s, 1, n)
  BY DEF Truncated
<1> HIDE DEF L, n, m, cut
<1>4. cut \in Seq(S) /\ Len(cut) = n /\ \A i \in 1..n : cut[i] = s[i]
  BY <1>1, <1>2, <1>3, SubSeqProperties
<1> DEFINE one == <<w>> \o cut
           two == <<w>> \o s
<1>5. /\ one \in Seq(S) /\ Len(one) = 1 + n /\ one[1] = w
      /\ \A i \in 2..(1 + n) : one[i] = cut[i - 1]
  BY <1>4
<1>6. /\ two \in Seq(S) /\ Len(two) = 1 + Len(s) /\ two[1] = w
      /\ \A i \in 2..(1 + Len(s)) : two[i] = s[i - 1]
  BY <1>1
<1> HIDE DEF one, two
<1>7. Truncated(one) = SubSeq(one, 1, m) /\ Truncated(two) = SubSeq(two, 1, m)
  BY <1>2, <1>5, <1>6 DEF Truncated, L, m
<1>8. \A i \in 1..m : one[i] = two[i]
  <2> TAKE i \in 1..m
  <2>1. CASE i = 1
    BY <1>5, <1>6, <2>1
  <2>2. CASE i # 1
    <3>1. i \in 2..(1 + n) /\ i \in 2..(1 + Len(s)) /\ i - 1 \in 1..n
      BY <1>1, <1>2, <2>2
    <3> QED
      BY <1>4, <1>5, <1>6, <3>1
  <2> QED
    BY <2>1, <2>2
<1>9. /\ SubSeq(one, 1, m) = [i \in 1..m |-> one[i]]
      /\ SubSeq(two, 1, m) = [i \in 1..m |-> two[i]]
  BY <1>1, <1>2, <1>5, <1>6
<1> QED
  BY <1>7, <1>8, <1>9 DEF one, two, cut

MetaField == [kind : {"Text", "Hidden"}, value : Words \cup {BlankText}]

(* The half read at unlock has a hidden field for every hidden value of    *)
(* the other half, and nothing in it.                                      *)
LEMMA HiddenAreBlanked ==
    ASSUME NEW custom \in Seq(CustomField)
    PROVE  LET hidden == HiddenOnes(MetaCustoms(custom))
           IN  /\ Len(hidden) = Len(HiddenValues(custom))
               /\ \A i \in DOMAIN hidden : hidden[i].value = BlankText
<1> DEFINE meta == MetaCustoms(custom)
           kept == {i \in DOMAIN custom : Hidden(custom[i])}
<1>1. DOMAIN custom = 1..Len(custom) /\ Len(custom) \in Nat /\ kept \in SUBSET (1..Len(custom))
  OBVIOUS
<1>2. \A i \in DOMAIN custom : custom[i] \in CustomField
  OBVIOUS
<1>3. DOMAIN meta = DOMAIN custom
  BY DEF MetaCustoms
<1>4. ASSUME NEW i \in DOMAIN custom
      PROVE  /\ meta[i] \in MetaField /\ (Hidden(meta[i]) <=> Hidden(custom[i]))
             /\ Hidden(meta[i]) => meta[i].value = BlankText
  <2>1. custom[i] \in CustomField
    BY <1>2
  <2>2. CASE Hidden(custom[i])
    <3>1. meta[i] = [custom[i] EXCEPT !.value = BlankText]
      BY <2>2 DEF MetaCustoms
    <3> QED
      BY <2>1, <2>2, <3>1 DEF CustomField, MetaField, Hidden
  <2>3. CASE ~Hidden(custom[i])
    <3>1. meta[i] = custom[i]
      BY <2>3 DEF MetaCustoms
    <3> QED
      BY <2>1, <2>3, <3>1 DEF CustomField, MetaField
  <2> QED
    BY <2>2, <2>3
<1>5. meta \in Seq(MetaField) /\ Len(meta) = Len(custom)
  <2>1. meta = [i \in 1..Len(custom) |-> meta[i]]
    BY <1>1 DEF MetaCustoms
  <2> QED
    BY <1>1, <1>4, <2>1
<1> HIDE DEF meta
<1>6. HiddenOnes(meta) = Only(meta, kept)
  <2>1. {i \in DOMAIN meta : Hidden(meta[i])} = kept
    BY <1>3, <1>4
  <2> QED
    BY <2>1 DEF HiddenOnes
<1>7. HiddenOnes(custom) = Only(custom, kept)
  BY DEF HiddenOnes
<1>8. \A i \in kept : meta[i].value = BlankText
  BY <1>4
<1> HIDE DEF kept
<1>9. /\ Only(meta, kept) \in Seq(MetaField) /\ Len(Only(meta, kept)) = Cardinality(kept)
      /\ \A k \in 1..Len(Only(meta, kept)) : \E i \in kept : Only(meta, kept)[k] = meta[i]
  BY <1>1, <1>5, OnlyThose
<1>10. /\ Only(custom, kept) \in Seq(CustomField) /\ Len(Only(custom, kept)) = Cardinality(kept)
       /\ Cardinality(kept) \in Nat
  BY <1>1, OnlyThose
<1>11. Len(HiddenValues(custom)) = Cardinality(kept)
  <2>1. HiddenValues(custom) = [i \in 1..Cardinality(kept) |-> Only(custom, kept)[i].value]
    BY <1>7, <1>10 DEF HiddenValues
  <2> QED
    BY <1>10, <2>1
<1> QED
  BY <1>6, <1>8, <1>9, <1>11 DEF meta

(* What the half read at unlock says of the other one.                     *)
Says(meta, draft) ==
    /\ {"kind", "hasTotp", "custom"} \subseteq DOMAIN meta
    /\ meta.kind = draft.kind /\ meta.custom = MetaCustoms(draft.custom)
    /\ meta.hasTotp <=> draft.totp # None

(* An item stored is the draft last entered, split, with the history of    *)
(* what it replaced.                                                       *)
SplitOfEntered ==
    /\ DOMAIN item = {"meta", "secret", "revision", "deleted"}
    /\ entered \in Draft
    /\ Says(item.meta, entered)
    /\ item.secret = SecretOf(entered, Truncated(replaced))

WholeInv ==
    /\ replaced \in Seq(Words)
    /\ IF Stored THEN SplitOfEntered ELSE replaced = <<>>

\* An item is left as it was in all but what the half says of other things.
LEMMA DecodedSaysTheSame ==
    ASSUME NEW meta, NEW draft, Says(meta, draft)
    PROVE  Says(Decoded(meta), draft)
<1>1. \A f \in {"kind", "hasTotp", "custom"} : f \in DOMAIN Decoded(meta) /\ Decoded(meta)[f] = meta[f]
  BY DEF Says, Decoded
<1> QED
  BY <1>1 DEF Says

LEMMA DraftMeta ==
    ASSUME NEW draft, NEW created
    PROVE  Says(MetaOf(draft, created), draft) /\ Says(BeforeIcons(MetaOf(draft, created)), draft)
<1> DEFINE meta == MetaOf(draft, created)
<1>1. /\ DOMAIN meta = {"kind", "text", "favorite", "hasTotp", "created", "custom", "icon"}
      /\ meta.kind = draft.kind /\ meta.custom = MetaCustoms(draft.custom)
  BY DEF MetaOf
<1>2. meta.hasTotp <=> draft.totp # None
  BY DEF MetaOf
<1> HIDE DEF meta
<1>3. \A f \in {"kind", "hasTotp", "custom"} : f \in DOMAIN BeforeIcons(meta) /\ BeforeIcons(meta)[f] = meta[f]
  BY <1>1 DEF BeforeIcons
<1> QED
  BY <1>1, <1>2, <1>3 DEF Says, meta

LEMMA NothingIsReplaced == <<>> \in Seq(Words) /\ Truncated(<<>>) = <<>>
<1>1. Len(<<>>) = 0 /\ 0 < PASSWORD_HISTORY_LIMIT
  BY PayloadAssumption
<1>2. Truncated(<<>>) = SubSeq(<<>>, 1, 0)
  BY <1>1 DEF Truncated
<1> QED
  BY <1>2

LEMMA WholeInvInit == PayloadInit => WholeInv
<1> SUFFICES ASSUME PayloadInit PROVE WholeInv
  OBVIOUS
<1>1. replaced = <<>> /\ replaced \in Seq(Words) /\ Truncated(replaced) = <<>>
  BY NothingIsReplaced DEF PayloadInit
<1>2. CASE item = NoItem
  BY <1>1, <1>2 DEF WholeInv, Stored
<1>3. ASSUME NEW draft \in Drafts, entered = draft,
             item = [meta |-> BeforeIcons(MetaOf(draft, "first write")), secret |-> SecretOf(draft, <<>>),
                     revision |-> 1, deleted |-> FALSE]
      PROVE WholeInv
  <2>1. /\ DOMAIN item = {"meta", "secret", "revision", "deleted"}
        /\ item.meta = BeforeIcons(MetaOf(draft, "first write"))
        /\ item.secret = SecretOf(draft, <<>>)
    BY <1>3
  <2>2. entered \in Draft
    BY <1>3 DEF Drafts
  <2> QED
    BY <1>1, <1>3, <2>1, <2>2, DraftMeta DEF WholeInv, SplitOfEntered
<1> QED
  BY <1>2, <1>3 DEF PayloadInit

(* Both halves are sealed again, of the draft entered and with the history *)
(* of what it has replaced.                                                *)
LEMMA SealedIsWhole ==
    ASSUME NEW meta, NEW secret, DOMAIN item = {"meta", "secret", "revision", "deleted"},
           item' = Sealed(meta, secret),
           entered' \in Draft, Says(meta, entered'),
           replaced' \in Seq(Words), secret = SecretOf(entered', Truncated(replaced'))
    PROVE  WholeInv'
<1>1. /\ DOMAIN item' = {"meta", "secret", "revision", "deleted"}
      /\ item'.meta = meta /\ item'.secret = secret
  BY DEF Sealed
<1>2. Stored'
  <2>1. "meta" \notin DOMAIN NoItem
    BY DEF NoItem
  <2>2. "meta" \in DOMAIN item'
    BY <1>1
  <2>3. item' # NoItem
    BY <2>1, <2>2
  <2> QED
    BY <2>3 DEF Stored, NoItem
<1>3. SplitOfEntered'
  BY <1>1 DEF SplitOfEntered, Says, Truncated, SecretOf, HiddenValues, HiddenOnes, MetaCustoms
<1> QED
  BY <1>2, <1>3 DEF WholeInv

LEMMA EditedIsWhole ==
    ASSUME WholeInv, Stored, NEW field, field \notin {"kind", "hasTotp", "custom"}, NEW value,
           item' = Sealed([Meta EXCEPT ![field] = value], item.secret),
           entered' = entered, replaced' = replaced
    PROVE  WholeInv'
<1>1. SplitOfEntered /\ replaced \in Seq(Words)
  BY DEF WholeInv
<1>2. Says(Meta, entered)
  BY <1>1, DecodedSaysTheSame DEF SplitOfEntered, Meta
<1>3. Says([Meta EXCEPT ![field] = value], entered)
  <2>1. \A f \in {"kind", "hasTotp", "custom"} :
           /\ f \in DOMAIN [Meta EXCEPT ![field] = value]
           /\ [Meta EXCEPT ![field] = value][f] = Meta[f]
    BY <1>2 DEF Says
  <2> QED
    BY <1>2, <2>1 DEF Says
<1> QED
  BY <1>1, <1>3, SealedIsWhole DEF SplitOfEntered

\* A secret field of a body is no code and no custom field.
LEMMA FieldsAreRevealed ==
    ASSUME NEW k \in Kinds, NEW f \in BodySecrets(k), f \in DOMAIN item.secret.fields
    PROVE  Revealed(f) = item.secret.fields[f]
<1>1. f # TotpSecret /\ f[1] # "Custom"
  BY DEF BodySecrets, Kinds, Password, TotpSecret, Named
<1> QED
  BY <1>1 DEF Revealed

LEMMA WholeInvStep == WholeInv /\ [PayloadNext]_payloadVars => WholeInv'
<1> SUFFICES ASSUME WholeInv, [PayloadNext]_payloadVars PROVE WholeInv'
  OBVIOUS
<1>a. replaced \in Seq(Words) /\ (Stored => SplitOfEntered) /\ (~Stored => replaced = <<>>)
  BY DEF WholeInv
<1>1. ASSUME NEW draft \in Drafts, Insert(draft) PROVE WholeInv'
  <2>1. /\ item' = [meta |-> MetaOf(draft, "first write"), secret |-> SecretOf(draft, <<>>),
                    revision |-> 1, deleted |-> FALSE]
        /\ entered' = draft /\ replaced' = <<>>
    BY <1>1 DEF Insert
  <2>2. /\ DOMAIN item' = {"meta", "secret", "revision", "deleted"}
        /\ item'.meta = MetaOf(draft, "first write") /\ item'.secret = SecretOf(draft, <<>>)
    BY <2>1
  <2>3. entered' \in Draft
    BY <2>1 DEF Drafts
  <2>4. replaced' \in Seq(Words) /\ Truncated(replaced') = <<>>
    BY <2>1, NothingIsReplaced
  <2>5. SplitOfEntered'
    <3>1. Says(item'.meta, entered') /\ item'.secret = SecretOf(entered', Truncated(replaced'))
      BY <2>1, <2>2, <2>4, DraftMeta
    <3> QED
      BY <2>2, <2>3, <3>1
         DEF SplitOfEntered, Says, Truncated, SecretOf, HiddenValues, HiddenOnes, MetaCustoms
  <2>6. Stored'
    <3>1. "meta" \notin DOMAIN NoItem /\ "meta" \in DOMAIN item'
      BY <2>2 DEF NoItem
    <3>2. item' # NoItem
      BY <3>1
    <3> QED
      BY <3>2 DEF Stored, NoItem
  <2> QED
    BY <2>4, <2>5, <2>6 DEF WholeInv
<1>2. ASSUME NEW draft \in Drafts, Update(draft) PROVE WholeInv'
  <2> DEFINE word == item.secret.fields[Password]
             kept == History(draft, item.secret)
  <2>1. /\ Stored /\ SplitOfEntered
        /\ item' = Sealed(MetaOf(draft, "later write"), SecretOf(draft, kept))
        /\ entered' = draft /\ draft \in Draft
        /\ replaced' = IF {Meta.kind, draft.kind} = {"Login"} /\ Revealed(Password) # draft.word
                       THEN <<Revealed(Password)>> \o replaced ELSE replaced
    BY <1>a, <1>2 DEF Update, Drafts
  <2>2. Meta.kind = entered.kind
    BY <2>1, DecodedSaysTheSame DEF SplitOfEntered, Meta, Says
  <2>3. /\ item.secret.kind = entered.kind /\ item.secret.history = Truncated(replaced)
        /\ item.secret.fields = [f \in BodySecrets(entered.kind) |-> entered.word]
    <3>1. item.secret = SecretOf(entered, Truncated(replaced))
      BY <2>1 DEF SplitOfEntered
    <3> QED
      BY <3>1 DEF SecretOf
  <2>4. replaced' \in Seq(Words) /\ kept = Truncated(replaced')
    <3>1. CASE entered.kind = "Login" /\ draft.kind = "Login"
      <4>1. Password \in DOMAIN item.secret.fields /\ word = entered.word
        BY <2>3, <3>1 DEF BodySecrets, Password
      <4>2. Revealed(Password) = word
        <5>1. "Login" \in Kinds /\ Password \in BodySecrets("Login")
          BY DEF Kinds, BodySecrets
        <5> QED
          BY <4>1, <5>1, FieldsAreRevealed
      <4>3. word \in Words
        BY <2>1, <4>1 DEF SplitOfEntered, Draft
      <4>4. {draft.kind, item.secret.kind} = {"Login"} /\ {Meta.kind, draft.kind} = {"Login"}
        BY <2>2, <2>3, <3>1
      <4>5. CASE word # draft.word
        <5>1. kept = Truncated(<<word>> \o Truncated(replaced)) /\ replaced' = <<word>> \o replaced
          BY <2>1, <2>3, <4>2, <4>4, <4>5 DEF History
        <5>2. Truncated(<<word>> \o Truncated(replaced)) = Truncated(<<word>> \o replaced)
          BY <1>a, <4>3, CutOnceOrTwice
        <5>3. <<word>> \o replaced \in Seq(Words)
          BY <1>a, <4>3
        <5> QED
          BY <5>1, <5>2, <5>3
      <4>6. CASE word = draft.word
        BY <1>a, <2>1, <2>3, <4>2, <4>6 DEF History
      <4> QED
        BY <4>5, <4>6
    <3>2. CASE ~(entered.kind = "Login" /\ draft.kind = "Login")
      <4>1. {draft.kind, item.secret.kind} # {"Login"} /\ {Meta.kind, draft.kind} # {"Login"}
        BY <2>2, <2>3, <3>2
      <4> QED
        BY <1>a, <2>1, <2>3, <4>1 DEF History
    <3> QED
      BY <3>1, <3>2
  <2> HIDE DEF kept
  <2>5. Says(MetaOf(draft, "later write"), draft)
    BY DraftMeta
  <2> QED
    BY <2>1, <2>4, <2>5, SealedIsWhole DEF SplitOfEntered
<1>3. ASSUME NEW text \in Words \cup {BlankText}, ItemEditMeta(text) PROVE WholeInv'
  <2>1. /\ item' = Sealed([Meta EXCEPT !["text"] = text], item.secret)
        /\ Stored /\ entered' = entered /\ replaced' = replaced
    BY <1>3 DEF ItemEditMeta, Readable
  <2>2. "text" \notin {"kind", "hasTotp", "custom"}
    OBVIOUS
  <2> QED
    BY <2>1, <2>2, EditedIsWhole, Zenon
<1>4. ASSUME ToggleFavorite PROVE WholeInv'
  <2>1. /\ item' = Sealed([Meta EXCEPT !["favorite"] = ~Meta["favorite"]], item.secret)
        /\ Stored /\ entered' = entered /\ replaced' = replaced
    BY <1>4 DEF ToggleFavorite, Readable
  <2>2. "favorite" \notin {"kind", "hasTotp", "custom"}
    OBVIOUS
  <2> QED
    BY <2>1, <2>2, EditedIsWhole, Zenon
<1>5. ASSUME NEW icon \in Icons \cup {None}, SetCustomIcon(icon) PROVE WholeInv'
  <2>1. /\ item' = Sealed([Meta EXCEPT !["icon"] = icon], item.secret)
        /\ Stored /\ entered' = entered /\ replaced' = replaced
    BY <1>5 DEF SetCustomIcon, Readable
  <2>2. "icon" \notin {"kind", "hasTotp", "custom"}
    OBVIOUS
  <2> QED
    BY <2>1, <2>2, EditedIsWhole, Zenon
<1>6. ASSUME NEW totp \in TotpConfigs \cup {None}, SetTotp(totp) PROVE WholeInv'
  <2> DEFINE meta == [Meta EXCEPT !.hasTotp = totp # None]
             secret == [item.secret EXCEPT !.totp = totp]
  <2>1. /\ Stored /\ SplitOfEntered /\ item' = Sealed(meta, secret)
        /\ entered' = [entered EXCEPT !.totp = totp] /\ replaced' = replaced
    BY <1>a, <1>6 DEF SetTotp, Readable
  <2>2. Says(Meta, entered)
    BY <2>1, DecodedSaysTheSame DEF SplitOfEntered, Meta
  <2>3. /\ entered' \in Draft /\ entered'.totp = totp /\ entered'.kind = entered.kind
        /\ entered'.custom = entered.custom /\ entered'.word = entered.word
    BY <2>1 DEF SplitOfEntered, Draft
  <2>4. Says(meta, entered')
    <3>1. meta.kind = Meta.kind /\ meta.custom = Meta.custom /\ (meta.hasTotp <=> totp # None)
      BY <2>2 DEF Says
    <3> QED
      BY <2>2, <2>3, <3>1 DEF Says
  <2>5. secret = SecretOf(entered', Truncated(replaced))
    BY <2>1, <2>3 DEF SplitOfEntered, SecretOf
  <2> HIDE DEF meta, secret
  <2> QED
    BY <1>a, <2>1, <2>3, <2>4, <2>5, SealedIsWhole DEF SplitOfEntered
<1>7. ASSUME NEW deleted \in BOOLEAN, SetDeleted(deleted) PROVE WholeInv'
  <2>1. /\ Stored /\ SplitOfEntered /\ item' = [item EXCEPT !.deleted = deleted]
        /\ entered' = entered /\ replaced' = replaced
    BY <1>a, <1>7 DEF SetDeleted
  <2>2. /\ DOMAIN item' = {"meta", "secret", "revision", "deleted"}
        /\ item'.meta = item.meta /\ item'.secret = item.secret
    BY <2>1 DEF SplitOfEntered
  <2>3. Stored'
    <3>1. "meta" \notin DOMAIN NoItem /\ "meta" \in DOMAIN item'
      BY <2>2 DEF NoItem
    <3>2. item' # NoItem
      BY <3>1
    <3> QED
      BY <3>2 DEF Stored, NoItem
  <2> QED
    BY <1>a, <2>1, <2>2, <2>3 DEF WholeInv, SplitOfEntered
<1>8. ASSUME UNCHANGED payloadVars PROVE WholeInv'
  BY <1>8 DEF payloadVars, WholeInv, Stored, SplitOfEntered
<1> QED
  BY <1>1, <1>2, <1>3, <1>4, <1>5, <1>6, <1>7, <1>8 DEF PayloadNext, ItemUpsert

(* split_draft, split_body, seal_payloads and the updates that reseal one  *)
(* half: the half read at unlock says what is true of the other one and    *)
(* holds none of its hidden values, every secret is the one last entered,  *)
(* and those it replaced are kept.  Inductive is that the item is the      *)
(* split of what was entered.                                              *)
THEOREM ItemsStayWhole == PayloadSpec => []ItemIsWhole
<1>1. WholeInv => ItemIsWhole
  <2> SUFFICES ASSUME WholeInv, Stored PROVE ItemIsWhole
    BY DEF ItemIsWhole, HalvesAgree, SecretsSurvive
  <2>1. SplitOfEntered
    BY DEF WholeInv
  <2>2. Says(Meta, entered)
    BY <2>1, DecodedSaysTheSame DEF SplitOfEntered, Meta
  <2>3. /\ entered \in Draft /\ entered.custom \in Seq(CustomField)
        /\ entered.kind \in Kinds /\ entered.totp \in TotpConfigs \cup {None}
    BY <2>1, PayloadAssumption DEF SplitOfEntered, Draft
  <2>4. /\ item.secret.kind = entered.kind
        /\ item.secret.fields = [f \in BodySecrets(entered.kind) |-> entered.word]
        /\ item.secret.totp = entered.totp
        /\ item.secret.hidden = HiddenValues(entered.custom)
        /\ item.secret.history = Truncated(replaced)
    BY <2>1 DEF SplitOfEntered, SecretOf
  <2>5. HalvesAgree
    <3>1. Meta.kind = item.secret.kind /\ (Meta.hasTotp <=> item.secret.totp # None)
      BY <2>2, <2>4 DEF Says
    <3>2. Meta.custom = MetaCustoms(entered.custom)
      BY <2>2 DEF Says
    <3> QED
      BY <2>3, <2>4, <3>1, <3>2, HiddenAreBlanked DEF HalvesAgree
  <2>6. \A f \in BodySecrets(Meta.kind) : Revealed(f) = entered.word
    <3>1. Meta.kind = entered.kind /\ DOMAIN item.secret.fields = BodySecrets(entered.kind)
      BY <2>2, <2>4 DEF Says
    <3> QED
      BY <2>3, <2>4, <3>1, FieldsAreRevealed
  <2>7. Revealed(TotpSecret) = IF entered.totp = None THEN "NoSuchField" ELSE entered.totp
    <3>1. TotpSecret \notin DOMAIN item.secret.fields
      BY <2>3, <2>4 DEF BodySecrets, TotpSecret, Password, Named, Kinds
    <3>2. TotpSecret[1] # "Custom"
      BY DEF TotpSecret, Named
    <3> QED
      BY <2>4, <3>1, <3>2 DEF Revealed
  <2> QED
    BY <2>4, <2>5, <2>6, <2>7 DEF ItemIsWhole, SecretsSurvive
<1> QED
  BY <1>1, WholeInvInit, WholeInvStep, PTL DEF PayloadSpec

-----------------------------------------------------------------------------
(* The types of the generator's history.                                   *)

\* No id is twice in a list.
NoneTwice(h) == \A i, j \in DOMAIN h : h[i].id = h[j].id => i = j

\* What is kept of a list has nothing twice that the list has once.
LEMMA OnlyOnce ==
    ASSUME NEW S, NEW s \in Seq(S), NEW kept \in SUBSET (1..Len(s)), NoneTwice(s)
    PROVE  NoneTwice(Only(s, kept))
<1> DEFINE n == Cardinality(kept)
           at == InOrder(kept)
<1>1. IsFiniteSet(kept) /\ n \in Nat
  <2>1. Len(s) \in Nat /\ IsFiniteSet(1..Len(s))
    BY FS_Interval
  <2> QED
    BY <2>1, FS_Subset, FS_CardinalityType
<1>2. /\ at \in [1..n -> kept]
      /\ \A i, j \in 1..n : i < j => at[i] < at[j]
  BY <1>1, CanBeOrdered
<1>3. \A k \in 1..n : at[k] \in DOMAIN s /\ at[k] \in Int
  <2>1. DOMAIN s = 1..Len(s) /\ \A i \in kept : i \in 1..Len(s) /\ i \in Int
    OBVIOUS
  <2>2. \A k \in 1..n : at[k] \in kept
    BY <1>2
  <2> HIDE DEF at, n
  <2> QED
    BY <2>1, <2>2
<1>4. \A k, l \in 1..n : at[k] = at[l] => k = l
  BY <1>2, <1>3
<1>5. Only(s, kept) = [k \in 1..n |-> s[at[k]]]
  BY <1>2 DEF Only
<1> HIDE DEF at
<1> QED
  BY <1>3, <1>4, <1>5 DEF NoneTwice

LEMMA PrunedOnce ==
    ASSUME NEW S, NEW h \in Seq(S), NoneTwice(h)
    PROVE  NoneTwice(Prune(h))
<1> DEFINE alive == {k \in DOMAIN h : Alive(h[k])}
           kept == Only(h, alive)
           n == IF Len(kept) < MAX_ENTRIES THEN Len(kept) ELSE MAX_ENTRIES
<1>1. alive \in SUBSET (1..Len(h))
  OBVIOUS
<1>2. kept \in Seq(S) /\ Len(kept) \in Nat /\ NoneTwice(kept)
  BY <1>1, OnlyThose, OnlyOnce
<1>3. Prune(h) = SubSeq(kept, 1, n)
  BY DEF Prune
<1>4. n \in 0..Len(kept)
  BY <1>2, HistoryAssumption
<1> HIDE DEF alive, kept, n
<1>5. /\ Len(SubSeq(kept, 1, n)) = n /\ SubSeq(kept, 1, n) \in Seq(S)
      /\ \A k \in 1..n : SubSeq(kept, 1, n)[k] = kept[k]
  BY <1>2, <1>4, SubSeqProperties
<1>6. 1..n \subseteq DOMAIN kept /\ DOMAIN Prune(h) = 1..n
  BY <1>2, <1>3, <1>4, <1>5
<1> QED
  BY <1>2, <1>3, <1>5, <1>6 DEF NoneTwice

\* A list in which nothing is twice has as many ids as places.
LEMMA AsManyIds ==
    ASSUME NEW S, NEW h \in Seq(S), NoneTwice(h)
    PROVE  Cardinality(Ids(h)) = Len(h)
<1> DEFINE f == [i \in 1..Len(h) |-> h[i].id]
<1>1. DOMAIN h = 1..Len(h) /\ Len(h) \in Nat
  OBVIOUS
<1>2. f \in Bijection(1..Len(h), Ids(h))
  <2>1. f \in [1..Len(h) -> Ids(h)]
    BY <1>1 DEF Ids
  <2>2. \A i, j \in 1..Len(h) : f[i] = f[j] => i = j
    BY <1>1 DEF NoneTwice
  <2>3. \A x \in Ids(h) : \E i \in 1..Len(h) : f[i] = x
    BY <1>1 DEF Ids
  <2> HIDE DEF f
  <2> QED
    BY <2>1, <2>2, <2>3 DEF Bijection, Injection, Surjection, IsInjective
<1>3. IsFiniteSet(1..Len(h)) /\ Cardinality(1..Len(h)) = Len(h)
  BY <1>1, FS_Interval
<1> HIDE DEF f
<1>4. Cardinality(1..Len(h)) = Cardinality(Ids(h))
  BY <1>2, <1>3, FS_Bijection DEF ExistsBijection
<1> QED
  BY <1>3, <1>4

Recorded == [id : Entries, created_at : 0..MaxNow]

HistoryTyped ==
    /\ opened \in BOOLEAN /\ reading \in 0..MaxNow
    /\ history \in Seq(Recorded) /\ NoneTwice(history) /\ Len(history) <= MAX_ENTRIES
    /\ ungenerated \subseteq Entries

LEMMA PrunedTyped ==
    ASSUME NEW h \in Seq(Recorded), NoneTwice(h)
    PROVE  Prune(h) \in Seq(Recorded) /\ NoneTwice(Prune(h)) /\ Len(Prune(h)) <= MAX_ENTRIES
  BY PrunedAreAlive, PrunedOnce

LEMMA HistoryTypedStep ==
    ASSUME OnePlaceEach, HistoryTyped, [HistoryNext]_historyVars
    PROVE  HistoryTyped'
<1>1. ASSUME NEW id \in Entries, Generate(id) PROVE HistoryTyped'
  <2>1. /\ id \in ungenerated /\ ungenerated' = ungenerated \ {id}
        /\ opened' = opened /\ reading' = reading
    BY <1>1 DEF Generate
  <2>2. CASE ~opened
    <3>1. history' = history
      BY <1>1, <2>2 DEF Generate
    <3> QED
      BY <2>1, <3>1 DEF HistoryTyped, NoneTwice
  <2>3. CASE opened
    <3> DEFINE new == [id |-> id, created_at |-> reading]
               h == <<new>> \o history
    <3>1. history' = Prune(h)
      BY <1>1, <2>3 DEF Generate, Save
    <3>2. new \in Recorded /\ new.id = id
      BY DEF HistoryTyped, Recorded
    <3> HIDE DEF new
    <3>3. <<new>> \in Seq(Recorded) /\ Len(<<new>>) = 1 /\ <<new>>[1] = new
      BY <3>2
    <3>4. history \in Seq(Recorded) /\ DOMAIN history = 1..Len(history) /\ Len(history) \in Nat
      BY DEF HistoryTyped
    <3>5. /\ h \in Seq(Recorded) /\ DOMAIN h = 1..(1 + Len(history))
          /\ h[1] = new /\ \A i \in 2..(1 + Len(history)) : h[i] = history[i - 1]
      BY <3>3, <3>4
    <3> HIDE DEF h
    <3>6. \A i \in DOMAIN history : history[i].id # id
      BY <2>1 DEF OnePlaceEach, Ids
    <3>7. NoneTwice(h)
      <4> SUFFICES ASSUME NEW i \in DOMAIN h, NEW j \in DOMAIN h, h[i].id = h[j].id PROVE i = j
        BY DEF NoneTwice
      <4>1. \A k \in DOMAIN h : k # 1 => /\ k - 1 \in DOMAIN history /\ h[k] = history[k - 1]
                                         /\ k \in Int
        BY <3>4, <3>5
      <4>2. CASE i = 1 /\ j = 1
        BY <4>2
      <4>3. CASE (i = 1) # (j = 1)
        BY <3>2, <3>5, <3>6, <4>1, <4>3
      <4>4. CASE i # 1 /\ j # 1
        <5>1. i - 1 = j - 1
          BY <4>1, <4>4 DEF HistoryTyped, NoneTwice
        <5> QED
          BY <4>1, <4>4, <5>1
      <4> QED
        BY <4>2, <4>3, <4>4
    <3> QED
      BY <2>1, <3>1, <3>5, <3>7, PrunedTyped DEF HistoryTyped
  <2> QED
    BY <2>2, <2>3
<1>2. ASSUME NEW id \in Entries, HistoryCopy(id) PROVE HistoryTyped'
  BY <1>2 DEF HistoryCopy, HistoryTyped, NoneTwice
<1>3. CASE HistoryList
  <2>1. history' = Prune(history) /\ UNCHANGED <<opened, reading, ungenerated>>
    BY <1>3 DEF HistoryList, Save
  <2>2. /\ Prune(history) \in Seq(Recorded) /\ NoneTwice(Prune(history))
        /\ Len(Prune(history)) <= MAX_ENTRIES
    BY PrunedTyped DEF HistoryTyped
  <2> QED
    BY <2>1, <2>2 DEF HistoryTyped
<1>4. CASE HistoryClear
  <2>1. history' = <<>> /\ UNCHANGED <<opened, reading, ungenerated>>
    BY <1>4 DEF HistoryClear, Save
  <2>2. <<>> \in Seq(Recorded) /\ NoneTwice(<<>>) /\ Len(<<>>) <= MAX_ENTRIES
    BY HistoryAssumption DEF NoneTwice
  <2> QED
    BY <2>1, <2>2 DEF HistoryTyped
<1>5. CASE OpenOrLock
  BY <1>5 DEF OpenOrLock, HistoryTyped, NoneTwice
<1>6. ASSUME NEW t \in 0..MaxNow, SetClock(t) PROVE HistoryTyped'
  BY <1>6 DEF SetClock, HistoryTyped, NoneTwice
<1>7. CASE UNCHANGED historyVars
  BY <1>7 DEF historyVars, HistoryTyped, NoneTwice
<1> QED
  BY <1>1, <1>2, <1>3, <1>4, <1>5, <1>6, <1>7 DEF HistoryNext

\* The generator's history has no value twice and no more entries than it may, each of
\* a value generated and a reading of the clock.
LEMMA HistoryTypes == HistorySpec => []HistoryTypeOK
<1> DEFINE Inv == HistoryFresh /\ HistoryTyped
<1>1. HistoryInit => Inv
  <2> SUFFICES ASSUME HistoryInit PROVE HistoryTyped
    BY HistoryFreshInit
  <2>1. <<>> \in Seq(Recorded) /\ NoneTwice(<<>>) /\ Len(<<>>) <= MAX_ENTRIES
    BY HistoryAssumption DEF NoneTwice
  <2> QED
    BY <2>1, HistoryAssumption DEF HistoryInit, HistoryTyped
<1>2. Inv /\ [HistoryNext]_historyVars => Inv'
  BY HistoryFreshStep, HistoryTypedStep DEF HistoryFresh
<1>3. Inv => HistoryTypeOK
  BY AsManyIds DEF HistoryTyped, HistoryTypeOK, Recorded
<1> QED
  BY <1>1, <1>2, <1>3, PTL DEF HistorySpec

-----------------------------------------------------------------------------
(* The types of the themes.                                                *)

ThemeTyped ==
    /\ ThemeTypeOK
    /\ themeStep.do = "select" => themeStep.id \in ThemeIds \cup {"builtin"}

LEMMA ThemeTypedStep ==
    ASSUME ThemeTyped, [ThemeNext]_themeVars
    PROVE  ThemeTyped'
<1> USE DEF themeWorld
<1>a. /\ themes \in Seq(Documents) /\ Len(themes) <= MAX_IMPORTED_THEMES
      /\ Len(themes) \in Nat /\ grammar \in 1..Grammars /\ legible \in BOOLEAN
      /\ Known \in Seq(Documents) /\ Len(Known) \in Nat
      /\ Len(Known) <= MAX_IMPORTED_THEMES
  <2>1. /\ themes \in Seq(Documents) /\ Len(themes) <= MAX_IMPORTED_THEMES
        /\ Len(themes) \in Nat /\ grammar \in 1..Grammars /\ legible \in BOOLEAN
    BY DEF ThemeTyped, ThemeTypeOK
  <2>2. CASE legible
    BY <2>1, <2>2 DEF Known
  <2>3. CASE ~legible
    <3>1. Known = <<>> /\ MAX_IMPORTED_THEMES \in Nat
      BY <2>3, ThemesAssumption DEF Known
    <3>2. Known \in Seq(Documents) /\ Len(Known) = 0
      BY <3>1
    <3> QED
      BY <2>1, <3>1, <3>2
  <2> QED
    BY <2>2, <2>3
<1>11. CASE SettingsSet
  <2>1. /\ themes' = Known /\ legible' = TRUE
        /\ UNCHANGED <<selected, mode, themeWorld, themeStep, themeCuts>>
    BY <1>11 DEF SettingsSet, Encoded
  <2> QED
    BY <1>a, <2>1 DEF ThemeTyped, ThemeTypeOK
<1>1. ASSUME NEW d \in Documents, ThemeImport(d) PROVE ThemeTyped'
  <2>1. /\ themes' = Imported(Known, d) /\ Len(Imported(Known, d)) <= MAX_IMPORTED_THEMES
        /\ legible' = TRUE
        /\ UNCHANGED <<selected, mode, themeWorld, themeStep, themeCuts>>
    BY <1>1 DEF ThemeImport, Encoded
  <2>2. themes' \in Seq(Documents)
    BY <1>a, <2>1, ImportOffersNoLess
  <2> QED
    BY <2>1, <2>2 DEF ThemeTyped, ThemeTypeOK
<1>2. ASSUME NEW id \in ThemeIds, ThemeDelete(id) PROVE ThemeTyped'
  <2> DEFINE kept == {k \in DOMAIN themes : ~(Valid(themes[k]) /\ themes[k].id = id)}
  <2>1. /\ themes' = Only(themes, kept) /\ themeStep' = [do |-> "deselect", id |-> id]
        /\ UNCHANGED <<selected, mode, themeWorld, themeCuts, legible>>
    BY <1>2 DEF ThemeDelete
  <2>2. kept \in SUBSET (1..Len(themes))
    BY <1>a
  <2> HIDE DEF kept
  <2>3. themes' \in Seq(Documents) /\ Len(themes') \in Nat /\ Len(themes') <= Len(themes)
    BY <1>a, <2>1, <2>2, OnlyThose
  <2>4. Len(themes') <= MAX_IMPORTED_THEMES
    BY <1>a, <2>3, ThemesAssumption
  <2>5. themeStep'.do = "deselect"
    BY <2>1
  <2> QED
    BY <2>1, <2>3, <2>4, <2>5 DEF ThemeTyped, ThemeTypeOK
<1>3. ASSUME NEW id \in ThemeIds \cup {"builtin"}, NEW m \in Modes, ThemeSet(id, m) PROVE ThemeTyped'
  <2>1. themeStep' = [do |-> "select", id |-> id]
    BY <1>3 DEF ThemeSet
  <2>2. themeStep'.do = "select" /\ themeStep'.id = id
    BY <2>1
  <2> QED
    BY <1>3, <2>2 DEF ThemeSet, ThemeTyped, ThemeTypeOK
<1>4. CASE Select
  BY <1>4 DEF Select, ThemeTyped, ThemeTypeOK, NoStep
<1>5. CASE Deselect
  BY <1>5 DEF Deselect, ThemeTyped, ThemeTypeOK, NoStep
<1>6. CASE TourReset \/ TourResetApp
  <2>1. /\ seen' \subseteq seen /\ themeStep'.do \in {"none", "reset"}
        /\ UNCHANGED <<themes, selected, mode, grammar, unsealed, themeCuts, legible>>
    BY <1>6 DEF TourReset, TourResetApp, NoStep
  <2> QED
    BY <2>1 DEF ThemeTyped, ThemeTypeOK
<1>10. ASSUME NEW which \in {"unlock", "app"}, TourMarkSeen(which) PROVE ThemeTyped'
  <2>1. /\ seen' = seen \cup {which}
        /\ UNCHANGED <<themes, selected, mode, grammar, unsealed, themeStep, themeCuts, legible>>
    BY <1>10 DEF TourMarkSeen
  <2>2. seen' \subseteq {"unlock", "app"}
    BY <2>1 DEF ThemeTyped, ThemeTypeOK
  <2> QED
    BY <2>1, <2>2 DEF ThemeTyped, ThemeTypeOK
<1>7. CASE SealOrUnseal \/ BuildChanges
  BY <1>7 DEF SealOrUnseal, BuildChanges, ThemeTyped, ThemeTypeOK
<1>8. CASE ThemeCut
  <2>1. themeCuts' \in 0..MaxThemeCuts
    BY <1>8, ThemesAssumption DEF ThemeCut, ThemeTyped, ThemeTypeOK
  <2> QED
    BY <1>8, <2>1 DEF ThemeCut, ThemeTyped, ThemeTypeOK, NoStep
<1>9. CASE UNCHANGED themeVars
  BY <1>9 DEF themeVars, ThemeTyped, ThemeTypeOK
<1> QED
  BY <1>1, <1>2, <1>3, <1>4, <1>5, <1>6, <1>7, <1>8, <1>9, <1>10, <1>11 DEF ThemeNext

LEMMA ThemeTypedInit == ThemeInit => ThemeTyped
<1> SUFFICES ASSUME ThemeInit PROVE ThemeTyped
  OBVIOUS
<1>1. themes = <<>> /\ themes \in Seq(Documents) /\ Len(themes) <= MAX_IMPORTED_THEMES
  BY ThemesAssumption DEF ThemeInit
<1>2. themeStep = NoStep /\ themeStep.do = "none"
  BY DEF ThemeInit, NoStep
<1>3. grammar \in 1..Grammars /\ themeCuts \in 0..MaxThemeCuts
  BY ThemesAssumption DEF ThemeInit
<1>4. selected \in ThemeIds \cup {"builtin"} /\ mode \in Modes /\ seen = {} /\ unsealed \in BOOLEAN
      /\ legible = TRUE
  BY DEF ThemeInit, Modes
<1> QED
  BY <1>1, <1>2, <1>3, <1>4 DEF ThemeTyped, ThemeTypeOK

\* Themes are no more than may be imported, and the selection and the tours name what
\* there is a name for, however a command is cut.
LEMMA ThemeTypes == ThemeSpec => []ThemeTypeOK
<1>1. ThemeTyped => ThemeTypeOK
  BY DEF ThemeTyped
<1> QED
  BY <1>1, ThemeTypedInit, ThemeTypedStep, PTL DEF ThemeSpec

-----------------------------------------------------------------------------
(* The types of an item.                                                   *)

MetaTyped(meta) ==
    /\ {"text", "favorite"} \subseteq DOMAIN meta
    /\ meta.text \in Words /\ meta.favorite \in BOOLEAN
    /\ "icon" \in DOMAIN meta => meta.icon \in Icons \cup {None}

LEMMA DecodedTyped ==
    ASSUME NEW meta, MetaTyped(meta)
    PROVE  MetaTyped(Decoded(meta)) /\ "icon" \in DOMAIN Decoded(meta)
<1>1. /\ DOMAIN Decoded(meta) = DOMAIN meta \cup {"icon"}
      /\ \A f \in DOMAIN meta : Decoded(meta)[f] = meta[f]
      /\ "icon" \notin DOMAIN meta => Decoded(meta)["icon"] = None
  BY DEF Decoded
<1> QED
  BY <1>1 DEF MetaTyped

LEMMA DraftTyped ==
    ASSUME NEW draft \in Drafts, draft.text # BlankText, NEW created
    PROVE  MetaTyped(MetaOf(draft, created)) /\ MetaTyped(BeforeIcons(MetaOf(draft, created)))
<1> DEFINE meta == MetaOf(draft, created)
<1>1. draft.text \in Words /\ draft.favorite \in BOOLEAN
  BY DEF Drafts, Draft
<1>2. /\ DOMAIN meta = {"kind", "text", "favorite", "hasTotp", "created", "custom", "icon"}
      /\ meta.text = draft.text /\ meta.favorite = draft.favorite /\ meta.icon = None
  BY DEF MetaOf
<1> HIDE DEF meta
<1>3. /\ DOMAIN BeforeIcons(meta) = DOMAIN meta \ {"icon"}
      /\ \A f \in DOMAIN meta \ {"icon"} : BeforeIcons(meta)[f] = meta[f]
  BY DEF BeforeIcons
<1> QED
  BY <1>1, <1>2, <1>3 DEF MetaTyped, meta

PayloadTyped ==
    Stored => /\ DOMAIN item = {"meta", "secret", "revision", "deleted"}
              /\ MetaTyped(item.meta) /\ item.deleted \in BOOLEAN
              /\ item.revision \in 1..MaxRevision

LEMMA SealedTyped ==
    ASSUME PayloadTyped, Stored, item.revision < MaxRevision, NEW meta, NEW secret, MetaTyped(meta),
           item' = Sealed(meta, secret)
    PROVE  PayloadTyped'
<1>1. /\ DOMAIN item' = {"meta", "secret", "revision", "deleted"}
      /\ item'.meta = meta /\ item'.deleted = item.deleted /\ item'.revision = item.revision + 1
  BY DEF Sealed, PayloadTyped
<1>2. item'.revision \in 1..MaxRevision
  BY <1>1, PayloadAssumption DEF PayloadTyped
<1> QED
  BY <1>1, <1>2 DEF PayloadTyped, MetaTyped

LEMMA EditedTyped ==
    ASSUME PayloadTyped, Stored, item.revision < MaxRevision,
           NEW field, NEW value, NEW secret,
           field = "text" => value \in Words,
           field = "favorite" => value \in BOOLEAN,
           field = "icon" => value \in Icons \cup {None},
           item' = Sealed([Meta EXCEPT ![field] = value], secret)
    PROVE  PayloadTyped'
<1>1. MetaTyped(Meta)
  BY DecodedTyped DEF PayloadTyped, Meta
<1> DEFINE meta == [Meta EXCEPT ![field] = value]
<1>2. /\ DOMAIN meta = DOMAIN Meta
      /\ \A f \in DOMAIN Meta : meta[f] = IF f = field THEN value ELSE Meta[f]
  OBVIOUS
<1> HIDE DEF meta
<1>3. MetaTyped(meta)
  BY <1>1, <1>2 DEF MetaTyped
<1>4. item' = Sealed(meta, secret)
  BY DEF meta
<1> QED
  BY <1>3, <1>4, SealedTyped

LEMMA PayloadTypedStep ==
    ASSUME PayloadTyped, [PayloadNext]_payloadVars
    PROVE  PayloadTyped'
<1>1. ASSUME NEW draft \in Drafts, ItemUpsert(draft) PROVE PayloadTyped'
  <2>1. draft.text # BlankText
    BY <1>1 DEF ItemUpsert
  <2>2. CASE Insert(draft)
    <3>1. item' = [meta |-> MetaOf(draft, "first write"), secret |-> SecretOf(draft, <<>>),
                   revision |-> 1, deleted |-> FALSE]
      BY <2>2 DEF Insert
    <3>2. /\ DOMAIN item' = {"meta", "secret", "revision", "deleted"}
          /\ item'.meta = MetaOf(draft, "first write")
          /\ item'.revision = 1 /\ item'.deleted = FALSE
      BY <3>1
    <3>3. MetaTyped(item'.meta)
      BY <2>1, <3>2, DraftTyped
    <3>4. item'.revision \in 1..MaxRevision
      <4>1. item'.revision = 1
        BY <3>2, Zenon
      <4> QED
        BY <4>1, PayloadAssumption
    <3>5. item'.deleted \in BOOLEAN
      BY <3>2, Zenon
    <3> QED
      BY <3>2, <3>3, <3>4, <3>5 DEF PayloadTyped, MetaTyped
  <2>3. CASE Update(draft)
    <3>1. PICK kept :
            /\ Stored /\ item.revision < MaxRevision
            /\ item' = Sealed(MetaOf(draft, "later write"), SecretOf(draft, kept))
      BY <2>3 DEF Update
    <3> QED
      BY <2>1, <3>1, DraftTyped, SealedTyped
  <2> QED
    BY <1>1, <2>2, <2>3 DEF ItemUpsert
<1>2. ASSUME NEW text \in Words \cup {BlankText}, ItemEditMeta(text) PROVE PayloadTyped'
  <2>1. /\ Stored /\ item.revision < MaxRevision /\ text \in Words
        /\ item' = Sealed([Meta EXCEPT !["text"] = text], item.secret)
    BY <1>2 DEF ItemEditMeta, Readable
  <2>2. "text" # "favorite" /\ "text" # "icon"
    OBVIOUS
  <2> QED
    BY <2>1, <2>2, EditedTyped, Zenon
<1>3. ASSUME ToggleFavorite PROVE PayloadTyped'
  <2>1. /\ Stored /\ item.revision < MaxRevision
        /\ item' = Sealed([Meta EXCEPT !["favorite"] = ~Meta["favorite"]], item.secret)
    BY <1>3 DEF ToggleFavorite, Readable
  <2>2. (~Meta["favorite"]) \in BOOLEAN /\ "favorite" # "text" /\ "favorite" # "icon"
    OBVIOUS
  <2> QED
    BY <2>1, <2>2, EditedTyped, Zenon
<1>4. ASSUME NEW icon \in Icons \cup {None}, SetCustomIcon(icon) PROVE PayloadTyped'
  <2>1. /\ Stored /\ item.revision < MaxRevision
        /\ item' = Sealed([Meta EXCEPT !["icon"] = icon], item.secret)
    BY <1>4 DEF SetCustomIcon, Readable
  <2>2. "icon" # "text" /\ "icon" # "favorite"
    OBVIOUS
  <2> QED
    BY <1>4, <2>1, <2>2, EditedTyped, Zenon
<1>5. ASSUME NEW totp \in TotpConfigs \cup {None}, SetTotp(totp) PROVE PayloadTyped'
  <2>1. /\ Stored /\ item.revision < MaxRevision
        /\ item' = Sealed([Meta EXCEPT !["hasTotp"] = totp # None], [item.secret EXCEPT !.totp = totp])
    BY <1>5 DEF SetTotp, Readable
  <2>2. (totp # None) \in BOOLEAN /\ "hasTotp" \notin {"text", "favorite", "icon"}
    OBVIOUS
  <2> QED
    BY <2>1, <2>2, EditedTyped
<1>6. ASSUME NEW deleted \in BOOLEAN, SetDeleted(deleted) PROVE PayloadTyped'
  <2>1. /\ Stored /\ item' = [item EXCEPT !.deleted = deleted]
    BY <1>6 DEF SetDeleted
  <2>2. /\ DOMAIN item' = {"meta", "secret", "revision", "deleted"}
        /\ item'.meta = item.meta /\ item'.revision = item.revision /\ item'.deleted = deleted
    BY <2>1 DEF PayloadTyped
  <2> QED
    BY <2>1, <2>2 DEF PayloadTyped, MetaTyped
<1>7. CASE UNCHANGED payloadVars
  BY <1>7 DEF payloadVars, PayloadTyped, MetaTyped, Stored
<1> QED
  BY <1>1, <1>2, <1>3, <1>4, <1>5, <1>6, <1>7 DEF PayloadNext

LEMMA PayloadTypedInit == PayloadInit => PayloadTyped
<1> SUFFICES ASSUME PayloadInit, Stored PROVE PayloadTyped
  BY DEF PayloadTyped
<1>1. PICK draft \in Drafts :
        /\ draft.text # BlankText
        /\ item = [meta |-> BeforeIcons(MetaOf(draft, "first write")), secret |-> SecretOf(draft, <<>>),
                   revision |-> 1, deleted |-> FALSE]
  BY DEF PayloadInit, Stored
<1>2. /\ DOMAIN item = {"meta", "secret", "revision", "deleted"}
      /\ item.meta = BeforeIcons(MetaOf(draft, "first write"))
      /\ item.revision = 1 /\ item.deleted = FALSE
  BY <1>1
<1>3. MetaTyped(item.meta)
  BY <1>1, <1>2, DraftTyped
<1>4. item.revision \in 1..MaxRevision
  <2>1. item.revision = 1
    BY <1>2, Zenon
  <2> QED
    BY <2>1, PayloadAssumption
<1>5. item.deleted \in BOOLEAN
  BY <1>2, Zenon
<1> QED
  BY <1>2, <1>3, <1>4, <1>5 DEF PayloadTyped

LEMMA ItemTyped == WholeInv /\ PayloadTyped => PayloadTypeOK
<1> SUFFICES ASSUME WholeInv, PayloadTyped, Stored PROVE PayloadTypeOK
  BY DEF PayloadTypeOK
<1>1. SplitOfEntered /\ replaced \in Seq(Words)
  BY DEF WholeInv
<1>2. MetaTyped(Meta) /\ "icon" \in DOMAIN Meta
  BY DecodedTyped DEF PayloadTyped, Meta
<1>3. Meta.kind = entered.kind
  BY <1>1, DecodedSaysTheSame DEF SplitOfEntered, Meta, Says
<1>4. entered.kind \in Kinds /\ entered.totp \in TotpConfigs \cup {None}
  BY <1>1 DEF SplitOfEntered, Draft
<1>5. /\ item.secret.fields = [f \in BodySecrets(entered.kind) |-> entered.word]
      /\ item.secret.totp = entered.totp /\ item.secret.history = Truncated(replaced)
  BY <1>1 DEF SplitOfEntered, SecretOf
<1>6. Len(Truncated(replaced)) <= PASSWORD_HISTORY_LIMIT
  BY <1>1, PayloadAssumption DEF Truncated
<1> QED
  BY <1>2, <1>3, <1>4, <1>5, <1>6 DEF PayloadTypeOK, PayloadTyped, MetaTyped

\* An item stored by any build has a kind, a title, and no more past passwords than the
\* limit, with the secret fields of its kind and no other.
LEMMA PayloadTypes == PayloadSpec => []PayloadTypeOK
<1>1. PayloadInit => WholeInv /\ PayloadTyped
  BY WholeInvInit, PayloadTypedInit
<1>2. (WholeInv /\ PayloadTyped) /\ [PayloadNext]_payloadVars => (WholeInv /\ PayloadTyped)'
  BY WholeInvStep, PayloadTypedStep
<1> QED
  BY <1>1, <1>2, ItemTyped, PTL DEF PayloadSpec
=============================================================================
