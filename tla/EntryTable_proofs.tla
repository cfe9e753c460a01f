------------------------- MODULE EntryTable_proofs --------------------------
(***************************************************************************)
(* The storage of an instance keeps its three structures in agreement, for *)
(* every buffer, every set of keys and values and every algorithm.         *)
(***************************************************************************)
EXTENDS MCEntryTable, ReplacementHistory, TLAPS, WellFoundedInduction, SequenceTheorems, FiniteSetTheorems

-----------------------------------------------------------------------------
(* The victims' list: what its operations do to the keys it holds, for every
   list and under every algorithm. *)

\* The items of a list over the keys K.
Item(K) == [key : K, size : Nat \ {0}]

-----------------------------------------------------------------------------
(* Positions in a sequence *)

\* A non-empty set of naturals has a least element, which Min returns: a loop
\* over a list that looks for a place stops at the first one.
LEMMA MinIsLeast ==
    ASSUME NEW S \in SUBSET Nat, S # {}
    PROVE  /\ Min(S) \in S
           /\ \A y \in S : Min(S) <= y
<1> DEFINE R == {ss \in Nat \X Nat : ss[1] < ss[2]}
<1>1. OpToRel(<, Nat) = R
  BY Zenon DEF OpToRel
<1>2. IsWellFoundedOn(R, Nat)
  BY <1>1, NatLessThanWellFounded, Zenon
<1> HIDE DEF R
<1>3. PICK x \in S : \A y \in S : ~(<<y, x>> \in R)
  BY <1>2, WFMin, Zenon
<1>4. \A y \in S : x <= y
  <2> SUFFICES ASSUME NEW y \in S PROVE x <= y
    OBVIOUS
  <2>1. ~(<<y, x>> \in R)
    BY <1>3
  <2>2. x \in Nat /\ y \in Nat
    OBVIOUS
  <2>3. y < x => <<y, x>> \in R
    BY <2>2 DEF R
  <2>. QED
    BY <2>1, <2>2, <2>3
<1>. QED
  BY <1>4 DEF Min

\* SelectInSeq finds the first place that satisfies a test, where the test is
\* membership in the set of places P.
LEMMA FirstPlace ==
    ASSUME NEW n \in Nat, NEW P \in SUBSET (1 .. n), P # {}
    PROVE  Min(P) \in P /\ Min(P) \in 1 .. n
<1>1. P \in SUBSET Nat
  OBVIOUS
<1>. QED
  BY <1>1, MinIsLeast

\* list_remove_by_condition drops one place and keeps the order of the others.
LEMMA RemoveAtProperties ==
    ASSUME NEW S, NEW s \in Seq(S), NEW i \in 1 .. Len(s)
    PROVE  /\ RemoveAt(s, i) \in Seq(S)
           /\ Len(RemoveAt(s, i)) = Len(s) - 1
           /\ \A j \in 1 .. Len(s) - 1 :
                RemoveAt(s, i)[j] = IF j < i THEN s[j] ELSE s[j + 1]
<1> DEFINE a == SubSeq(s, 1, i - 1)
           b == SubSeq(s, i + 1, Len(s))
<1>0. Len(s) \in Nat /\ \A j \in 1 .. Len(s) : s[j] \in S
  OBVIOUS
<1>1. /\ a \in Seq(S) /\ Len(a) = i - 1
      /\ \A j \in 1 .. i - 1 : a[j] = s[j]
  <2>1. \A j \in 1 .. i - 1 : s[j] \in S
    BY <1>0
  <2>. QED
    BY <1>0, <2>1, SubSeqProperties
<1>2. /\ b \in Seq(S) /\ Len(b) = Len(s) - i
      /\ \A j \in 1 .. Len(s) - i : b[j] = s[j + i]
  <2>1. \A j \in i + 1 .. Len(s) : s[j] \in S
    BY <1>0
  <2>. QED
    BY <1>0, <2>1, SubSeqProperties
<1> HIDE DEF a, b
<1>3. /\ a \o b \in Seq(S) /\ Len(a \o b) = Len(s) - 1
      /\ \A j \in 1 .. Len(s) - 1 :
           (a \o b)[j] = IF j < i THEN s[j] ELSE s[j + 1]
  <2>1. /\ a \o b \in Seq(S) /\ Len(a \o b) = Len(a) + Len(b)
        /\ \A j \in 1 .. Len(a) + Len(b) :
             (a \o b)[j] = IF j <= Len(a) THEN a[j] ELSE b[j - Len(a)]
    BY <1>1, <1>2, ConcatProperties
  <2>2. ASSUME NEW j \in 1 .. Len(s) - 1
        PROVE  (a \o b)[j] = IF j < i THEN s[j] ELSE s[j + 1]
    <3>1. CASE j < i
      BY <1>0, <1>1, <1>2, <2>1, <3>1
    <3>2. CASE j >= i
      <4>0. j \in 1 .. Len(a) + Len(b) /\ Len(a) = i - 1 /\ ~(j <= i - 1)
        BY <1>0, <1>1, <1>2, <3>2
      <4>1. (a \o b)[j] = b[j - (i - 1)]
        <5>1. (a \o b)[j] = IF j <= Len(a) THEN a[j] ELSE b[j - Len(a)]
          BY <2>1, <4>0
        <5>. QED
          BY <4>0, <5>1
      <4>2. j - (i - 1) \in 1 .. Len(s) - i
        BY <1>0, <3>2
      <4>. QED
        BY <1>0, <1>2, <3>2, <4>1, <4>2
    <3>3. j < i \/ j >= i
      BY <1>0
    <3>. QED
      BY <3>1, <3>2, <3>3, Zenon
  <2>. QED
    BY <1>0, <1>1, <1>2, <2>1, <2>2
<1>. QED
  BY <1>3 DEF a, b, RemoveAt

\* list_add_in_index opens one place and keeps the order of the others.
LEMMA InsertAtProperties ==
    ASSUME NEW S, NEW s \in Seq(S), NEW i \in 1 .. Len(s) + 1, NEW e \in S
    PROVE  /\ InsertAt(s, i, e) \in Seq(S)
           /\ Len(InsertAt(s, i, e)) = Len(s) + 1
           /\ \A j \in 1 .. Len(s) + 1 :
                InsertAt(s, i, e)[j] =
                  IF j < i THEN s[j] ELSE IF j = i THEN e ELSE s[j - 1]
<1> DEFINE a == SubSeq(s, 1, i - 1)
           m == a \o <<e>>
           b == SubSeq(s, i, Len(s))
<1>0. Len(s) \in Nat /\ \A j \in 1 .. Len(s) : s[j] \in S
  OBVIOUS
<1>1. /\ a \in Seq(S) /\ Len(a) = i - 1
      /\ \A j \in 1 .. i - 1 : a[j] = s[j]
  <2>1. \A j \in 1 .. i - 1 : s[j] \in S
    BY <1>0
  <2>. QED
    BY <1>0, <2>1, SubSeqProperties
<1>2. /\ b \in Seq(S) /\ Len(b) = Len(s) - i + 1
      /\ \A j \in 1 .. Len(s) - i + 1 : b[j] = s[j + i - 1]
  <2>1. \A j \in i .. Len(s) : s[j] \in S
    BY <1>0
  <2>. QED
    BY <1>0, <2>1, SubSeqProperties
<1> HIDE DEF a, b
<1>3. /\ m \in Seq(S) /\ Len(m) = i
      /\ \A j \in 1 .. i : m[j] = IF j < i THEN s[j] ELSE e
  BY <1>0, <1>1, AppendProperties, AppendIsConcat
<1> HIDE DEF m
<1>4. /\ m \o b \in Seq(S) /\ Len(m \o b) = Len(s) + 1
      /\ \A j \in 1 .. Len(s) + 1 :
           (m \o b)[j] = IF j < i THEN s[j] ELSE IF j = i THEN e ELSE s[j - 1]
  <2>1. /\ m \o b \in Seq(S) /\ Len(m \o b) = Len(m) + Len(b)
        /\ \A j \in 1 .. Len(m) + Len(b) :
             (m \o b)[j] = IF j <= Len(m) THEN m[j] ELSE b[j - Len(m)]
    BY <1>2, <1>3, ConcatProperties
  <2>2. ASSUME NEW j \in 1 .. Len(s) + 1
        PROVE  (m \o b)[j] = IF j < i THEN s[j] ELSE IF j = i THEN e ELSE s[j - 1]
    <3>1. CASE j <= i
      BY <1>0, <1>2, <1>3, <2>1, <3>1
    <3>2. CASE j > i
      <4>1. (m \o b)[j] = b[j - i]
        BY <1>0, <1>2, <1>3, <2>1, <3>2
      <4>2. j - i \in 1 .. Len(s) - i + 1
        BY <1>0, <3>2
      <4>. QED
        BY <1>0, <1>2, <3>2, <4>1, <4>2
    <3>3. j <= i \/ j > i
      BY <1>0
    <3>. QED
      BY <3>1, <3>2, <3>3, Zenon
  <2>. QED
    BY <1>0, <1>2, <1>3, <2>1, <2>2
<1>. QED
  BY <1>4 DEF a, b, m, InsertAt

-----------------------------------------------------------------------------
(* The operations of the list *)

\* replacement_remove takes exactly the key out.
LEMMA RemoveProperties ==
    ASSUME NEW K, NEW list \in Seq(Item(K)), EachKeyOnce(list), NEW key
    PROVE  /\ ReplacementRemove(list, key) \in Seq(Item(K))
           /\ KeysIn(ReplacementRemove(list, key)) = KeysIn(list) \ {key}
           /\ EachKeyOnce(ReplacementRemove(list, key))
<1>0. Len(list) \in Nat /\ DOMAIN list = 1 .. Len(list)
  OBVIOUS
<1> DEFINE P == {i \in 1 .. Len(list) : list[i].key = key}
           r == ReplacementRemove(list, key)
<1>1. CASE P = {}
  <2>1. r = list
    BY <1>1 DEF ReplacementRemove, RemoveFirstMatch
  <2>2. key \notin KeysIn(list)
    BY <1>0, <1>1 DEF KeysIn
  <2>. QED
    BY <2>1, <2>2
<1>2. CASE P # {}
  <2> DEFINE p == Min(P)
  <2>1. p \in P /\ p \in 1 .. Len(list)
    BY <1>0, <1>2, FirstPlace
  <2>2. r = RemoveAt(list, p)
    BY <1>2 DEF ReplacementRemove, RemoveFirstMatch, SelectInSeq
  <2>3. list[p].key = key
    BY <2>1
  <2> HIDE DEF p, r
  <2>4. /\ r \in Seq(Item(K)) /\ Len(r) = Len(list) - 1
        /\ \A j \in 1 .. Len(list) - 1 :
             r[j] = IF j < p THEN list[j] ELSE list[j + 1]
    BY <2>1, <2>2, RemoveAtProperties
  <2>5. DOMAIN r = 1 .. Len(list) - 1
    BY <2>4
  <2>6. KeysIn(r) \subseteq KeysIn(list) \ {key}
    <3>1. ASSUME NEW j \in DOMAIN r
          PROVE  r[j].key \in KeysIn(list) /\ r[j].key # key
      BY <1>0, <2>1, <2>3, <2>4, <2>5 DEF KeysIn, EachKeyOnce
    <3>. QED
      BY <3>1 DEF KeysIn
  <2>7. KeysIn(list) \ {key} \subseteq KeysIn(r)
    <3>1. ASSUME NEW i \in DOMAIN list, list[i].key # key
          PROVE  list[i].key \in KeysIn(r)
      <4>1. i # p
        BY <2>3, <3>1
      <4>2. CASE i < p
        <5>1. i \in DOMAIN r /\ r[i] = list[i]
          BY <1>0, <2>1, <2>4, <2>5, <4>2
        <5>. QED
          BY <5>1 DEF KeysIn
      <4>3. CASE i > p
        <5>1. i - 1 \in DOMAIN r /\ r[i - 1] = list[i]
          BY <1>0, <2>1, <2>4, <2>5, <4>3
        <5>. QED
          BY <5>1 DEF KeysIn
      <4>. QED
        BY <1>0, <2>1, <4>1, <4>2, <4>3
    <3>. QED
      BY <3>1 DEF KeysIn
  <2>8. EachKeyOnce(r)
    <3>1. ASSUME NEW i \in DOMAIN r, NEW j \in DOMAIN r, r[i].key = r[j].key, i < j
          PROVE  FALSE
      <4>1. PICK x \in {i, i + 1} : r[i] = list[x] /\ x \in DOMAIN list /\ (i < p <=> x = i)
        BY <1>0, <2>1, <2>4, <2>5
      <4>2. PICK y \in {j, j + 1} : r[j] = list[y] /\ y \in DOMAIN list /\ (j < p <=> y = j)
        BY <1>0, <2>1, <2>4, <2>5
      <4>3. x = y
        BY <3>1, <4>1, <4>2 DEF EachKeyOnce
      <4>. QED
        BY <1>0, <2>1, <2>5, <3>1, <4>1, <4>2, <4>3
    <3>. QED
      BY <1>0, <2>5, <3>1 DEF EachKeyOnce
  <2>. QED
    BY <2>4, <2>6, <2>7, <2>8 DEF r
<1>. QED
  BY <1>1, <1>2

\* Adding an item for a key that the list does not hold keeps each key once.
LEMMA InsertProperties ==
    ASSUME NEW K, NEW list \in Seq(Item(K)), EachKeyOnce(list),
           NEW item \in Item(K), item.key \notin KeysIn(list),
           NEW place \in 1 .. Len(list) + 1
    PROVE  /\ InsertAt(list, place, item) \in Seq(Item(K))
           /\ KeysIn(InsertAt(list, place, item)) = KeysIn(list) \cup {item.key}
           /\ EachKeyOnce(InsertAt(list, place, item))
<1>0. Len(list) \in Nat /\ DOMAIN list = 1 .. Len(list)
  OBVIOUS
<1> DEFINE r == InsertAt(list, place, item)
<1>1. /\ r \in Seq(Item(K)) /\ Len(r) = Len(list) + 1
      /\ \A j \in 1 .. Len(list) + 1 :
           r[j] = IF j < place THEN list[j]
                  ELSE IF j = place THEN item ELSE list[j - 1]
  <2> DEFINE I == Item(K)
  <2>1. list \in Seq(I) /\ item \in I
    OBVIOUS
  <2> HIDE DEF I
  <2>2. r \in Seq(I) /\ Len(r) = Len(list) + 1
    BY <2>1, InsertAtProperties
  <2>3. \A j \in 1 .. Len(list) + 1 :
           r[j] = IF j < place THEN list[j]
                  ELSE IF j = place THEN item ELSE list[j - 1]
    BY <2>1, InsertAtProperties
  <2>. QED
    BY <2>2, <2>3 DEF I
<1> HIDE DEF r
<1>2. DOMAIN r = 1 .. Len(list) + 1
  BY <1>0, <1>1
<1>3. \A i \in DOMAIN list : list[i].key # item.key
  BY DEF KeysIn
<1>4. KeysIn(r) \subseteq KeysIn(list) \cup {item.key}
  <2>1. ASSUME NEW j \in DOMAIN r PROVE r[j].key \in KeysIn(list) \cup {item.key}
    BY <1>0, <1>1, <1>2 DEF KeysIn
  <2>. QED
    BY <2>1 DEF KeysIn
<1>5. KeysIn(list) \cup {item.key} \subseteq KeysIn(r)
  <2>1. item.key \in KeysIn(r)
    <3>1. place \in DOMAIN r /\ r[place] = item
      BY <1>0, <1>1, <1>2
    <3>. QED
      BY <3>1 DEF KeysIn
  <2>2. ASSUME NEW i \in DOMAIN list PROVE list[i].key \in KeysIn(r)
    <3>1. CASE i < place
      <4>1. i \in DOMAIN r /\ r[i] = list[i]
        BY <1>0, <1>1, <1>2, <3>1
      <4>. QED
        BY <4>1 DEF KeysIn
    <3>2. CASE i >= place
      <4>1. i + 1 \in DOMAIN r /\ r[i + 1] = list[i]
        BY <1>0, <1>1, <1>2, <3>2
      <4>. QED
        BY <4>1 DEF KeysIn
    <3>. QED
      BY <1>0, <3>1, <3>2
  <2>. QED
    BY <2>1, <2>2 DEF KeysIn
<1>6. EachKeyOnce(r)
  <2>1. ASSUME NEW i \in DOMAIN r, NEW j \in DOMAIN r, r[i].key = r[j].key, i < j
        PROVE  FALSE
    <3>1. CASE i = place
      <4>1. r[i] = item /\ r[j] = list[j - 1] /\ j - 1 \in DOMAIN list
        BY <1>0, <1>1, <1>2, <2>1, <3>1
      <4>. QED
        BY <1>3, <2>1, <4>1
    <3>2. CASE j = place
      <4>1. r[j] = item /\ r[i] = list[i] /\ i \in DOMAIN list
        BY <1>0, <1>1, <1>2, <2>1, <3>2
      <4>. QED
        BY <1>3, <2>1, <4>1
    <3>3. CASE i # place /\ j # place
      <4>1. PICK x \in {i, i - 1} :
              r[i] = list[x] /\ x \in DOMAIN list /\ (i < place <=> x = i)
        BY <1>0, <1>1, <1>2, <3>3
      <4>2. PICK y \in {j, j - 1} :
              r[j] = list[y] /\ y \in DOMAIN list /\ (j < place <=> y = j)
        BY <1>0, <1>1, <1>2, <3>3
      <4>3. x = y
        BY <2>1, <4>1, <4>2 DEF EachKeyOnce
      <4>. QED
        BY <1>0, <1>2, <2>1, <3>3, <4>1, <4>2, <4>3
    <3>. QED
      BY <3>1, <3>2, <3>3
  <2>. QED
    BY <1>0, <1>2, <2>1 DEF EachKeyOnce
<1>. QED
  BY <1>1, <1>4, <1>5, <1>6 DEF r

LEMMA AppendIsInsertAtEnd ==
    ASSUME NEW S, NEW s \in Seq(S), NEW e \in S
    PROVE  Append(s, e) = InsertAt(s, Len(s) + 1, e)
<1>1. SubSeq(s, 1, Len(s) + 1 - 1) = s /\ SubSeq(s, Len(s) + 1, Len(s)) = << >>
  BY SubSeqFull, SubSeqEmpty
<1>2. s \o <<e>> \in Seq(S) /\ Append(s, e) = s \o <<e>>
  BY AppendProperties, AppendIsConcat
<1>. QED
  BY <1>1, <1>2, ConcatEmptySeq DEF InsertAt

LEMMA BSUPlace ==
    ASSUME NEW S, NEW list \in Seq(S), NEW size
    PROVE  IndexToInsertBSU(list, size) \in 1 .. Len(list) + 1
<1> DEFINE P == {i \in 1 .. Len(list) : size > list[i].size}
<1>0. Len(list) \in Nat
  OBVIOUS
<1>1. CASE P = {}
  BY <1>0, <1>1 DEF IndexToInsertBSU, SelectInSeq
<1>2. CASE P # {}
  <2>1. Min(P) \in 1 .. Len(list)
    BY <1>0, <1>2, FirstPlace
  <2>2. SelectInSeq(list, LAMBDA item : size > item.size) = Min(P)
    BY <1>2 DEF SelectInSeq
  <2>. QED
    BY <1>0, <2>1, <2>2 DEF IndexToInsertBSU
<1>. QED
  BY <1>1, <1>2

\* replacement_add, under every algorithm, leaves the list with the key added,
\* once, and the other keys as they were.
THEOREM AddProperties ==
    ASSUME NEW K, NEW list \in Seq(Item(K)), EachKeyOnce(list),
           NEW key \in K, NEW size \in Nat \ {0}
    PROVE  /\ ReplacementAdd(list, key, size) \in Seq(Item(K))
           /\ KeysIn(ReplacementAdd(list, key, size)) = KeysIn(list) \cup {key}
           /\ EachKeyOnce(ReplacementAdd(list, key, size))
<1> DEFINE item == [key |-> key, size |-> size]
           without == ReplacementRemove(list, key)
           r == ReplacementAdd(list, key, size)
<1>0. item \in Item(K) /\ item.key = key
  BY DEF Item
<1>1. /\ without \in Seq(Item(K)) /\ EachKeyOnce(without)
      /\ KeysIn(without) = KeysIn(list) \ {key}
  BY RemoveProperties
<1>2. Len(list) + 1 \in 1 .. Len(list) + 1 /\ Len(without) + 1 \in 1 .. Len(without) + 1
  BY <1>1
<1> HIDE DEF item, without
<1>3. CASE Algorithm = "CIRCULAR" /\ ReplacementContains(list, key)
  <2>1. r = list
    BY <1>3 DEF ReplacementAdd
  <2>2. key \in KeysIn(list)
    BY <1>3 DEF ReplacementContains, KeysIn
  <2>. QED
    BY <2>1, <2>2
<1>4. CASE Algorithm = "CIRCULAR" /\ ~ReplacementContains(list, key)
  <2>1. r = InsertAt(list, Len(list) + 1, item)
    BY <1>0, <1>4, AppendIsInsertAtEnd DEF ReplacementAdd, item
  <2>2. key \notin KeysIn(list)
    BY <1>4 DEF ReplacementContains, KeysIn
  <2>. QED
    BY <1>0, <1>2, <2>1, <2>2, InsertProperties
<1>5. CASE Algorithm = "LRU"
  <2>1. r = InsertAt(without, Len(without) + 1, item)
    BY <1>0, <1>1, <1>5, AppendIsInsertAtEnd DEF ReplacementAdd, item, without
  <2>. QED
    BY <1>0, <1>1, <1>2, <2>1, InsertProperties
<1>6. CASE Algorithm = "BSU"
  <2>1. r = InsertAt(without, IndexToInsertBSU(without, size), item)
    BY <1>6 DEF ReplacementAdd, item, without
  <2>. QED
    BY <1>0, <1>1, <2>1, BSUPlace, InsertProperties
<1>. QED
  BY <1>3, <1>4, <1>5, <1>6, AlgorithmAssumption DEF Algorithms

-----------------------------------------------------------------------------
(* The storage: the inductive invariant *)

\* A SET in progress has its arguments.
RequestPending == pc = "put" => request \in Request

\* Layout alone is not inductive: which entries a SET frees follows from the
\* length of the old value, the victim from the list, and the move's from the
\* types; WholeValues needs Layout, that nobody else writes a key's entries.
IInv == TypeOK /\ RequestPending /\ Layout /\ ReplacementMatchesEntries /\ WholeValues

\* The buffer d has the whole of v where the entry e says ...
Holds(e, d, v) ==
    /\ Length[v] = e.length
    /\ \A i \in Span(e.index, EntriesCount(e.length)) : d[i] = <<v, i - e.index>>

\* ... and a step leaves the keys ks the values they have.
KeepsValues(ks) ==
    \A k \in ks, v \in Values : Holds(entries[k], data, v) => Holds(entries'[k], data', v)

LEMMA StayWhole ==
    ASSUME WholeValues, NEW ks \in SUBSET Present, KeepsValues(ks),
           \A k \in Present' \ ks : \E v \in Values : Holds(entries'[k], data', v)
    PROVE  WholeValues'
<1>1. \A k \in ks : \E v \in Values : Holds(entries[k], data, v)
  BY DEF WholeValues, Holds, Block
<1>2. \A k \in Present' : \E v \in Values : Holds(entries'[k], data', v)
  BY <1>1 DEF KeepsValues
<1>. QED
  BY <1>2 DEF WholeValues, Holds, Block

-----------------------------------------------------------------------------
(* Entries and blocks *)

\* A value of at least one character takes at least one entry.
LEMMA EntriesCountType ==
    ASSUME NEW length \in Nat \ {0}
    PROVE  EntriesCount(length) \in Nat \ {0}
BY EntrySizeAssumption DEF EntriesCount

\* The atomic values, those the algorithms may evict, are those of one entry.
LEMMA AtomicTakesOne ==
    ASSUME NEW length \in Nat \ {0}
    PROVE  IsAtomic(length) <=> EntriesCount(length) = 1
BY EntrySizeAssumption DEF EntriesCount, IsAtomic

LEMMA ValueCountType ==
    ASSUME NEW v \in Values
    PROVE  Length[v] \in Nat \ {0} /\ ValueEntriesCount(v) \in Nat \ {0}
BY EntriesCountType, LengthAssumption DEF ValueEntriesCount

\* What the invariant says of the entry of a key that is present.
LEMMA BlockProperties ==
    ASSUME TypeOK, BitmapMatchesEntries, NEW k \in Present
    PROVE  /\ k \in Keys /\ entries[k] \in Entry
           /\ entries[k].index \in Nat /\ entries[k].length \in Nat \ {0}
           /\ EntriesCount(entries[k].length) \in Nat \ {0}
           /\ entries[k].index + EntriesCount(entries[k].length) <= MaxEntries
           /\ Block(k) \subseteq Indexes
           /\ entries[k].index \in Block(k)
<1>1. k \in Keys /\ entries[k] \in Entry
  BY DEF Present, HasKey, TypeOK
<1>2. entries[k].index \in Indexes /\ entries[k].length \in Nat \ {0}
  BY <1>1, LengthAssumption DEF Entry
<1>3. EntriesCount(entries[k].length) \in Nat \ {0}
  BY <1>2, EntriesCountType
<1>4. Block(k) \subseteq Indexes
  BY DEF BitmapMatchesEntries, TypeOK
<1>5. entries[k].index \in Nat
  BY <1>2, MaxEntriesAssumption DEF Indexes
<1>6. /\ entries[k].index \in Block(k)
      /\ entries[k].index + EntriesCount(entries[k].length) - 1 \in Block(k)
  BY <1>3, <1>5 DEF Block, Span
<1>7. entries[k].index + EntriesCount(entries[k].length) - 1 \in Indexes
  BY <1>4, <1>6
<1>8. entries[k].index + EntriesCount(entries[k].length) <= MaxEntries
  BY <1>3, <1>5, <1>7, MaxEntriesAssumption DEF Indexes
<1>. QED
  BY <1>1, <1>2, <1>3, <1>4, <1>5, <1>6, <1>8

\* Writing a value's pieces keeps the buffer a buffer.
LEMMA CopyValueProperties ==
    ASSUME TypeOK, NEW v \in Values, NEW index \in Nat,
           index + ValueEntriesCount(v) <= MaxEntries
    PROVE  /\ CopyValue(v, index) \in [Indexes -> Pieces \cup {Blank}]
           /\ \A i \in Span(index, ValueEntriesCount(v)) :
                CopyValue(v, index)[i] = <<v, i - index>>
           /\ \A i \in Indexes \ Span(index, ValueEntriesCount(v)) :
                CopyValue(v, index)[i] = data[i]
<1> DEFINE n == ValueEntriesCount(v)
<1>1. n \in Nat \ {0}
  BY ValueCountType
<1>2. Span(index, n) \subseteq Indexes
  BY <1>1, MaxEntriesAssumption DEF Span, Indexes
<1>3. \A i \in Span(index, n) : <<v, i - index>> \in Pieces
  <2>1. \A i \in Span(index, n) : i - index \in Indexes
    BY <1>1, MaxEntriesAssumption DEF Span, Indexes
  <2>. QED
    BY <2>1 DEF Pieces
<1>. QED
  BY <1>2, <1>3 DEF CopyValue, TypeOK

-----------------------------------------------------------------------------
(* Steps that leave the dictionary, the bitmap and the buffer alone *)

\* Put, the refusals of a SET and the end of a compaction.
LEMMA SameStoreKeeps ==
    ASSUME IInv, TypeOK', RequestPending',
           UNCHANGED <<entries, taken, data, replacement>>,
           pc' # "compact" \/ UNCHANGED start_index
    PROVE  BlocksDisjoint' /\ BitmapMatchesEntries' /\ ReplacementMatchesEntries' /\ WholeValues'
<1>1. Present' = Present /\ \A k : Block(k)' = Block(k)
  BY DEF Present, HasKey, Block
<1>2. BlocksDisjoint' /\ BitmapMatchesEntries'
  BY <1>1 DEF IInv, Layout, BlocksDisjoint, BitmapMatchesEntries
<1>3. ReplacementMatchesEntries'
  BY <1>1 DEF IInv, ReplacementMatchesEntries
<1>4. WholeValues'
  BY <1>1 DEF IInv, WholeValues
<1>. QED
  BY <1>2, <1>3, <1>4

LEMMA PutKeeps ==
    ASSUME IInv, NEW k \in Keys, NEW v \in Values, Put(k, v)
    PROVE  IInv'
<1>1. TypeOK' /\ RequestPending'
  BY DEF IInv, TypeOK, RequestPending, Put, Request
<1>2. CompactedPrefix'
  BY DEF Put, CompactedPrefix
<1>. QED
  BY <1>1, <1>2, SameStoreKeeps DEF IInv, Layout, Put

LEMMA AnswerKeeps ==
    ASSUME IInv, NEW r \in {"error", "compact"}, Answer(r),
           UNCHANGED <<entries, taken, data, replacement>>
    PROVE  IInv'
<1>1. TypeOK' /\ RequestPending'
  BY DEF IInv, TypeOK, RequestPending, Answer
<1>2. CompactedPrefix'
  BY DEF Answer, CompactedPrefix
<1>. QED
  BY <1>1, <1>2, SameStoreKeeps DEF IInv, Layout, Answer

LEMMA StartCompactionKeeps ==
    ASSUME IInv, StartCompaction
    PROVE  IInv'
<1>1. TypeOK' /\ RequestPending'
  BY MaxEntriesAssumption DEF IInv, TypeOK, RequestPending, StartCompaction
<1>2. \A k \in Present : entries[k].index >= 0
  BY BlockProperties DEF IInv, Layout
<1>3. Present' = Present /\ \A k : Block(k)' = Block(k)
  BY DEF Present, HasKey, Block, StartCompaction
<1>4. CompactedPrefix'
  <2>1. 0 .. start_index' - 1 = {}
    BY DEF StartCompaction
  <2>2. \A k \in Present : ~(entries[k].index < 0)
    BY <1>2, BlockProperties DEF IInv, Layout
  <2>. QED
    BY <1>3, <2>1, <2>2 DEF CompactedPrefix, StartCompaction
<1>5. BlocksDisjoint' /\ BitmapMatchesEntries'
  BY <1>3 DEF IInv, Layout, BlocksDisjoint, BitmapMatchesEntries, StartCompaction
<1>6. ReplacementMatchesEntries' /\ WholeValues'
  BY <1>3 DEF IInv, ReplacementMatchesEntries, WholeValues, StartCompaction
<1>. QED
  BY <1>1, <1>4, <1>5, <1>6 DEF IInv, Layout

LEMMA CompactEndsKeeps ==
    ASSUME IInv, CompactEnds
    PROVE  IInv'
<1>1. TypeOK' /\ RequestPending'
  BY MaxEntriesAssumption DEF IInv, TypeOK, RequestPending, CompactEnds
<1>2. CompactedPrefix'
  BY DEF CompactEnds, CompactedPrefix
<1>. QED
  BY <1>1, <1>2, SameStoreKeeps DEF IInv, Layout, CompactEnds

-----------------------------------------------------------------------------
(* The victims' list *)

\* What adding k to the victims' list does, for the length its entry gets.
LEMMA AddToReplacementProperties ==
    ASSUME TypeOK, EachKeyOnce(replacement),
           NEW k \in Keys, NEW length \in Nat \ {0}
    PROVE  LET list == AddToReplacement(replacement, k, length)
           IN  /\ list \in Seq(Item(Keys))
               /\ EachKeyOnce(list)
               /\ KeysIn(list) = IF IsAtomic(length) THEN KeysIn(replacement) \cup {k}
                                 ELSE KeysIn(replacement)
<1>1. replacement \in Seq(Item(Keys))
  BY DEF TypeOK, Item
<1>2. LET list == ReplacementAdd(replacement, k, length)
      IN  /\ list \in Seq(Item(Keys))
          /\ EachKeyOnce(list)
          /\ KeysIn(list) = KeysIn(replacement) \cup {k}
  BY <1>1, AddProperties
<1>3. CASE IsAtomic(length)
  BY <1>2, <1>3 DEF AddToReplacement
<1>4. CASE ~IsAtomic(length)
  BY <1>1, <1>4 DEF AddToReplacement
<1>. QED
  BY <1>3, <1>4

LEMMA StoreKeeps ==
    ASSUME IInv, NEW k \in Keys, Store(k)
    PROVE  IInv'
<1>1. CASE ~HasKey(k)
  <2>1. TypeOK' /\ RequestPending'
    BY <1>1 DEF IInv, TypeOK, RequestPending, Store
  <2>2. CompactedPrefix'
    BY DEF Store, CompactedPrefix
  <2>. QED
    BY <1>1, <2>1, <2>2, SameStoreKeeps DEF IInv, Layout, Store
<1>2. CASE HasKey(k)
  <2>1. k \in Present /\ entries[k].length \in Nat \ {0}
    BY <1>2, BlockProperties DEF IInv, Layout, Present
  <2>2. replacement' = AddToReplacement(replacement, k, entries[k].length)
    BY <1>2 DEF Store
  <2>3. /\ replacement' \in Seq(Item(Keys)) /\ EachKeyOnce(replacement')
        /\ KeysIn(replacement') =
             IF IsAtomic(entries[k].length) THEN KeysIn(replacement) \cup {k}
             ELSE KeysIn(replacement)
    BY <2>1, <2>2, AddToReplacementProperties DEF IInv, ReplacementMatchesEntries
  <2>4. Present' = Present /\ \A j : Block(j)' = Block(j)
    BY DEF Present, HasKey, Block, Store
  <2>5. TypeOK' /\ RequestPending'
    BY <1>2, <2>3 DEF IInv, TypeOK, RequestPending, Store, Item
  <2>6. Layout' /\ WholeValues'
    BY <2>4 DEF IInv, Layout, BlocksDisjoint, BitmapMatchesEntries, CompactedPrefix,
                WholeValues, Store
  <2>7. ReplacementMatchesEntries'
    <3>1. KeysIn(replacement') = KeysIn(replacement)
      BY <2>1, <2>3 DEF IInv, ReplacementMatchesEntries
    <3>. QED
      BY <2>3, <2>4, <3>1 DEF IInv, ReplacementMatchesEntries, Store
  <2>. QED
    BY <2>5, <2>6, <2>7 DEF IInv
<1>. QED
  BY <1>1, <1>2

-----------------------------------------------------------------------------
(* A SET of a key that exists *)

LEMMA UpdateKeeps ==
    ASSUME IInv, Update
    PROVE  /\ IInv' /\ Present' = Present /\ KeepsValues(Present \ {request.key})
           /\ Holds(entries'[request.key], data', request.value)
<1>0. PICK key \in Keys, v \in Values : request.key = key /\ request.value = v
  BY DEF IInv, RequestPending, Request, Update
<1> DEFINE index == entries[key].index
           n     == ValueEntriesCount(v)
           old   == EntriesCount(entries[key].length)
<1>1. key \in Keys /\ v \in Values /\ HasKey(key) /\ key \in Present
  BY <1>0 DEF Update, Present
<1>2. Length[v] \in Nat \ {0} /\ n \in Nat \ {0} /\ n = EntriesCount(Length[v])
  BY <1>1, ValueCountType DEF ValueEntriesCount
<1>3. n <= old
  BY <1>0 DEF Update, EntriesNeeded
<1>4. /\ index \in Nat /\ old \in Nat \ {0} /\ index + old <= MaxEntries
      /\ entries[key].length \in Nat \ {0} /\ entries[key] \in Entry
      /\ Block(key) = index .. index + old - 1 /\ Block(key) \subseteq Indexes
  BY <1>1, BlockProperties DEF IInv, Layout, Block, Span
<1>5. /\ entries' = [entries EXCEPT ![key].length = Length[v]]
      /\ taken' = taken \ (index + n .. index + old - 1)
      /\ data' = CopyValue(v, index)
      /\ replacement' = AddToReplacement(replacement, key, Length[v])
      /\ pc' = "idle" /\ request' = NoRequest /\ UNCHANGED start_index /\ result' = "ok"
  <2>1. index + n + (old - n) - 1 = index + old - 1
    BY <1>2, <1>4
  <2>. QED
    BY <1>0, <2>1 DEF Update, Answer, EntriesNeeded, FreeSpace, Span
<1>6. /\ data' \in [Indexes -> Pieces \cup {Blank}]
      /\ \A i \in index .. index + n - 1 : data'[i] = <<v, i - index>>
      /\ \A i \in Indexes \ (index .. index + n - 1) : data'[i] = data[i]
  <2>1. index + ValueEntriesCount(v) <= MaxEntries
    BY <1>2, <1>3, <1>4, MaxEntriesAssumption
  <2>. QED
    BY <1>1, <1>4, <1>5, <2>1, CopyValueProperties DEF IInv, Span
<1>7. /\ replacement' \in Seq(Item(Keys)) /\ EachKeyOnce(replacement')
      /\ KeysIn(replacement') = IF IsAtomic(Length[v]) THEN KeysIn(replacement) \cup {key}
                                ELSE KeysIn(replacement)
  BY <1>1, <1>2, <1>5, AddToReplacementProperties DEF IInv, ReplacementMatchesEntries
<1>8. /\ entries' \in [Keys -> Entry \cup {NoEntry}]
      /\ entries'[key] = [index |-> index, length |-> Length[v]]
      /\ entries'[key] \in Entry
      /\ \A k \in Keys \ {key} : entries'[k] = entries[k]
  BY <1>1, <1>4, <1>5 DEF IInv, TypeOK, Entry
<1>9. Present' = Present
  BY <1>1, <1>8, NullAssumption DEF Present, HasKey
<1> HIDE DEF index, n, old
<1>10. TypeOK' /\ RequestPending'
  BY <1>5, <1>6, <1>7, <1>8 DEF IInv, TypeOK, RequestPending, Item
<1>11. /\ Block(key)' = index .. index + n - 1
       /\ \A k \in Present \ {key} : Block(k)' = Block(k)
  <2>1. entries'[key].index = index /\ EntriesCount(entries'[key].length) = n
    BY <1>2, <1>8
  <2>. QED
    BY <1>8, <2>1 DEF Block, Span, Present
<1>12. Block(key)' \subseteq Block(key)
  BY <1>2, <1>3, <1>4, <1>11
<1>13. \A k \in Present \ {key} : Block(k) \cap Block(key) = {}
  BY <1>1 DEF IInv, Layout, BlocksDisjoint
<1>14. BlocksDisjoint'
  <2>1. ASSUME NEW k1 \in Present, NEW k2 \in Present, k1 # k2
        PROVE  Block(k1)' \cap Block(k2)' = {}
    <3>1. Block(k1)' \subseteq Block(k1) /\ Block(k2)' \subseteq Block(k2)
      BY <1>11, <1>12
    <3>2. Block(k1) \cap Block(k2) = {}
      BY <2>1 DEF IInv, Layout, BlocksDisjoint
    <3>. QED
      BY <3>1, <3>2
  <2>. QED
    BY <1>9, <2>1 DEF BlocksDisjoint
<1>15. BitmapMatchesEntries'
  <2>1. Block(key) \ (index + n .. index + old - 1) = Block(key)'
    BY <1>2, <1>3, <1>4, <1>11
  <2>2. \A k \in Present \ {key} : Block(k) \ (index + n .. index + old - 1) = Block(k)
    BY <1>2, <1>4, <1>13
  <2>3. taken = UNION {Block(k) : k \in Present}
    BY DEF IInv, Layout, BitmapMatchesEntries
  <2>4. \A x : x \in taken' <=> \E k \in Present : x \in Block(k)'
    <3>1. ASSUME NEW x PROVE x \in taken' <=> \E k \in Present : x \in Block(k)'
      <4>1. x \in taken' <=> \E k \in Present : x \in Block(k) \ (index + n .. index + old - 1)
        BY <1>5, <2>3
      <4>2. \A k \in Present : Block(k) \ (index + n .. index + old - 1) = Block(k)'
        BY <1>11, <2>1, <2>2
      <4>. QED
        BY <4>1, <4>2
    <3>. QED
      BY <3>1
  <2>. QED
    BY <1>9, <2>4 DEF BitmapMatchesEntries
<1>16. CompactedPrefix'
  BY <1>5 DEF CompactedPrefix
<1>17. ReplacementMatchesEntries'
  <2>1. {k \in Present : IsAtomic(entries[k].length)} = KeysIn(replacement)
    BY DEF IInv, ReplacementMatchesEntries
  <2>2. IsAtomic(Length[v]) <=> n = 1
    BY <1>2, AtomicTakesOne
  <2>3. IsAtomic(entries[key].length) <=> old = 1
    BY <1>4, AtomicTakesOne DEF old
  <2>4. IsAtomic(entries[key].length) => IsAtomic(Length[v])
    BY <1>2, <1>3, <1>4, <2>2, <2>3
  <2>5. entries'[key].length = Length[v]
    BY <1>8
  <2>6. {k \in Present : IsAtomic(entries'[k].length)} =
          IF IsAtomic(Length[v]) THEN KeysIn(replacement) \cup {key} ELSE KeysIn(replacement)
    BY <1>1, <1>8, <2>1, <2>4, <2>5 DEF Present
  <2>. QED
    BY <1>7, <1>9, <2>6 DEF ReplacementMatchesEntries
<1>18. KeepsValues(Present \ {key})
  <2> SUFFICES ASSUME NEW k \in Present \ {key}, NEW w \in Values, Holds(entries[k], data, w)
               PROVE  Holds(entries'[k], data', w)
    BY DEF KeepsValues
  <2>1. \A i \in Block(k) : data'[i] = data[i]
    BY <1>6, <1>11, <1>12, <1>13, BlockProperties DEF IInv, Layout
  <2>. QED
    BY <1>8, <2>1 DEF Holds, Block, Present
<1>19. Holds(entries'[key], data', v)
  <2>1. entries'[key].length = Length[v] /\ entries'[key].index = index
    BY <1>8
  <2>2. Span(entries'[key].index, EntriesCount(entries'[key].length)) = index .. index + n - 1
    BY <1>11 DEF Block
  <2>. QED
    BY <1>6, <2>1, <2>2 DEF Holds
<1>20. WholeValues'
  BY <1>1, <1>9, <1>18, <1>19, StayWhole DEF IInv
<1>21. IInv'
  BY <1>10, <1>14, <1>15, <1>16, <1>17, <1>20 DEF IInv, Layout
<1>. QED
  BY <1>0, <1>9, <1>18, <1>19, <1>21

-----------------------------------------------------------------------------
(* A SET of a new key *)

LEMMA PutEvictsKeeps ==
    ASSUME IInv, PutEvicts
    PROVE  IInv'
<1>0. PICK victim \in Present :
        /\ taken' = taken \ Block(victim)
        /\ entries' = [entries EXCEPT ![victim] = NoEntry]
        /\ replacement' = ReplacementRemove(replacement, victim)
  <2>1. replacement \in Seq(Item(Keys)) /\ replacement # << >>
    BY DEF IInv, TypeOK, Item, PutEvicts, ReplacementIsEmpty
  <2>2. 1 \in DOMAIN replacement /\ ReplacementTake(replacement) = replacement[1].key
    BY <2>1 DEF ReplacementTake
  <2>3. ReplacementTake(replacement) \in KeysIn(replacement)
    BY <2>2 DEF KeysIn
  <2>4. ReplacementTake(replacement) \in Present
    BY <2>3 DEF IInv, ReplacementMatchesEntries
  <2>. QED
    BY <2>4 DEF PutEvicts, FreeSpace, Block
<1>1. pc' = pc /\ UNCHANGED <<data, pc, request, start_index, result>> /\ pc = "put"
  BY DEF PutEvicts
<1>2. /\ replacement' \in Seq(Item(Keys)) /\ EachKeyOnce(replacement')
      /\ KeysIn(replacement') = KeysIn(replacement) \ {victim}
  <2>1. replacement \in Seq(Item(Keys)) /\ EachKeyOnce(replacement)
    BY DEF IInv, TypeOK, Item, ReplacementMatchesEntries
  <2>. QED
    BY <1>0, <2>1, RemoveProperties
<1>3. /\ entries' \in [Keys -> Entry \cup {NoEntry}]
      /\ \A k \in Keys \ {victim} : entries'[k] = entries[k]
      /\ entries'[victim] = NoEntry
  BY <1>0 DEF IInv, TypeOK, Present
<1>4. Present' = Present \ {victim}
  BY <1>3 DEF Present, HasKey
<1>5. \A k \in Present \ {victim} : Block(k)' = Block(k)
  BY <1>3 DEF Block, Present
<1>6. TypeOK' /\ RequestPending'
  BY <1>0, <1>1, <1>2, <1>3 DEF IInv, TypeOK, RequestPending, Item
<1>7. BlocksDisjoint'
  BY <1>4, <1>5 DEF IInv, Layout, BlocksDisjoint
<1>8. BitmapMatchesEntries'
  <2>1. \A k \in Present \ {victim} : Block(k) \cap Block(victim) = {}
    BY DEF IInv, Layout, BlocksDisjoint
  <2>2. taken = UNION {Block(k) : k \in Present}
    BY DEF IInv, Layout, BitmapMatchesEntries
  <2>3. ASSUME NEW x PROVE x \in taken' <=> \E k \in Present \ {victim} : x \in Block(k)
    BY <1>0, <2>1, <2>2
  <2>4. \A x : x \in taken' <=> \E k \in Present \ {victim} : x \in Block(k)'
    BY <1>5, <2>3
  <2>. QED
    BY <1>4, <2>4 DEF BitmapMatchesEntries
<1>9. CompactedPrefix'
  BY <1>1 DEF CompactedPrefix
<1>10. ReplacementMatchesEntries'
  <2>1. KeysIn(replacement) = {k \in Present : IsAtomic(entries[k].length)}
    BY DEF IInv, ReplacementMatchesEntries
  <2>2. KeysIn(replacement') = {k \in Present \ {victim} : IsAtomic(entries'[k].length)}
    BY <1>2, <1>3, <2>1 DEF Present
  <2>. QED
    BY <1>2, <1>4, <2>2 DEF ReplacementMatchesEntries
<1>11. WholeValues'
  <2>1. \A k \in Present \ {victim} : entries'[k] = entries[k]
    BY <1>3 DEF Present
  <2>. QED
    BY <1>1, <1>4, <1>5, <2>1 DEF IInv, WholeValues
<1>. QED
  BY <1>6, <1>7, <1>8, <1>9, <1>10, <1>11 DEF IInv, Layout

LEMMA PlaceKeeps ==
    ASSUME IInv, pc = "put", ~HasKey(request.key), NEW index \in Indexes,
           FindsFreeContinuousIndex(taken, EntriesNeeded, index), Place(index)
    PROVE  /\ IInv' /\ Present' = Present \cup {request.key} /\ KeepsValues(Present)
           /\ Holds(entries'[request.key], data', request.value)
<1>0. PICK key \in Keys, v \in Values : request.key = key /\ request.value = v
  BY DEF IInv, RequestPending, Request
<1> DEFINE n == ValueEntriesCount(v)
<1>1. /\ Length[v] \in Nat \ {0} /\ n \in Nat \ {0} /\ n = EntriesCount(Length[v])
      /\ index \in Nat
  BY ValueCountType, MaxEntriesAssumption DEF ValueEntriesCount, Indexes
<1>2. key \notin Present /\ entries[key] = NoEntry
  BY <1>0 DEF HasKey, Present
<1>3. index + n <= MaxEntries /\ (index .. index + n - 1) \cap taken = {}
  BY <1>0, <1>1, MaxEntriesAssumption
     DEF FindsFreeContinuousIndex, IsContinuous, Span, EntriesNeeded
<1>4. /\ taken' = taken \cup (index .. index + n - 1)
      /\ data' = CopyValue(v, index)
      /\ entries' = [entries EXCEPT ![key] = [index |-> index, length |-> Length[v]]]
      /\ replacement' = AddToReplacement(replacement, key, Length[v])
      /\ pc' = "idle" /\ request' = NoRequest /\ UNCHANGED start_index /\ result' = "ok"
  BY <1>0 DEF Place, Answer, EntriesNeeded, TakeSpace, Span
<1>5. /\ data' \in [Indexes -> Pieces \cup {Blank}]
      /\ \A i \in index .. index + n - 1 : data'[i] = <<v, i - index>>
      /\ \A i \in Indexes \ (index .. index + n - 1) : data'[i] = data[i]
  BY <1>1, <1>3, <1>4, CopyValueProperties DEF IInv, Span
<1>6. /\ replacement' \in Seq(Item(Keys)) /\ EachKeyOnce(replacement')
      /\ KeysIn(replacement') = IF IsAtomic(Length[v]) THEN KeysIn(replacement) \cup {key}
                                ELSE KeysIn(replacement)
  BY <1>1, <1>4, AddToReplacementProperties DEF IInv, ReplacementMatchesEntries
<1>7. /\ entries' \in [Keys -> Entry \cup {NoEntry}]
      /\ entries'[key] = [index |-> index, length |-> Length[v]]
      /\ entries'[key] \in Entry
      /\ \A k \in Keys \ {key} : entries'[k] = entries[k]
  BY <1>4 DEF IInv, TypeOK, Entry
<1>8. Present' = Present \cup {key}
  BY <1>7, NullAssumption DEF Present, HasKey
<1> HIDE DEF n
<1>9. taken' \subseteq Indexes
  <2>1. index .. index + n - 1 \subseteq Indexes
    BY <1>1, <1>3, MaxEntriesAssumption DEF Indexes
  <2>. QED
    BY <1>4, <2>1 DEF IInv, TypeOK
<1>10. TypeOK' /\ RequestPending'
  BY <1>4, <1>5, <1>6, <1>7, <1>9 DEF IInv, TypeOK, RequestPending, Item
<1>11. /\ Block(key)' = index .. index + n - 1
       /\ \A k \in Present : Block(k)' = Block(k)
  <2>1. entries'[key].index = index /\ EntriesCount(entries'[key].length) = n
    BY <1>1, <1>7
  <2>. QED
    BY <1>2, <1>7, <2>1 DEF Block, Span, Present
<1>12. taken = UNION {Block(k) : k \in Present}
  BY DEF IInv, Layout, BitmapMatchesEntries
<1>13. \A k \in Present : Block(k) \cap Block(key)' = {}
  BY <1>3, <1>11, <1>12
<1>14. BlocksDisjoint'
  <2>1. ASSUME NEW k1 \in Present, NEW k2 \in Present, k1 # k2
        PROVE  Block(k1)' \cap Block(k2)' = {}
    BY <1>11, <2>1 DEF IInv, Layout, BlocksDisjoint
  <2>2. \A k \in Present : Block(k)' \cap Block(key)' = {}
    BY <1>11, <1>13
  <2>. QED
    BY <1>8, <2>1, <2>2 DEF BlocksDisjoint
<1>15. BitmapMatchesEntries'
  <2>1. \A x : x \in taken' <=> \E k \in Present \cup {key} : x \in Block(k)'
    BY <1>4, <1>11, <1>12
  <2>. QED
    BY <1>8, <2>1 DEF BitmapMatchesEntries
<1>16. CompactedPrefix'
  BY <1>4 DEF CompactedPrefix
<1>17. ReplacementMatchesEntries'
  <2>1. KeysIn(replacement) = {k \in Present : IsAtomic(entries[k].length)}
    BY DEF IInv, ReplacementMatchesEntries
  <2>2. entries'[key].length = Length[v]
    BY <1>7
  <2>3. {k \in Present \cup {key} : IsAtomic(entries'[k].length)} =
          IF IsAtomic(Length[v]) THEN KeysIn(replacement) \cup {key} ELSE KeysIn(replacement)
    BY <1>2, <1>7, <2>1, <2>2 DEF Present
  <2>. QED
    BY <1>6, <1>8, <2>3 DEF ReplacementMatchesEntries
<1>18. KeepsValues(Present)
  <2> SUFFICES ASSUME NEW k \in Present, NEW w \in Values, Holds(entries[k], data, w)
               PROVE  Holds(entries'[k], data', w)
    BY DEF KeepsValues
  <2>1. \A i \in Block(k) : data'[i] = data[i]
    BY <1>5, <1>11, <1>13, BlockProperties DEF IInv, Layout
  <2>2. entries'[k] = entries[k]
    BY <1>2, <1>7 DEF Present
  <2>. QED
    BY <2>1, <2>2 DEF Holds, Block
<1>19. Holds(entries'[key], data', v)
  <2>1. entries'[key].length = Length[v] /\ entries'[key].index = index
    BY <1>7
  <2>2. Span(entries'[key].index, EntriesCount(entries'[key].length)) = index .. index + n - 1
    BY <1>11 DEF Block
  <2>. QED
    BY <1>5, <2>1, <2>2 DEF Holds
<1>20. WholeValues'
  BY <1>8, <1>18, <1>19, StayWhole DEF IInv
<1>21. IInv'
  BY <1>10, <1>14, <1>15, <1>16, <1>17, <1>20 DEF IInv, Layout
<1>. QED
  BY <1>0, <1>8, <1>18, <1>19, <1>21

LEMMA PutPlacesKeeps ==
    ASSUME IInv, PutPlaces
    PROVE  IInv'
<1>1. CASE HasFreeContinuousSpace(taken, EntriesNeeded)
  BY <1>1, PlaceKeeps DEF PutPlaces
<1>2. CASE ~HasFreeContinuousSpace(taken, EntriesNeeded)
  BY <1>2, AnswerKeeps DEF PutPlaces
<1>. QED
  BY <1>1, <1>2

-----------------------------------------------------------------------------
(* A turn of the compaction *)

\* Where the other keys are when k is the first one at or after start_index:
\* wholly before start_index, or after the end of k.
LEMMA OthersOutOfTheWay ==
    ASSUME IInv, pc = "compact", NEW k \in Keys, FindsFirstEntry(k),
           NEW other \in Present \ {k}
    PROVE  \/ entries[other].index < start_index /\ \A i \in Block(other) : i < start_index
           \/ /\ entries[other].index >= start_index
              /\ \A i \in Block(other) :
                   i >= entries[k].index + EntriesCount(entries[k].length)
<1>1. k \in Present /\ entries[k].index >= start_index /\ start_index \in Nat
  BY MaxEntriesAssumption DEF FindsFirstEntry, Present, IInv, TypeOK
<1>2. /\ entries[k].index \in Nat /\ EntriesCount(entries[k].length) \in Nat \ {0}
      /\ entries[other].index \in Nat /\ EntriesCount(entries[other].length) \in Nat \ {0}
      /\ entries[other].index \in Block(other)
  BY <1>1, BlockProperties DEF IInv, Layout
<1>3. CASE entries[other].index < start_index
  BY <1>3 DEF IInv, Layout, CompactedPrefix
<1>4. CASE entries[other].index >= start_index
  <2>1. entries[k].index <= entries[other].index
    BY <1>4 DEF FindsFirstEntry
  <2>2. entries[other].index \notin Block(k)
    BY <1>1, <1>2 DEF IInv, Layout, BlocksDisjoint
  <2>3. entries[other].index >= entries[k].index + EntriesCount(entries[k].length)
    BY <1>2, <2>1, <2>2 DEF Block, Span
  <2>. QED
    BY <1>2, <1>4, <2>3 DEF Block, Span
<1>. QED
  BY <1>1, <1>2, <1>3, <1>4

LEMMA CompactMovesKeeps ==
    ASSUME IInv, CompactMoves
    PROVE  IInv' /\ Present' = Present /\ KeepsValues(Present)
<1>0. PICK k \in Keys :
        /\ FindsFirstEntry(k)
        /\ taken' = MoveSpace(entries[k].index, start_index, EntriesCount(entries[k].length))
        /\ data' = MoveData(entries[k].index, start_index, EntriesCount(entries[k].length))
        /\ entries' = [entries EXCEPT ![k].index = start_index]
        /\ start_index' = NextStartIndex(k)
  BY DEF CompactMoves
<1> DEFINE source == entries[k].index
           n == EntriesCount(entries[k].length)
           start == start_index
<1>1. /\ pc = "compact" /\ pc' = "compact"
      /\ UNCHANGED <<replacement, pc, request, result>>
  BY DEF CompactMoves
<1>2. k \in Present /\ start \in Nat /\ source >= start
  BY <1>0, MaxEntriesAssumption DEF FindsFirstEntry, Present, IInv, TypeOK
<1>3. /\ source \in Nat /\ n \in Nat \ {0} /\ source + n <= MaxEntries
      /\ entries[k] \in Entry /\ Block(k) = source .. source + n - 1
      /\ Block(k) \subseteq Indexes
  BY <1>2, BlockProperties DEF IInv, Layout, Block, Span
<1>4. \A o \in Present \ {k} :
        \/ entries[o].index < start /\ \A i \in Block(o) : i < start
        \/ entries[o].index >= start /\ \A i \in Block(o) : i >= source + n
  BY <1>0, <1>1, OthersOutOfTheWay
<1>5. /\ taken' = (taken \ Block(k)) \cup (start .. start + n - 1)
      /\ start_index' = start + n
  BY <1>0 DEF MoveSpace, TakeSpace, FreeSpace, Block, Span, NextStartIndex
<1>6. start .. start + n - 1 \subseteq Indexes
  BY <1>2, <1>3, MaxEntriesAssumption DEF Indexes
<1>7. /\ \A i \in start .. start + n - 1 : data'[i] = data[source + (i - start)]
      /\ \A i \in Indexes \ (start .. start + n - 1) : data'[i] = data[i]
      /\ data' \in [Indexes -> Pieces \cup {Blank}]
  <2>1. data' = [i \in Indexes |-> IF i \in start .. start + n - 1
                                   THEN data[source + (i - start)] ELSE data[i]]
    BY <1>0 DEF MoveData, Span
  <2>2. \A i \in start .. start + n - 1 : source + (i - start) \in Indexes
    BY <1>2, <1>3, MaxEntriesAssumption DEF Indexes
  <2>3. data \in [Indexes -> Pieces \cup {Blank}]
    BY DEF IInv, TypeOK
  <2>. QED
    BY <1>6, <2>1, <2>2, <2>3
<1>8. start \in Indexes
  BY <1>2, <1>3, MaxEntriesAssumption DEF Indexes
<1>9. /\ entries' \in [Keys -> Entry \cup {NoEntry}]
      /\ entries'[k] = [index |-> start, length |-> entries[k].length]
      /\ entries'[k] \in Entry
      /\ \A o \in Keys \ {k} : entries'[o] = entries[o]
  BY <1>0, <1>3, <1>8 DEF IInv, TypeOK, Entry
<1>10. Present' = Present
  BY <1>2, <1>9, NullAssumption DEF Present, HasKey
<1> HIDE DEF source, n, start
<1>11. TypeOK' /\ RequestPending'
  <2>1. start_index' \in 0 .. MaxEntries
    BY <1>2, <1>3, <1>5, MaxEntriesAssumption
  <2>2. taken' \subseteq Indexes
    BY <1>5, <1>6 DEF IInv, TypeOK
  <2>. QED
    BY <1>1, <1>7, <1>9, <2>1, <2>2 DEF IInv, TypeOK, RequestPending
<1>12. /\ Block(k)' = start .. start + n - 1
       /\ \A o \in Present \ {k} : Block(o)' = Block(o)
  <2>1. entries'[k].index = start /\ EntriesCount(entries'[k].length) = n
    BY <1>9 DEF n
  <2>. QED
    BY <1>9, <2>1 DEF Block, Span, Present
<1>13. \A o \in Present \ {k} : Block(o) \cap Block(k)' = {}
  <2>1. ASSUME NEW o \in Present \ {k}, NEW i \in Block(o), i \in start .. start + n - 1
        PROVE  FALSE
    BY <1>2, <1>3, <1>4, <2>1
  <2>. QED
    BY <1>12, <2>1
<1>14. \A o \in Present \ {k} : Block(o) \cap Block(k) = {}
  BY <1>2 DEF IInv, Layout, BlocksDisjoint
<1>15. taken = UNION {Block(o) : o \in Present}
  BY DEF IInv, Layout, BitmapMatchesEntries
<1>16. BlocksDisjoint'
  <2>1. ASSUME NEW k1 \in Present \ {k}, NEW k2 \in Present \ {k}, k1 # k2
        PROVE  Block(k1)' \cap Block(k2)' = {}
    BY <1>12, <2>1 DEF IInv, Layout, BlocksDisjoint
  <2>2. \A o \in Present \ {k} : Block(o)' \cap Block(k)' = {}
    BY <1>12, <1>13
  <2>. QED
    BY <1>10, <2>1, <2>2 DEF BlocksDisjoint
<1>17. BitmapMatchesEntries'
  <2>1. \A x : x \in taken \ Block(k) <=> \E o \in Present \ {k} : x \in Block(o)
    BY <1>2, <1>14, <1>15
  <2>2. ASSUME NEW x PROVE x \in taken' <=> \E o \in Present : x \in Block(o)'
    <3>1. x \in taken' <=> x \in taken \ Block(k) \/ x \in Block(k)'
      BY <1>5, <1>12
    <3>2. (\E o \in Present : x \in Block(o)') <=>
            x \in Block(k)' \/ \E o \in Present \ {k} : x \in Block(o)
      BY <1>2, <1>12
    <3>. QED
      BY <2>1, <3>1, <3>2
  <2>. QED
    BY <1>10, <2>2 DEF BitmapMatchesEntries
<1>18. CompactedPrefix'
  <2>1. 0 .. start - 1 \subseteq taken
    BY <1>1 DEF IInv, Layout, CompactedPrefix, start
  <2>2. 0 .. start_index' - 1 \subseteq taken'
    BY <1>2, <1>3, <1>5, <2>1
  <2>3. ASSUME NEW o \in Present, entries'[o].index < start_index', NEW i \in Block(o)'
        PROVE  i < start_index'
    <3>1. CASE o = k
      BY <1>2, <1>3, <1>5, <1>12, <3>1
    <3>2. CASE o # k
      <4>1. entries'[o].index = entries[o].index /\ Block(o)' = Block(o)
        BY <1>9, <1>12, <3>2 DEF Present
      <4>2. entries[o].index \in Nat /\ entries[o].index \in Block(o) /\ Block(o) \subseteq Nat
        BY BlockProperties, MaxEntriesAssumption DEF IInv, Layout, Indexes
      <4>3. entries[o].index < start + n
        BY <1>5, <2>3, <4>1
      <4>4. ~(entries[o].index >= source + n)
        BY <1>2, <1>3, <4>2, <4>3
      <4>5. \A x \in Block(o) : x < start
        BY <1>4, <3>2, <4>2, <4>4
      <4>. QED
        BY <1>2, <1>3, <1>5, <2>3, <4>1, <4>2, <4>5
    <3>. QED
      BY <3>1, <3>2
  <2>. QED
    BY <1>10, <2>2, <2>3 DEF CompactedPrefix
<1>19. ReplacementMatchesEntries'
  <2>1. \A o \in Present : entries'[o].length = entries[o].length
    BY <1>9 DEF Present
  <2>. QED
    BY <1>1, <1>10, <2>1 DEF IInv, ReplacementMatchesEntries
<1>20. KeepsValues(Present)
  <2> SUFFICES ASSUME NEW o \in Present, NEW w \in Values, Holds(entries[o], data, w)
               PROVE  Holds(entries'[o], data', w)
    BY DEF KeepsValues
  <2>1. CASE o # k
    <3>1. \A i \in Block(o) : data'[i] = data[i]
      BY <1>7, <1>12, <1>13, <2>1, BlockProperties DEF IInv, Layout
    <3>2. entries'[o] = entries[o]
      BY <1>9, <2>1 DEF Present
    <3>. QED
      BY <3>1, <3>2 DEF Holds, Block
  <2>2. CASE o = k
    <3>1. /\ Length[w] = entries[k].length
          /\ \A i \in Block(k) : data[i] = <<w, i - source>>
      BY <2>2 DEF Holds, Block, source
    <3>2. ASSUME NEW i \in start .. start + n - 1 PROVE data'[i] = <<w, i - start>>
      <4>1. PICK j \in Block(k) : j = source + (i - start) /\ j - source = i - start
        BY <1>2, <1>3
      <4>2. data[j] = <<w, j - source>>
        BY <3>1
      <4>3. data'[i] = data[j]
        BY <1>7, <4>1
      <4>. QED
        BY <4>1, <4>2, <4>3
    <3>3. /\ entries'[k].length = entries[k].length /\ entries'[k].index = start
          /\ Span(entries'[k].index, EntriesCount(entries'[k].length)) = start .. start + n - 1
      BY <1>9 DEF Span, n
    <3>. QED
      BY <2>2, <3>1, <3>2, <3>3 DEF Holds
  <2>. QED
    BY <2>1, <2>2
<1>21. WholeValues'
  BY <1>10, <1>20, StayWhole DEF IInv
<1>. QED
  BY <1>10, <1>11, <1>16, <1>17, <1>18, <1>19, <1>20, <1>21 DEF IInv, Layout

-----------------------------------------------------------------------------
(* Theorems *)

LEMMA InitIInv == Init => IInv
<1> SUFFICES ASSUME Init PROVE IInv
  OBVIOUS
<1>1. Present = {}
  BY DEF Init, Present, HasKey
<1>2. << >> \in Seq([key : Keys, size : Nat \ {0}]) /\ DOMAIN << >> = {}
  BY EmptySeq
<1>3. TypeOK /\ RequestPending
  BY <1>2, MaxEntriesAssumption DEF Init, TypeOK, RequestPending
<1>4. Layout /\ WholeValues
  BY <1>1 DEF Init, Layout, BlocksDisjoint, BitmapMatchesEntries, CompactedPrefix, WholeValues
<1>5. ReplacementMatchesEntries
  BY <1>1, <1>2 DEF Init, ReplacementMatchesEntries, KeysIn, EachKeyOnce
<1>. QED
  BY <1>3, <1>4, <1>5 DEF IInv

LEMMA NextIInv == IInv /\ [Next]_vars => IInv'
<1> SUFFICES ASSUME IInv, [Next]_vars PROVE IInv'
  OBVIOUS
<1>1. CASE UpdateBigger
  BY <1>1, AnswerKeeps DEF UpdateBigger
<1>2. CASE Update
  BY <1>2, UpdateKeeps
<1>3. CASE PutNeedsCompaction
  BY <1>3, AnswerKeeps DEF PutNeedsCompaction
<1>4. CASE PutFull
  BY <1>4, AnswerKeeps DEF PutFull
<1>5. CASE PutEvicts
  BY <1>5, PutEvictsKeeps
<1>6. CASE PutPlaces
  BY <1>6, PutPlacesKeeps
<1>7. CASE CompactMoves
  BY <1>7, CompactMovesKeeps
<1>8. CASE CompactEnds
  BY <1>8, CompactEndsKeeps
<1>9. ASSUME NEW k \in Keys, Store(k) PROVE IInv'
  BY <1>9, StoreKeeps
<1>10. ASSUME NEW k \in Keys, NEW v \in Values, Put(k, v) PROVE IInv'
  BY <1>10, PutKeeps
<1>11. CASE StartCompaction
  BY <1>11, StartCompactionKeeps
<1>12. CASE UNCHANGED vars
  <2>1. Present' = Present /\ \A k : Block(k)' = Block(k)
    BY <1>12 DEF vars, Present, HasKey, Block
  <2>2. TypeOK' /\ RequestPending'
    BY <1>12 DEF vars, IInv, TypeOK, RequestPending
  <2>3. CompactedPrefix'
    BY <1>12, <2>1 DEF vars, IInv, Layout, CompactedPrefix
  <2>. QED
    BY <1>12, <2>2, <2>3, SameStoreKeeps DEF vars, IInv, Layout
<1>. QED
  BY <1>1, <1>2, <1>3, <1>4, <1>5, <1>6, <1>7, <1>8, <1>9, <1>10, <1>11, <1>12 DEF Next, Step

\* The inductive invariant holds in every state the storage reaches.
THEOREM Invariance == Spec => []IInv
  BY InitIInv, NextIInv, PTL DEF Spec

\* Indexes, lengths and the list stay within their types.
THEOREM TypeCorrect == Spec => []TypeOK
<1>1. IInv => TypeOK
  BY DEF IInv
<1>. QED
  BY <1>1, Invariance, PTL

\* For every buffer, no two keys share an entry and the bitmap marks exactly the
\* entries in use, at every turn of every loop, the compaction's included.
THEOREM LayoutHolds == Spec => []Layout
<1>1. IInv => Layout
  BY DEF IInv
<1>. QED
  BY <1>1, Invariance, PTL

\* Under each of the three algorithms the victims' list is exactly the atomic
\* keys, so entry_table_put never evicts a key the dictionary does not have.
THEOREM ListMatches == Spec => []ReplacementMatchesEntries
<1>1. IInv => ReplacementMatchesEntries
  BY DEF IInv
<1>. QED
  BY <1>1, Invariance, PTL

\* What is read for a key is one whole value, never a mix of two, whatever
\* updates, evictions and moves went before.
THEOREM ValuesAreWhole == Spec => []WholeValues
<1>1. IInv => WholeValues
  BY DEF IInv
<1>. QED
  BY <1>1, Invariance, PTL

\* When the compaction stops, what is taken is what is below start_index.
LEMMA CompactionFinds ==
    ASSUME IInv, pc = "compact", ~\E k \in Keys : FindsFirstEntry(k)
    PROVE  taken = 0 .. start_index - 1
<1> DEFINE Later == {k \in Present : entries[k].index >= start_index}
           S == {entries[k].index : k \in Later}
<1>0. start_index \in Nat
  BY MaxEntriesAssumption DEF IInv, TypeOK
<1>1. Later = {}
  <2> SUFFICES ASSUME Later # {} PROVE FALSE
    OBVIOUS
  <2>1. S \in SUBSET Nat /\ S # {}
    BY BlockProperties DEF IInv, Layout
  <2> HIDE DEF S
  <2>2. PICK m \in S : \A y \in S : m <= y
    BY <2>1, MinIsLeast
  <2>3. PICK k \in Later : \A other \in Later : entries[k].index <= entries[other].index
    BY <2>2 DEF S
  <2>4. k \in Keys /\ FindsFirstEntry(k)
    BY <2>3 DEF FindsFirstEntry, Present
  <2>. QED
    BY <2>4
<1>2. \A k \in Present : \A i \in Block(k) : i \in 0 .. start_index - 1
  <2>1. ASSUME NEW k \in Present, NEW i \in Block(k) PROVE i \in 0 .. start_index - 1
    <3>1. entries[k].index \in Nat /\ i \in Nat
      BY BlockProperties, MaxEntriesAssumption DEF IInv, Layout, Indexes
    <3>2. entries[k].index < start_index
      BY <1>0, <1>1, <3>1
    <3>3. i < start_index
      BY <3>2 DEF IInv, Layout, CompactedPrefix
    <3>. QED
      BY <1>0, <3>1, <3>3
  <2>. QED
    BY <2>1
<1>3. 0 .. start_index - 1 \subseteq taken
  BY DEF IInv, Layout, CompactedPrefix
<1>. QED
  BY <1>2, <1>3 DEF IInv, Layout, BitmapMatchesEntries

LEMMA CompactEndsMakesRoom ==
    ASSUME IInv, CompactEnds, NEW size \in 1 .. MaxEntries
    PROVE  ~NeedCompaction(taken', size)
<1>0. start_index \in 0 .. MaxEntries /\ MaxEntries \in Nat
  BY MaxEntriesAssumption DEF IInv, TypeOK
<1>1. taken' = 0 .. start_index - 1
  BY CompactionFinds DEF CompactEnds
<1>2. Cardinality(taken') = start_index
  <2>1. Cardinality(0 .. start_index - 1) = start_index
    BY <1>0, FS_Interval
  <2>. QED
    BY <1>1, <2>1
<1>3. CASE start_index + size <= MaxEntries
  <2>1. start_index \in 0 .. MaxEntries - size
    BY <1>0, <1>3
  <2>2. IsContinuous(taken', start_index, size)
    BY <1>0, <1>1 DEF IsContinuous, Span
  <2>. QED
    BY <2>1, <2>2 DEF NeedCompaction, HasFreeContinuousSpace
<1>4. CASE start_index + size > MaxEntries
  BY <1>0, <1>2, <1>4 DEF NeedCompaction, FreeEntriesCount
<1>. QED
  BY <1>0, <1>3, <1>4

\* After a compaction the free entries are in one run, for any buffer: no SET that
\* evicts nothing is answered -2.
THEOREM MakesRoom == Spec => CompactionMakesRoom
<1>1. IInv /\ [Next]_vars =>
        [ pc = "compact" /\ pc' = "idle" =>
            \A size \in 1 .. MaxEntries : ~NeedCompaction(taken', size) ]_vars
  <2> SUFFICES ASSUME IInv, Next, pc = "compact", pc' = "idle"
               PROVE  \A size \in 1 .. MaxEntries : ~NeedCompaction(taken', size)
    BY DEF vars
  <2>1. CompactEnds
    BY DEF Next, Step, UpdateBigger, Update, PutNeedsCompaction, PutFull, PutEvicts, PutPlaces,
           CompactMoves, Store, Put, StartCompaction
  <2>. QED
    BY <2>1, CompactEndsMakesRoom
<1>. QED
  BY <1>1, Invariance, PTL DEF Spec, CompactionMakesRoom

-----------------------------------------------------------------------------
(* The largest victim *)

\* No item before a larger one.
BySize(list) == \A i, j \in DOMAIN list : i < j => list[j].size <= list[i].size

\* The items of r are in list, in the same order.
Subsequence(r, list) ==
    /\ \A j \in DOMAIN r : \E i \in DOMAIN list : r[j] = list[i]
    /\ \A i, j \in DOMAIN r : i < j =>
         \E x, y \in DOMAIN list : x < y /\ r[i] = list[x] /\ r[j] = list[y]

\* Nothing in the list that is not in this one, or is the item.
ItemsFrom(list, item, r) ==
    \A j \in DOMAIN r : r[j] = item \/ \E i \in DOMAIN list : r[j] = list[i]

LEMMA ItemsOfList ==
    ASSUME NEW K, NEW list \in Seq(Item(K))
    PROVE  /\ Len(list) \in Nat /\ DOMAIN list = 1 .. Len(list)
           /\ \A i \in DOMAIN list : list[i].key \in K /\ list[i].size \in Nat \ {0}
<1> DEFINE I == Item(K)
<1>1. list \in Seq(I)
  OBVIOUS
<1> HIDE DEF I
<1>2. Len(list) \in Nat /\ DOMAIN list = 1 .. Len(list) /\ \A i \in DOMAIN list : list[i] \in I
  BY <1>1
<1>. QED
  BY <1>2 DEF I, Item

\* replacement_remove leaves the others in their order.
LEMMA RemoveKeepsOrder ==
    ASSUME NEW K, NEW list \in Seq(Item(K)), NEW key
    PROVE  /\ Subsequence(ReplacementRemove(list, key), list)
           /\ BySize(list) => BySize(ReplacementRemove(list, key))
<1>0. Len(list) \in Nat /\ DOMAIN list = 1 .. Len(list)
  OBVIOUS
<1> DEFINE P == {i \in 1 .. Len(list) : list[i].key = key}
           r == ReplacementRemove(list, key)
<1>1. CASE P = {}
  <2>1. r = list
    BY <1>1 DEF ReplacementRemove, RemoveFirstMatch
  <2>. QED
    BY <2>1 DEF Subsequence
<1>2. CASE P # {}
  <2> DEFINE p == Min(P)
  <2>1. p \in 1 .. Len(list)
    BY <1>0, <1>2, FirstPlace
  <2>2. r = RemoveAt(list, p)
    BY <1>2 DEF ReplacementRemove, RemoveFirstMatch, SelectInSeq
  <2> HIDE DEF p, r
  <2>a. /\ r \in Seq(Item(K)) /\ Len(r) = Len(list) - 1
        /\ \A j \in 1 .. Len(list) - 1 :
             r[j] = IF j < p THEN list[j] ELSE list[j + 1]
    BY <2>1, <2>2, RemoveAtProperties
  <2>3. /\ Len(r) = Len(list) - 1 /\ DOMAIN r = 1 .. Len(list) - 1
        /\ \A j \in 1 .. Len(list) - 1 :
             r[j] = IF j < p THEN list[j] ELSE list[j + 1]
    BY <2>a, ItemsOfList
  <2>4. ASSUME NEW j \in DOMAIN r
        PROVE  \E x \in {j, j + 1} : r[j] = list[x] /\ x \in DOMAIN list /\ (j < p <=> x = j)
    BY <1>0, <2>1, <2>3
  <2>5. ASSUME NEW i \in DOMAIN r, NEW j \in DOMAIN r, i < j
        PROVE  \E x, y \in DOMAIN list : x < y /\ r[i] = list[x] /\ r[j] = list[y]
    <3>1. PICK x \in {i, i + 1} : r[i] = list[x] /\ x \in DOMAIN list /\ (i < p <=> x = i)
      BY <2>4
    <3>2. PICK y \in {j, j + 1} : r[j] = list[y] /\ y \in DOMAIN list /\ (j < p <=> y = j)
      BY <2>4
    <3>3. x < y
      BY <1>0, <2>1, <2>3, <2>5, <3>1, <3>2
    <3>. QED
      BY <3>1, <3>2, <3>3
  <2>6. Subsequence(r, list)
    BY <2>4, <2>5 DEF Subsequence
  <2>7. BySize(list) => BySize(r)
    BY <2>5 DEF BySize
  <2>. QED
    BY <2>6, <2>7 DEF r
<1>. QED
  BY <1>1, <1>2

\* The place that BSU looks for: after the items as large, before the smaller.
LEMMA BSUPlaceBySize ==
    ASSUME NEW K, NEW list \in Seq(Item(K)), BySize(list), NEW size \in Nat
    PROVE  LET place == IndexToInsertBSU(list, size)
           IN  \A i \in DOMAIN list : IF i < place THEN size <= list[i].size
                                      ELSE list[i].size <= size
<1> DEFINE P == {i \in 1 .. Len(list) : size > list[i].size}
           place == IndexToInsertBSU(list, size)
<1>0. Len(list) \in Nat /\ DOMAIN list = 1 .. Len(list) /\ \A i \in DOMAIN list : list[i].size \in Nat
  BY ItemsOfList
<1>1. CASE P = {}
  <2>1. place = Len(list) + 1
    BY <1>0, <1>1 DEF IndexToInsertBSU, SelectInSeq
  <2>2. \A i \in DOMAIN list : ~(size > list[i].size)
    BY <1>0, <1>1
  <2> HIDE DEF place
  <2>. QED
    BY <1>0, <2>1, <2>2 DEF place
<1>2. CASE P # {}
  <2> DEFINE p == Min(P)
  <2>0. P \in SUBSET Nat
    BY <1>0
  <2>1. p \in P /\ \A i \in P : p <= i
    BY <1>2, <2>0, MinIsLeast
  <2>2. SelectInSeq(list, LAMBDA item : size > item.size) = p
    BY <1>2 DEF SelectInSeq
  <2>3. place = p
    BY <1>0, <2>1, <2>2 DEF IndexToInsertBSU
  <2> HIDE DEF place, p
  <2>4. p \in DOMAIN list /\ size > list[p].size
    BY <1>0, <2>1
  <2>5. ASSUME NEW i \in DOMAIN list
        PROVE  IF i < p THEN size <= list[i].size ELSE list[i].size <= size
    <3>1. CASE i < p
      BY <1>0, <2>1, <2>4, <3>1
    <3>2. CASE i >= p
      <4>1. list[i].size <= list[p].size
        BY <1>0, <2>4, <3>2 DEF BySize
      <4>. QED
        BY <1>0, <2>4, <3>2, <4>1
    <3>. QED
      BY <1>0, <2>4, <3>1, <3>2
  <2>. QED
    BY <2>3, <2>5 DEF place
<1>. QED
  BY <1>1, <1>2

LEMMA InsertBySize ==
    ASSUME NEW K, NEW list \in Seq(Item(K)), BySize(list), NEW item \in Item(K)
    PROVE  LET r == InsertAt(list, IndexToInsertBSU(list, item.size), item)
           IN  BySize(r) /\ ItemsFrom(list, item, r)
<1>0. Len(list) \in Nat /\ DOMAIN list = 1 .. Len(list)
  OBVIOUS
<1>s. item.size \in Nat /\ \A i \in DOMAIN list : list[i].size \in Nat
  BY ItemsOfList DEF Item
<1> DEFINE place == IndexToInsertBSU(list, item.size)
           r == InsertAt(list, place, item)
<1>1. place \in 1 .. Len(list) + 1
  BY BSUPlace
<1>2. \A i \in DOMAIN list : IF i < place THEN item.size <= list[i].size
                             ELSE list[i].size <= item.size
  BY <1>s, BSUPlaceBySize
<1> HIDE DEF place
<1>3. /\ DOMAIN r = 1 .. Len(list) + 1
      /\ \A j \in 1 .. Len(list) + 1 :
           r[j] = IF j < place THEN list[j] ELSE IF j = place THEN item ELSE list[j - 1]
  <2> DEFINE I == Item(K)
  <2>1. list \in Seq(I) /\ item \in I
    OBVIOUS
  <2> HIDE DEF I
  <2>. QED
    BY <1>1, <2>1, InsertAtProperties
<1> HIDE DEF r
<1>4. ASSUME NEW j \in DOMAIN r
      PROVE  IF j = place THEN r[j] = item
             ELSE \E x \in {j, j - 1} : r[j] = list[x] /\ x \in DOMAIN list /\ (j < place <=> x = j)
  BY <1>0, <1>1, <1>3
<1>5. ASSUME NEW i \in DOMAIN r, NEW j \in DOMAIN r, i < j
      PROVE  r[j].size <= r[i].size
  <2>1. CASE i = place
    <3>1. PICK y \in {j, j - 1} : r[j] = list[y] /\ y \in DOMAIN list /\ (j < place <=> y = j)
      BY <1>4, <1>5, <2>1
    <3>2. ~(y < place)
      BY <1>1, <1>3, <1>5, <2>1, <3>1
    <3>. QED
      BY <1>2, <1>4, <2>1, <3>1, <3>2
  <2>2. CASE j = place
    <3>0. i # place
      BY <1>3, <1>5, <2>2
    <3>1. PICK x \in {i, i - 1} : r[i] = list[x] /\ x \in DOMAIN list /\ (i < place <=> x = i)
      BY <1>4, <3>0
    <3>2. x < place
      BY <1>1, <1>3, <1>5, <2>2, <3>1
    <3>. QED
      BY <1>2, <1>4, <2>2, <3>1, <3>2
  <2>3. CASE i # place /\ j # place
    <3>1. PICK x \in {i, i - 1} : r[i] = list[x] /\ x \in DOMAIN list /\ (i < place <=> x = i)
      BY <1>4, <2>3
    <3>2. PICK y \in {j, j - 1} : r[j] = list[y] /\ y \in DOMAIN list /\ (j < place <=> y = j)
      BY <1>4, <2>3
    <3>3. x < y
      BY <1>0, <1>1, <1>3, <1>5, <2>3, <3>1, <3>2
    <3>. QED
      BY <3>1, <3>2, <3>3 DEF BySize
  <2>. QED
    BY <2>1, <2>2, <2>3
<1>6. BySize(r)
  BY <1>5 DEF BySize
<1>7. ItemsFrom(list, item, r)
  BY <1>4 DEF ItemsFrom
<1>. QED
  BY <1>6, <1>7 DEF r, place

\* replacement_add under BSU keeps the order, and forgets the old size of the key.
LEMMA AddBySize ==
    ASSUME Algorithm = "BSU", NEW K, NEW list \in Seq(Item(K)), EachKeyOnce(list), BySize(list),
           NEW key \in K, NEW size \in Nat \ {0}
    PROVE  LET r == ReplacementAdd(list, key, size)
           IN  /\ BySize(r)
               /\ \A j \in DOMAIN r : \/ r[j] = [key |-> key, size |-> size]
                                      \/ \E i \in DOMAIN list : list[i].key # key /\ r[j] = list[i]
<1> DEFINE item == [key |-> key, size |-> size]
           without == ReplacementRemove(list, key)
           r == ReplacementAdd(list, key, size)
<1>0. item \in Item(K) /\ item.size = size
  BY DEF Item
<1>1. without \in Seq(Item(K)) /\ key \notin KeysIn(without)
  BY RemoveProperties
<1>2. BySize(without) /\ \A j \in DOMAIN without : \E i \in DOMAIN list : without[j] = list[i]
  BY RemoveKeepsOrder DEF Subsequence
<1>3. r = InsertAt(without, IndexToInsertBSU(without, item.size), item)
  BY <1>0 DEF ReplacementAdd
<1> HIDE DEF item, without
<1>4. BySize(r) /\ ItemsFrom(without, item, r)
  BY <1>0, <1>1, <1>2, <1>3, InsertBySize
<1> HIDE DEF r
<1>5. ASSUME NEW j \in DOMAIN r, r[j] # item
      PROVE  \E i \in DOMAIN list : list[i].key # key /\ r[j] = list[i]
  <2>1. PICK x \in DOMAIN without : r[j] = without[x]
    BY <1>4, <1>5 DEF ItemsFrom
  <2>2. PICK i \in DOMAIN list : without[x] = list[i]
    BY <1>2, <2>1
  <2>3. without[x].key # key
    BY <1>1, <2>1 DEF KeysIn
  <2>. QED
    BY <2>1, <2>2, <2>3
<1>. QED
  BY <1>4, <1>5 DEF r, item

\* Every item has the size that the dictionary has for its key.
SizesOfEntries ==
    \A i \in DOMAIN replacement : replacement[i].size = entries[replacement[i].key].length

SizeInv == BySize(replacement) /\ SizesOfEntries

\* A step that gives a key a length, and adds it to the list as that length asks.
LEMMA AddKeepsSizes ==
    ASSUME Algorithm = "BSU", IInv, SizeInv, NEW key \in Keys, NEW length \in Nat \ {0},
           key \in KeysIn(replacement) => IsAtomic(length),
           replacement' = AddToReplacement(replacement, key, length),
           entries'[key].length = length,
           \A k \in Keys \ {key} : entries'[k] = entries[k]
    PROVE  SizeInv'
<1>1. replacement \in Seq(Item(Keys)) /\ EachKeyOnce(replacement) /\ BySize(replacement)
      /\ \A i \in DOMAIN replacement : replacement[i].key \in Keys
  <2>1. replacement \in Seq(Item(Keys))
    BY DEF IInv, TypeOK, Item
  <2>. QED
    BY <2>1, ItemsOfList DEF IInv, ReplacementMatchesEntries, SizeInv
<1>2. CASE IsAtomic(length)
  <2>1. replacement' = ReplacementAdd(replacement, key, length)
    BY <1>2 DEF AddToReplacement
  <2>2. /\ BySize(replacement')
        /\ \A j \in DOMAIN replacement' :
             \/ replacement'[j] = [key |-> key, size |-> length]
             \/ \E i \in DOMAIN replacement :
                  replacement[i].key # key /\ replacement'[j] = replacement[i]
    BY <1>1, <2>1, AddBySize
  <2>3. ASSUME NEW j \in DOMAIN replacement'
        PROVE  replacement'[j].size = entries'[replacement'[j].key].length
    <3>1. CASE replacement'[j] = [key |-> key, size |-> length]
      BY <3>1
    <3>2. CASE replacement'[j] # [key |-> key, size |-> length]
      <4>1. PICK i \in DOMAIN replacement :
              replacement[i].key # key /\ replacement'[j] = replacement[i]
        BY <2>2, <3>2
      <4>2. entries'[replacement[i].key] = entries[replacement[i].key]
        BY <1>1, <4>1
      <4>. QED
        BY <4>1, <4>2 DEF SizeInv, SizesOfEntries
    <3>. QED
      BY <3>1, <3>2
  <2>. QED
    BY <2>2, <2>3 DEF SizeInv, SizesOfEntries
<1>3. CASE ~IsAtomic(length)
  <2>1. replacement' = replacement
    BY <1>3 DEF AddToReplacement
  <2>2. \A i \in DOMAIN replacement : replacement[i].key # key
    BY <1>3 DEF KeysIn
  <2>. QED
    BY <1>1, <2>1, <2>2 DEF SizeInv, SizesOfEntries
<1>. QED
  BY <1>2, <1>3

LEMMA UpdateKeepsSizes ==
    ASSUME Algorithm = "BSU", IInv, SizeInv, Update
    PROVE  SizeInv'
<1>0. PICK key \in Keys, v \in Values : request.key = key /\ request.value = v
  BY DEF IInv, RequestPending, Request, Update
<1>1. HasKey(key) /\ key \in Present /\ entries[key] \in Entry /\ entries[key].length \in Nat \ {0}
  <2>1. key \in Present
    BY <1>0 DEF Update, Present
  <2>. QED
    BY <2>1, BlockProperties DEF IInv, Layout, Present
<1>2. Length[v] \in Nat \ {0}
  BY ValueCountType
<1>3. /\ EntriesCount(Length[v]) <= EntriesCount(entries[key].length)
      /\ replacement' = AddToReplacement(replacement, key, Length[v])
      /\ entries' = [entries EXCEPT ![key].length = Length[v]]
  BY <1>0 DEF Update, EntriesNeeded, ValueEntriesCount
<1>4. entries'[key].length = Length[v] /\ \A k \in Keys \ {key} : entries'[k] = entries[k]
  BY <1>1, <1>3 DEF IInv, TypeOK, Entry
<1>5. key \in KeysIn(replacement) => IsAtomic(Length[v])
  <2>1. key \in KeysIn(replacement) => EntriesCount(entries[key].length) = 1
    BY <1>1, AtomicTakesOne DEF IInv, ReplacementMatchesEntries
  <2>2. EntriesCount(Length[v]) \in Nat \ {0}
    BY <1>2, EntriesCountType
  <2>3. EntriesCount(Length[v]) = 1 => IsAtomic(Length[v])
    BY <1>2, AtomicTakesOne
  <2>. QED
    BY <1>3, <2>1, <2>2, <2>3
<1>. QED
  BY <1>2, <1>3, <1>4, <1>5, AddKeepsSizes

LEMMA PutPlacesKeepsSizes ==
    ASSUME Algorithm = "BSU", IInv, SizeInv, PutPlaces
    PROVE  SizeInv'
<1>0. PICK key \in Keys, v \in Values : request.key = key /\ request.value = v
  BY DEF IInv, RequestPending, Request, PutPlaces
<1>1. CASE UNCHANGED <<entries, replacement>>
  BY <1>1 DEF SizeInv, SizesOfEntries
<1>2. CASE \E i \in Indexes : Place(i)
  <2>1. PICK i \in Indexes :
          /\ entries' = [entries EXCEPT ![key] = [index |-> i, length |-> Length[v]]]
          /\ replacement' = AddToReplacement(replacement, key, Length[v])
    BY <1>0, <1>2 DEF Place
  <2>2. entries'[key].length = Length[v] /\ \A k \in Keys \ {key} : entries'[k] = entries[k]
    BY <2>1 DEF IInv, TypeOK
  <2>3. key \notin KeysIn(replacement)
    BY <1>0 DEF PutPlaces, IInv, ReplacementMatchesEntries, Present
  <2>4. Length[v] \in Nat \ {0}
    BY ValueCountType
  <2>. QED
    BY <2>1, <2>2, <2>3, <2>4, AddKeepsSizes
<1>. QED
  BY <1>1, <1>2 DEF PutPlaces

LEMMA StoreKeepsSizes ==
    ASSUME Algorithm = "BSU", IInv, SizeInv, NEW k \in Keys, Store(k)
    PROVE  SizeInv'
<1>1. CASE HasKey(k)
  <2>1. k \in Present
    BY <1>1 DEF Present
  <2>2. entries[k].length \in Nat \ {0}
    BY <2>1, BlockProperties DEF IInv, Layout
  <2>3. k \in KeysIn(replacement) => IsAtomic(entries[k].length)
    BY DEF IInv, ReplacementMatchesEntries
  <2>4. replacement' = AddToReplacement(replacement, k, entries[k].length) /\ entries' = entries
    BY <1>1 DEF Store
  <2>. QED
    BY <2>2, <2>3, <2>4, AddKeepsSizes
<1>2. CASE ~HasKey(k)
  BY <1>2 DEF Store, SizeInv, SizesOfEntries
<1>. QED
  BY <1>1, <1>2

LEMMA PutEvictsKeepsSizes ==
    ASSUME Algorithm = "BSU", IInv, SizeInv, PutEvicts
    PROVE  SizeInv'
<1>0. PICK victim : victim = ReplacementTake(replacement)
  OBVIOUS
<1>1. entries' = [entries EXCEPT ![victim] = NoEntry]
      /\ replacement' = ReplacementRemove(replacement, victim)
  BY <1>0 DEF PutEvicts
<1>2. replacement \in Seq(Item(Keys)) /\ EachKeyOnce(replacement) /\ BySize(replacement)
      /\ \A i \in DOMAIN replacement : replacement[i].key \in Keys
  <2>1. replacement \in Seq(Item(Keys))
    BY DEF IInv, TypeOK, Item
  <2>. QED
    BY <2>1, ItemsOfList DEF IInv, ReplacementMatchesEntries, SizeInv
<1>3. BySize(replacement')
      /\ \A j \in DOMAIN replacement' : \E i \in DOMAIN replacement : replacement'[j] = replacement[i]
  BY <1>1, <1>2, RemoveKeepsOrder DEF Subsequence
<1>4. victim \notin KeysIn(replacement')
  BY <1>1, <1>2, RemoveProperties
<1>5. ASSUME NEW j \in DOMAIN replacement'
      PROVE  replacement'[j].size = entries'[replacement'[j].key].length
  <2>1. PICK i \in DOMAIN replacement : replacement'[j] = replacement[i]
    BY <1>3
  <2>2. replacement[i].key # victim /\ replacement[i].key \in Keys
    BY <1>2, <1>4, <2>1 DEF KeysIn
  <2>3. entries'[replacement[i].key] = entries[replacement[i].key]
    BY <1>1, <2>2 DEF IInv, TypeOK
  <2>. QED
    BY <2>1, <2>3 DEF SizeInv, SizesOfEntries
<1>. QED
  BY <1>3, <1>5 DEF SizeInv, SizesOfEntries

LEMMA CompactMovesKeepsSizes ==
    ASSUME IInv, SizeInv, CompactMoves
    PROVE  SizeInv'
<1>1. PICK k \in Keys : HasKey(k) /\ entries' = [entries EXCEPT ![k].index = start_index]
  BY DEF CompactMoves, FindsFirstEntry
<1>2. replacement' = replacement
  BY DEF CompactMoves
<1>3. \A x \in Keys : entries'[x].length = entries[x].length
  <2>1. entries[k] \in Entry
    BY <1>1 DEF IInv, TypeOK, HasKey
  <2>. QED
    BY <1>1, <2>1 DEF IInv, TypeOK, Entry
<1>4. \A i \in DOMAIN replacement : replacement[i].key \in Keys
  <2>1. replacement \in Seq(Item(Keys))
    BY DEF IInv, TypeOK, Item
  <2>. QED
    BY <2>1, ItemsOfList
<1>. QED
  BY <1>2, <1>3, <1>4 DEF SizeInv, SizesOfEntries

LEMMA NextKeepsSizes ==
    ASSUME Algorithm = "BSU"
    PROVE  IInv /\ SizeInv /\ [Next]_vars => SizeInv'
<1> SUFFICES ASSUME IInv, SizeInv, [Next]_vars PROVE SizeInv'
  OBVIOUS
<1>1. CASE UNCHANGED <<entries, replacement>>
  BY <1>1 DEF SizeInv, SizesOfEntries
<1>2. ASSUME NEW k \in Keys, Store(k) PROVE SizeInv'
  BY <1>2, StoreKeepsSizes
<1>3. CASE Update \/ PutEvicts \/ PutPlaces \/ CompactMoves
  BY <1>3, UpdateKeepsSizes, PutEvictsKeepsSizes, PutPlacesKeepsSizes, CompactMovesKeepsSizes
<1>4. CASE UpdateBigger \/ PutNeedsCompaction \/ PutFull \/ CompactEnds \/ StartCompaction
           \/ (\E k \in Keys, v \in Values : Put(k, v)) \/ UNCHANGED vars
  BY <1>1, <1>4 DEF UpdateBigger, PutNeedsCompaction, PutFull, CompactEnds, StartCompaction, Put, vars
<1>. QED
  BY <1>2, <1>3, <1>4 DEF Next, Step

\* Only an eviction takes a key from the dictionary.
LEMMA OnlyEvictionsForget ==
    ASSUME IInv, [Next]_vars, NEW k \in Keys, HasKey(k), ~HasKey(k)'
    PROVE  replacement # << >> /\ k = replacement[1].key
<1>0. entries'[k] = NoEntry /\ entries[k] # NoEntry /\ entries[k] \in Entry
  BY DEF HasKey, IInv, TypeOK
<1>1. ~Update
  <2> SUFFICES ASSUME Update PROVE FALSE
    OBVIOUS
  <2>1. Present' = Present
    <3>1. PICK key \in Keys, v \in Values : request.key = key /\ request.value = v
      BY DEF IInv, RequestPending, Request, Update
    <3>2. entries' = [entries EXCEPT ![key].length = Length[v]] /\ HasKey(key)
      BY <3>1 DEF Update
    <3>3. entries[key] \in Entry /\ entries'[key] \in Entry
      BY <3>1, <3>2 DEF IInv, TypeOK, HasKey, Entry
    <3>. QED
      BY <3>1, <3>2, <3>3, NullAssumption DEF IInv, TypeOK, Present, HasKey
  <2>. QED
    BY <2>1 DEF Present
<1>2. ~PutPlaces
  <2> SUFFICES ASSUME PutPlaces PROVE FALSE
    OBVIOUS
  <2>1. PICK key \in Keys, v \in Values : request.key = key /\ request.value = v
    BY DEF IInv, RequestPending, Request, PutPlaces
  <2>2. k # key
    BY <2>1 DEF PutPlaces
  <2>3. entries'[k] = entries[k]
    BY <2>1, <2>2 DEF PutPlaces, Place, IInv, TypeOK
  <2>. QED
    BY <1>0, <2>3
<1>3. ~CompactMoves
  <2> SUFFICES ASSUME CompactMoves PROVE FALSE
    OBVIOUS
  <2>1. PICK key \in Keys :
          /\ entries[key].index >= start_index
          /\ entries' = [entries EXCEPT ![key].index = start_index]
    BY DEF CompactMoves, FindsFirstEntry
  <2>3. k = key
    BY <1>0, <2>1 DEF IInv, TypeOK
  <2>4. start_index \in Indexes
    <3>1. start_index <= entries[key].index /\ entries[key].index \in Indexes
      BY <1>0, <2>1, <2>3 DEF Entry
    <3>. QED
      BY <3>1, MaxEntriesAssumption DEF IInv, TypeOK, Indexes
  <2>5. entries'[k] \in Entry
    BY <1>0, <2>1, <2>3, <2>4 DEF IInv, TypeOK, Entry
  <2>. QED
    BY <1>0, <2>5, NullAssumption
<1>4. PutEvicts
  <2>1. entries' # entries
    BY <1>0
  <2>. QED
    BY <1>1, <1>2, <1>3, <2>1 DEF Next, Step, UpdateBigger, PutNeedsCompaction, PutFull, CompactEnds,
                                StartCompaction, Store, Put, vars
<1>5. replacement # << >> /\ entries' = [entries EXCEPT ![ReplacementTake(replacement)] = NoEntry]
  BY <1>4 DEF PutEvicts, ReplacementIsEmpty
<1>6. k = ReplacementTake(replacement)
  BY <1>0, <1>5 DEF IInv, TypeOK
<1>7. replacement \in Seq(Item(Keys))
  BY DEF IInv, TypeOK, Item
<1>. QED
  BY <1>5, <1>6, <1>7 DEF ReplacementTake

\* Under BSU the victim is a largest atomic value: the list goes by size, and the
\* sizes are those of the dictionary, also after SETs that made values shorter.
THEOREM BSUTakesTheLargest ==
    ASSUME Algorithm = "BSU"
    PROVE  Spec => BSUEvictsLargest
<1>1. Init => SizeInv
  BY DEF Init, SizeInv, BySize, SizesOfEntries
<1>2. IInv /\ SizeInv /\ [Next]_vars => SizeInv'
  BY NextKeepsSizes
<1>3. IInv /\ SizeInv /\ [Next]_vars =>
        [ \A k \in Keys : HasKey(k) /\ ~HasKey(k)' =>
            \A other \in Present : IsAtomic(entries[other].length) =>
                entries[other].length <= entries[k].length ]_vars
  <2> SUFFICES ASSUME IInv, SizeInv, [Next]_vars, NEW k \in Keys, HasKey(k), ~HasKey(k)',
                      NEW other \in Present, IsAtomic(entries[other].length)
               PROVE  entries[other].length <= entries[k].length
    OBVIOUS
  <2>1. replacement # << >> /\ k = replacement[1].key
    BY OnlyEvictionsForget
  <2>2. PICK j \in DOMAIN replacement : replacement[j].key = other
    BY DEF IInv, ReplacementMatchesEntries, KeysIn
  <2>3. replacement \in Seq(Item(Keys))
    BY DEF IInv, TypeOK, Item
  <2>4. 1 \in DOMAIN replacement /\ j \in Nat /\ (j = 1 \/ 1 < j)
    <3>1. Len(replacement) \in Nat /\ DOMAIN replacement = 1 .. Len(replacement)
          /\ Len(replacement) # 0
      BY <2>1, <2>3, ItemsOfList
    <3>. QED
      BY <3>1
  <2>5. replacement[j].size <= replacement[1].size
    <3>1. replacement[1].size \in Nat
      BY <2>3, <2>4, ItemsOfList
    <3>2. CASE j = 1
      BY <3>1, <3>2
    <3>3. CASE 1 < j
      BY <2>4, <3>3 DEF SizeInv, BySize
    <3>. QED
      BY <2>4, <3>2, <3>3
  <2>. QED
    BY <2>1, <2>2, <2>4, <2>5 DEF SizeInv, SizesOfEntries
<1>. QED
  BY <1>1, <1>2, <1>3, Invariance, PTL DEF Spec, BSUEvictsLargest

-----------------------------------------------------------------------------
(* LRU and CIRCULAR: the list goes by the history *)

\* Any two items of the list counted in their order.
ByHistory ==
    \A i, j \in DOMAIN replacement :
        i < j => <<replacement[i].key, replacement[j].key>> \in older

\* r holds items of list in the list's order, without that of key, and then item.
LEMMA AppendByHistory ==
    ASSUME IInv, ByHistory, NEW key \in Keys, NEW item, item.key = key,
           NEW r \in Seq(Item(Keys)), Subsequence(r, replacement), key \notin KeysIn(r),
           item \in Item(Keys), replacement' = Append(r, item),
           older' = {p \in older : p[1] # key} \cup ((Keys \ {key}) \X {key})
    PROVE  ByHistory'
<1>1. Len(r) \in Nat /\ DOMAIN r = 1 .. Len(r) /\ \A i \in DOMAIN r : r[i].key \in Keys \ {key}
  BY ItemsOfList DEF KeysIn
<1>2. /\ DOMAIN replacement' = 1 .. Len(r) + 1 /\ replacement'[Len(r) + 1] = item
      /\ \A i \in 1 .. Len(r) : replacement'[i] = r[i]
  <2> DEFINE I == Item(Keys)
  <2>1. r \in Seq(I) /\ item \in I
    OBVIOUS
  <2> HIDE DEF I
  <2>. QED
    BY <2>1
<1>3. ASSUME NEW i \in DOMAIN replacement', NEW j \in DOMAIN replacement', i < j
      PROVE  <<replacement'[i].key, replacement'[j].key>> \in older'
  <2>1. i \in DOMAIN r /\ replacement'[i] = r[i] /\ (j \in DOMAIN r \/ j = Len(r) + 1)
    BY <1>1, <1>2, <1>3
  <2>2. CASE j = Len(r) + 1
    <3>1. replacement'[j].key = key /\ r[i].key \in Keys \ {key}
      BY <1>1, <1>2, <2>1, <2>2
    <3>. QED
      BY <2>1, <3>1
  <2>3. CASE j \in DOMAIN r
    <3>1. PICK x \in DOMAIN replacement, y \in DOMAIN replacement :
            x < y /\ r[i] = replacement[x] /\ r[j] = replacement[y]
      BY <1>3, <2>1, <2>3 DEF Subsequence
    <3>2. replacement'[j] = r[j] /\ r[i].key # key
      BY <1>1, <1>2, <2>1, <2>3
    <3>3. <<r[i].key, r[j].key>> \in older
      BY <3>1 DEF ByHistory
    <3>. QED
      BY <2>1, <3>2, <3>3
  <2>. QED
    BY <2>1, <2>2, <2>3
<1>. QED
  BY <1>3 DEF ByHistory

\* A step that counts for a key and adds it to the list as its length asks.
LEMMA AddByHistory ==
    ASSUME Algorithm \in {"LRU", "CIRCULAR"}, IInv, ByHistory,
           NEW key \in Keys, NEW length \in Nat \ {0},
           key \in KeysIn(replacement) => IsAtomic(length),
           replacement' = AddToReplacement(replacement, key, length), Counts(key)
    PROVE  ByHistory'
<1> DEFINE without == ReplacementRemove(replacement, key)
           item == [key |-> key, size |-> length]
<1>1. replacement \in Seq(Item(Keys)) /\ EachKeyOnce(replacement)
      /\ \A i \in DOMAIN replacement : replacement[i].key \in Keys
  <2>1. replacement \in Seq(Item(Keys))
    BY DEF IInv, TypeOK, Item
  <2>. QED
    BY <2>1, ItemsOfList DEF IInv, ReplacementMatchesEntries
<1>2. WasAtomic(key) <=> key \in KeysIn(replacement)
  BY DEF WasAtomic, IInv, ReplacementMatchesEntries
<1>3. /\ without \in Seq(Item(Keys)) /\ Subsequence(without, replacement)
      /\ key \notin KeysIn(without)
  BY <1>1, RemoveProperties, RemoveKeepsOrder
<1>4. item \in Item(Keys) /\ item.key = key
  BY DEF Item
<1> HIDE DEF without, item
<1>5. CASE ~IsAtomic(length)
  <2>1. replacement' = replacement /\ \A i \in DOMAIN replacement : replacement[i].key # key
    BY <1>5 DEF AddToReplacement, KeysIn
  <2>2. older \subseteq older' \/ older' = {p \in older : p[1] # key} \cup ((Keys \ {key}) \X {key})
    BY DEF Counts
  <2>. QED
    BY <2>1, <2>2 DEF ByHistory
<1>6. CASE IsAtomic(length) /\ Algorithm = "CIRCULAR" /\ WasAtomic(key)
  <2>1. ReplacementContains(replacement, key)
    BY <1>2, <1>6 DEF ReplacementContains, KeysIn
  <2>2. replacement' = replacement /\ older' = older
    BY <1>6, <2>1 DEF AddToReplacement, ReplacementAdd, Counts
  <2>. QED
    BY <2>2 DEF ByHistory
<1>7. CASE IsAtomic(length) /\ Algorithm = "CIRCULAR" /\ ~WasAtomic(key)
  <2>1. ~ReplacementContains(replacement, key) /\ key \notin KeysIn(replacement)
    BY <1>2, <1>7 DEF ReplacementContains, KeysIn
  <2>2. replacement' = Append(replacement, item)
    BY <1>7, <2>1 DEF AddToReplacement, ReplacementAdd, item
  <2>3. older' = {p \in older : p[1] # key} \cup ((Keys \ {key}) \X {key})
    BY <1>7 DEF Counts
  <2>4. Subsequence(replacement, replacement)
    BY DEF Subsequence
  <2>. QED
    BY <1>1, <1>4, <2>1, <2>2, <2>3, <2>4, AppendByHistory
<1>8. CASE IsAtomic(length) /\ Algorithm = "LRU"
  <2>1. replacement' = Append(without, item)
    BY <1>8 DEF AddToReplacement, ReplacementAdd, item, without
  <2>2. older' = {p \in older : p[1] # key} \cup ((Keys \ {key}) \X {key})
    BY <1>8 DEF Counts
  <2>. QED
    BY <1>3, <1>4, <2>1, <2>2, AppendByHistory
<1>. QED
  BY <1>5, <1>6, <1>7, <1>8

LEMMA StepByHistory ==
    ASSUME Algorithm \in {"LRU", "CIRCULAR"}, IInv, ByHistory, Step,
           IF pc = "put" /\ result' = "ok" THEN Counts(request.key) ELSE UNCHANGED older
    PROVE  ByHistory'
<1>1. CASE Update
  <2>1. PICK key \in Keys, v \in Values : request.key = key /\ request.value = v
    BY <1>1 DEF IInv, RequestPending, Request, Update
  <2>2. /\ Counts(key) /\ key \in Present
        /\ EntriesCount(Length[v]) <= EntriesCount(entries[key].length)
        /\ replacement' = AddToReplacement(replacement, key, Length[v])
    BY <1>1, <2>1 DEF Update, Answer, EntriesNeeded, ValueEntriesCount, Present
  <2>3. Length[v] \in Nat \ {0}
    BY ValueCountType
  <2>4. key \in KeysIn(replacement) => IsAtomic(Length[v])
    <3>1. entries[key].length \in Nat \ {0}
      BY <2>2, BlockProperties DEF IInv, Layout
    <3>2. key \in KeysIn(replacement) => EntriesCount(entries[key].length) = 1
      BY <3>1, AtomicTakesOne DEF IInv, ReplacementMatchesEntries
    <3>3. EntriesCount(Length[v]) \in Nat \ {0} /\ (EntriesCount(Length[v]) = 1 => IsAtomic(Length[v]))
      BY <2>3, EntriesCountType, AtomicTakesOne
    <3>. QED
      BY <2>2, <3>2, <3>3
  <2>. QED
    BY <2>2, <2>3, <2>4, AddByHistory
<1>2. CASE \E i \in Indexes : PutPlaces /\ Place(i)
  <2>1. PICK key \in Keys, v \in Values : request.key = key /\ request.value = v
    BY <1>2 DEF IInv, RequestPending, Request, PutPlaces
  <2>2. Counts(key) /\ replacement' = AddToReplacement(replacement, key, Length[v])
    BY <1>2, <2>1 DEF PutPlaces, Place, Answer
  <2>3. key \notin KeysIn(replacement)
    BY <1>2, <2>1 DEF PutPlaces, IInv, ReplacementMatchesEntries, Present
  <2>4. Length[v] \in Nat \ {0}
    BY ValueCountType
  <2>. QED
    BY <2>2, <2>3, <2>4, AddByHistory
<1>3. CASE PutEvicts
  <2>1. PICK key \in Keys : request.key = key /\ ~HasKey(key)
    BY <1>3 DEF IInv, RequestPending, Request, PutEvicts
  <2>2. /\ replacement' = ReplacementRemove(replacement, ReplacementTake(replacement))
        /\ replacement \in Seq(Item(Keys)) /\ EachKeyOnce(replacement)
    BY <1>3 DEF PutEvicts, IInv, TypeOK, Item, ReplacementMatchesEntries
  <2>3. Subsequence(replacement', replacement)
    BY <2>2, RemoveKeepsOrder
  <2>4. \A i \in DOMAIN replacement : replacement[i].key # key
    BY <2>1 DEF IInv, ReplacementMatchesEntries, KeysIn, Present
  <2>5. \/ older \subseteq older'
        \/ older' = {p \in older : p[1] # key} \cup ((Keys \ {key}) \X {key})
    BY <2>1 DEF Counts
  <2>6. ASSUME NEW i \in DOMAIN replacement', NEW j \in DOMAIN replacement', i < j
        PROVE  <<replacement'[i].key, replacement'[j].key>> \in older'
    <3>1. PICK x \in DOMAIN replacement, y \in DOMAIN replacement :
            x < y /\ replacement'[i] = replacement[x] /\ replacement'[j] = replacement[y]
      BY <2>3, <2>6 DEF Subsequence
    <3>2. <<replacement[x].key, replacement[y].key>> \in older /\ replacement[x].key # key
      BY <2>4, <3>1 DEF ByHistory
    <3>. QED
      BY <2>5, <3>1, <3>2
  <2>. QED
    BY <2>6 DEF ByHistory
<1>4. CASE UpdateBigger \/ PutNeedsCompaction \/ PutFull \/ CompactEnds \/ CompactMoves
           \/ (PutPlaces /\ ~\E i \in Indexes : Place(i))
  <2>1. UNCHANGED <<replacement, older>>
    BY <1>4 DEF UpdateBigger, PutNeedsCompaction, PutFull, CompactEnds, CompactMoves, PutPlaces, Answer
  <2>. QED
    BY <2>1 DEF ByHistory
<1>. QED
  BY <1>1, <1>2, <1>3, <1>4 DEF Step, PutPlaces

LEMMA NextByHistory ==
    ASSUME Algorithm \in {"LRU", "CIRCULAR"}, IInv, ByHistory, [HistoryNext]_<<vars, older>>
    PROVE  ByHistory'
<1>1. ASSUME NEW k \in Keys, Store(k), IF result' = "ok" THEN Counts(k) ELSE UNCHANGED older
      PROVE  ByHistory'
  <2>1. CASE HasKey(k)
    <3>1. k \in Present
      BY <2>1 DEF Present
    <3>2. entries[k].length \in Nat \ {0}
      BY <3>1, BlockProperties DEF IInv, Layout
    <3>3. k \in KeysIn(replacement) => IsAtomic(entries[k].length)
      BY DEF IInv, ReplacementMatchesEntries
    <3>4. replacement' = AddToReplacement(replacement, k, entries[k].length) /\ Counts(k)
      BY <1>1, <2>1 DEF Store
    <3>. QED
      BY <3>2, <3>3, <3>4, AddByHistory
  <2>2. CASE ~HasKey(k)
    BY <1>1, <2>2 DEF Store, ByHistory
  <2>. QED
    BY <2>1, <2>2
<1>2. CASE UNCHANGED <<replacement, older>>
  BY <1>2 DEF ByHistory
<1>. QED
  BY <1>1, <1>2, StepByHistory DEF HistoryNext, Put, StartCompaction, vars

\* Under LRU the victim is the atomic key least recently SET or STOREd, under
\* CIRCULAR the one atomic for longest (replacement_add, replacement_take), for
\* any buffer, keys and values.
THEOREM TheOldestIsTaken ==
    ASSUME Algorithm \in {"LRU", "CIRCULAR"}
    PROVE  HistorySpec => VictimIsOldest
<1>1. HistoryInit => IInv /\ ByHistory
  BY InitIInv DEF HistoryInit, ByHistory, Init
<1>2. [HistoryNext]_<<vars, older>> => [Next]_vars
  BY DEF HistoryNext, Next
<1>3. IInv /\ ByHistory /\ [HistoryNext]_<<vars, older>> => (IInv /\ ByHistory)'
  BY <1>2, NextIInv, NextByHistory
<1>4. IInv /\ ByHistory /\ [HistoryNext]_<<vars, older>> =>
        [ \A k \in Keys : k \in Present /\ k \notin Present' =>
            \A other \in Present \ {k} : WasAtomic(other) => <<k, other>> \in older ]_<<vars, older>>
  <2> SUFFICES ASSUME IInv, ByHistory, [HistoryNext]_<<vars, older>>,
                      NEW k \in Keys, k \in Present, k \notin Present',
                      NEW other \in Present \ {k}, WasAtomic(other)
               PROVE  <<k, other>> \in older
    OBVIOUS
  <2>1. replacement # << >> /\ k = replacement[1].key
    <3>1. HasKey(k) /\ ~HasKey(k)'
      BY DEF Present
    <3>. QED
      BY <1>2, <3>1, OnlyEvictionsForget
  <2>2. PICK j \in DOMAIN replacement : replacement[j].key = other
    BY DEF IInv, ReplacementMatchesEntries, KeysIn, WasAtomic
  <2>3. 1 \in DOMAIN replacement /\ 1 < j
    <3>1. replacement \in Seq(Item(Keys))
      BY DEF IInv, TypeOK, Item
    <3>2. Len(replacement) \in Nat /\ DOMAIN replacement = 1 .. Len(replacement)
          /\ Len(replacement) # 0
      BY <2>1, <3>1, ItemsOfList
    <3>. QED
      BY <2>1, <2>2, <3>2
  <2>. QED
    BY <2>1, <2>2, <2>3 DEF ByHistory
<1>. QED
  BY <1>1, <1>3, <1>4, PTL DEF HistorySpec, VictimIsOldest

-----------------------------------------------------------------------------
(* What the instance promises: the refinement of KeyValueStore *)

\* The buffer holds one value for an entry, the one that entry_table_get reads.
LEMMA HoldsOne ==
    ASSUME NEW e \in Entry, NEW d, NEW v \in Values, Holds(e, d, v)
    PROVE  (CHOOSE w \in Values : Holds(e, d, w)) = v
<1>1. ASSUME NEW w \in Values, Holds(e, d, w) PROVE w = v
  <2>1. e.length \in Nat \ {0} /\ e.index \in Nat
    BY LengthAssumption, MaxEntriesAssumption DEF Entry, Indexes
  <2>2. e.index \in Span(e.index, EntriesCount(e.length))
    BY <2>1, EntriesCountType DEF Span
  <2>3. d[e.index] = <<w, e.index - e.index>> /\ d[e.index] = <<v, e.index - e.index>>
    BY <1>1, <2>2 DEF Holds
  <2>. QED
    BY <2>3
<1>2. Holds(e, d, v) /\ v \in Values
  OBVIOUS
<1>3. PICK w : w = CHOOSE x \in Values : Holds(e, d, x)
  OBVIOUS
<1>4. w \in Values /\ Holds(e, d, w)
  BY <1>2, <1>3
<1>. QED
  BY <1>1, <1>3, <1>4

LEMMA StoredIs ==
    ASSUME TypeOK, NEW k \in Keys
    PROVE  /\ k \notin Present => Stored[k] = NoEntry
           /\ \A v \in Values : k \in Present /\ Holds(entries[k], data, v) => Stored[k] = v
<1>1. k \notin Present => Stored[k] = NoEntry
  BY DEF Stored, Present
<1>2. ASSUME NEW v \in Values, k \in Present, Holds(entries[k], data, v) PROVE Stored[k] = v
  <2>1. entries[k] \in Entry /\ Stored[k] = Get(k)
    BY <1>2 DEF TypeOK, Present, HasKey, Stored
  <2>2. Get(k) = CHOOSE w \in Values : Holds(entries[k], data, w)
    BY DEF Get, Holds, Block
  <2>. QED
    BY <1>2, <2>1, <2>2, HoldsOne
<1>. QED
  BY <1>1, <1>2

LEMMA StoredIsNext ==
    ASSUME TypeOK', NEW k \in Keys
    PROVE  /\ k \notin Present' => Stored'[k] = NoEntry
           /\ \A v \in Values : k \in Present' /\ Holds(entries'[k], data', v) => Stored'[k] = v
<1>1. k \notin Present' => Stored'[k] = NoEntry
  BY DEF Stored, Present
<1>2. ASSUME NEW v \in Values, k \in Present', Holds(entries'[k], data', v) PROVE Stored'[k] = v
  <2>1. entries'[k] \in Entry /\ Stored'[k] = Get(k)'
    BY <1>2 DEF TypeOK, Present, HasKey, Stored
  <2>2. Get(k)' = CHOOSE w \in Values : Holds(entries'[k], data', w)
    BY DEF Get, Holds, Block
  <2>. QED
    BY <1>2, <2>1, <2>2, HoldsOne
<1>. QED
  BY <1>1, <1>2

\* What is stored for the keys that are present, and the room it takes.
LEMMA StoredValues ==
    ASSUME IInv
    PROVE  /\ \A k \in Keys \ Present : Stored[k] = NoEntry
           /\ \A k \in Present : /\ Stored[k] \in Values /\ Stored[k] # NoEntry
                                 /\ Holds(entries[k], data, Stored[k])
                                 /\ ValueEntriesCount(Stored[k]) = EntriesCount(entries[k].length)
<1>1. ASSUME NEW k \in Present
      PROVE  /\ Stored[k] \in Values /\ Holds(entries[k], data, Stored[k])
  <2>1. PICK v \in Values : Holds(entries[k], data, v)
    BY DEF IInv, WholeValues, Holds, Block
  <2>2. Stored[k] = v
    BY <2>1, StoredIs DEF IInv, Present
  <2>. QED
    BY <2>1, <2>2
<1>2. \A k \in Keys \ Present : Stored[k] = NoEntry
  BY StoredIs DEF IInv
<1>. QED
  BY <1>1, <1>2, NullAssumption DEF Holds, ValueEntriesCount

\* A step that leaves the keys ks their values stores the same for them.
LEMMA StoredStays ==
    ASSUME IInv, IInv', NEW ks \in SUBSET Present, ks \subseteq Present', KeepsValues(ks)
    PROVE  \A k \in ks : Stored'[k] = Stored[k]
<1> SUFFICES ASSUME NEW k \in ks PROVE Stored'[k] = Stored[k]
  OBVIOUS
<1>1. k \in Keys /\ Stored[k] \in Values /\ Holds(entries[k], data, Stored[k])
  BY StoredValues DEF Present
<1>2. Holds(entries'[k], data', Stored[k])
  BY <1>1 DEF KeepsValues
<1>3. TypeOK'
  BY DEF IInv
<1>. QED
  BY <1>1, <1>2, <1>3, StoredIsNext

LEMMA SameStored ==
    ASSUME UNCHANGED <<entries, data>>
    PROVE  Stored' = Stored
BY DEF Stored, HasKey, Get, Block

LEMMA SamePresent == ASSUME IInv PROVE Promise!Present = Present
BY StoredValues, NullAssumption DEF Promise!Present, Present

\* The instance counts with its own Cardinality, defined as this one is.
LEMMA SameCardinality == \A S : Promise!Cardinality(S) = Cardinality(S)
BY DEF Promise!Cardinality, Cardinality

\* The room in use is that of the bitmap: a unit of a value is one of its entries.
LEMMA RoomInUse ==
    ASSUME IInv
    PROVE  /\ Promise!Used = Cardinality(taken) /\ Cardinality(taken) \in Nat
           /\ FreeEntriesCount(taken) = MaxEntries - Promise!Used
<1> DEFINE n(k) == EntriesCount(entries[k].length)
           room == UNION {{k} \X (1 .. n(k)) : k \in Present}
           f == [p \in room |-> entries[p[1]].index + p[2] - 1]
<1>1. Promise!Room = room
  BY SamePresent, StoredValues DEF Promise!Room
<1>2. ASSUME NEW k \in Present
      PROVE  /\ entries[k].index \in Nat /\ n(k) \in Nat \ {0}
             /\ Block(k) = entries[k].index .. entries[k].index + n(k) - 1
  BY BlockProperties DEF IInv, Layout, Block, Span
<1> HIDE DEF n
<1>3. ASSUME NEW p \in room PROVE p[1] \in Present /\ p[2] \in 1 .. n(p[1]) /\ p = <<p[1], p[2]>>
  <2>1. PICK k \in Present : p \in {k} \X (1 .. n(k))
    OBVIOUS
  <2>. QED
    BY <2>1
<1>4. ASSUME NEW k \in Present, NEW j \in 1 .. n(k) PROVE <<k, j>> \in room
  <2>1. <<k, j>> \in {k} \X (1 .. n(k))
    OBVIOUS
  <2>. QED
    BY <2>1
<1>5. taken = UNION {Block(k) : k \in Present} /\ BlocksDisjoint /\ taken \subseteq Indexes
  BY DEF IInv, Layout, BitmapMatchesEntries, TypeOK
<1> HIDE DEF room
<1>6. ASSUME NEW p \in room PROVE f[p] \in Block(p[1])
  BY <1>2, <1>3
<1>7. f \in [room -> taken]
  BY <1>3, <1>5, <1>6
<1>8. ASSUME NEW p \in room, NEW q \in room, f[p] = f[q] PROVE p = q
  <2>1. p[1] = q[1]
    BY <1>3, <1>5, <1>6, <1>8 DEF BlocksDisjoint
  <2>2. p[2] = q[2]
    BY <1>2, <1>3, <1>8, <2>1
  <2>. QED
    BY <1>3, <2>1, <2>2
<1>9. ASSUME NEW i \in taken PROVE \E p \in room : f[p] = i
  <2>1. PICK k \in Present : i \in Block(k)
    BY <1>5
  <2>2. PICK j \in 1 .. n(k) : i = entries[k].index + j - 1
    <3>1. i - entries[k].index + 1 \in 1 .. n(k) /\ i = entries[k].index + (i - entries[k].index + 1) - 1
      BY <1>2, <2>1
    <3>. QED
      BY <3>1
  <2>3. <<k, j>> \in room /\ <<k, j>>[1] = k /\ <<k, j>>[2] = j
    BY <1>4
  <2>. QED
    BY <2>2, <2>3
<1> HIDE DEF f
<1>10. f \in Injection(room, taken)
  BY <1>7, <1>8 DEF Injection, IsInjective
<1>11. f \in Surjection(room, taken)
  BY <1>7, <1>9 DEF Surjection
<1>12. IsFiniteSet(taken)
  <2>1. IsFiniteSet(Indexes)
    BY FS_Interval, MaxEntriesAssumption DEF Indexes
  <2>. QED
    BY <1>5, <2>1, FS_Subset
<1>13. Cardinality(room) = Cardinality(taken)
  BY <1>10, <1>11, <1>12, FS_Injection
<1>14. Cardinality(taken) \in Nat
  BY <1>12, FS_CardinalityType
<1>. QED
  <2>1. Promise!Used = Cardinality(room)
    BY <1>1, SameCardinality DEF Promise!Used
  <2>2. FreeEntriesCount(taken) = MaxEntries - Cardinality(taken)
    BY DEF FreeEntriesCount
  <2>. QED
    BY <1>13, <1>14, <2>1, <2>2

\* Who can be given up is in the victims' list.
LEMMA WhoCanGo == ASSUME IInv PROVE Promise!EvictableKeys = KeysIn(replacement)
<1>1. \A k \in Present : Stored[k] \in Values /\ Length[Stored[k]] = entries[k].length
  BY StoredValues DEF Holds
<1>2. KeysIn(replacement) = {k \in Present : IsAtomic(entries[k].length)}
  BY DEF IInv, ReplacementMatchesEntries
<1>3. Promise!EvictableKeys = {k \in Present : Stored[k] \in {v \in Values : IsAtomic(Length[v])}}
  BY SamePresent DEF Promise!EvictableKeys
<1>. QED
  BY <1>1, <1>2, <1>3

\* Nothing is asked for while the instance waits, and something is in a SET.
RequestTells ==
    /\ pc \in {"idle", "compact"} => request = NoRequest
    /\ pc = "put" => request \in Request /\ request # NoRequest

\* A SET in progress, and what the abstract store says of it.
LEMMA InASet ==
    ASSUME IInv, RequestTells, pc = "put"
    PROVE  /\ request # NoRequest /\ request.key \in Keys /\ request.value \in Values
           /\ request \in Promise!Request
           /\ Promise!IsNew <=> ~HasKey(request.key)
           /\ EntriesNeeded \in Nat \ {0}
           /\ Promise!Fits(request.value) <=> FreeEntriesCount(taken) >= EntriesNeeded
<1>1. request \in Request /\ request # NoRequest /\ request.key \in Keys /\ request.value \in Values
  BY DEF RequestTells, Request
<1>2. Promise!IsNew <=> ~HasKey(request.key)
  BY <1>1, StoredValues DEF Promise!IsNew, Present
<1>3. EntriesNeeded \in Nat \ {0}
  BY <1>1, ValueCountType DEF EntriesNeeded
<1>4. Promise!Fits(request.value) <=> Promise!Used + EntriesNeeded <= MaxEntries
  BY <1>1 DEF Promise!Fits, EntriesNeeded
<1>5. Promise!Fits(request.value) <=> FreeEntriesCount(taken) >= EntriesNeeded
  BY <1>3, <1>4, RoomInUse, MaxEntriesAssumption
<1>. QED
  BY <1>1, <1>2, <1>3, <1>5 DEF Request, Promise!Request

LEMMA RequestTellsAlways == RequestTells /\ RequestPending' /\ [Next]_vars => RequestTells'
<1> SUFFICES ASSUME RequestTells, RequestPending', [Next]_vars PROVE RequestTells'
  OBVIOUS
<1>1. pc' = "put" => request' \in Request /\ request' # NoRequest
  BY NullAssumption DEF RequestPending
<1>2. pc' \in {"idle", "compact"} => request' = NoRequest
  BY DEF Next, Step, vars, RequestTells, UpdateBigger, Update, PutNeedsCompaction, PutFull, PutEvicts,
     PutPlaces, Place, Answer, CompactMoves, CompactEnds, Store, Put, StartCompaction
<1>. QED
  BY <1>1, <1>2 DEF RequestTells

\* The stutters: the moves of a compaction do not show.
LEMMA CompactStep ==
    ASSUME IInv, IInv', StartCompaction \/ CompactMoves \/ CompactEnds
    PROVE  UNCHANGED Promise!vars
<1>1. UNCHANGED <<request, result>>
  BY DEF StartCompaction, CompactMoves, CompactEnds
<1>2. Stored' = Stored
  <2>1. CASE StartCompaction \/ CompactEnds
    BY <2>1, SameStored DEF StartCompaction, CompactEnds
  <2>2. CASE CompactMoves
    <3>1. Present' = Present /\ KeepsValues(Present)
      BY <2>2, CompactMovesKeeps
    <3>2. \A k \in Present : Stored'[k] = Stored[k]
      BY <3>1, StoredStays
    <3>3. \A k \in Keys \ Present : Stored'[k] = Stored[k]
      BY <3>1, StoredIs, StoredIsNext DEF IInv
    <3>4. DOMAIN Stored = Keys /\ DOMAIN Stored' = Keys /\ Present \subseteq Keys
      BY DEF Stored, Present
    <3>5. \A k \in Keys : Stored'[k] = Stored[k]
      BY <3>2, <3>3
    <3>6. Stored = [k \in Keys |-> Stored[k]] /\ Stored' = [k \in Keys |-> Stored'[k]]
      BY DEF Stored
    <3>. QED
      BY <3>5, <3>6
  <2>. QED
    BY <2>1, <2>2
<1>. QED
  BY <1>1, <1>2 DEF Promise!vars

LEMMA PutStep ==
    ASSUME RequestTells, NEW k \in Keys, NEW v \in Values, Put(k, v)
    PROVE  Promise!Ask(k, v)
<1>1. Stored' = Stored
  BY SameStored DEF Put
<1>. QED
  BY <1>1 DEF Promise!Ask, Put, RequestTells

LEMMA StoreStep ==
    ASSUME IInv, RequestTells, NEW k \in Keys, Store(k)
    PROVE  Promise!Stores(k)
<1>1. Stored' = Stored
  BY SameStored DEF Store
<1>2. HasKey(k) <=> k \in Promise!Present
  BY SamePresent DEF Present
<1>. QED
  BY <1>1, <1>2 DEF Promise!Stores, Store, RequestTells

\* An old key: its size is the room it has.
LEMMA UpdateStep ==
    ASSUME IInv, IInv', RequestTells, Update \/ UpdateBigger
    PROVE  Promise!Replaces
<1> DEFINE key == request.key
<1>1. pc = "put" /\ HasKey(key)
  BY DEF Update, UpdateBigger
<1>2. /\ request # NoRequest /\ key \in Keys /\ request.value \in Values /\ ~Promise!IsNew
      /\ key \in Present
  BY <1>1, InASet DEF Present
<1>3. /\ Stored[key] \in Values
      /\ [v \in Values |-> ValueEntriesCount(v)][Stored[key]] = EntriesCount(entries[key].length)
      /\ [v \in Values |-> ValueEntriesCount(v)][request.value] = EntriesNeeded
  BY <1>2, StoredValues DEF EntriesNeeded
<1>4. EntriesNeeded \in Nat /\ EntriesCount(entries[key].length) \in Nat
  BY <1>1, <1>2, InASet, BlockProperties DEF IInv, Layout
<1> HIDE DEF key
<1>5. CASE UpdateBigger
  <2>1. Stored' = Stored
    BY <1>5, SameStored DEF UpdateBigger
  <2>2. ~(EntriesNeeded <= EntriesCount(entries[key].length))
    BY <1>4, <1>5 DEF UpdateBigger, key
  <2>. QED
    BY <1>2, <1>3, <1>5, <2>1, <2>2 DEF Promise!Replaces, Promise!Answer, UpdateBigger, Answer, key
<1>6. CASE Update
  <2>1. EntriesNeeded <= EntriesCount(entries[key].length) /\ request' = NoRequest /\ result' = "ok"
    BY <1>6 DEF Update, Answer, key
  <2>2. /\ Present' = Present /\ KeepsValues(Present \ {key})
        /\ Holds(entries'[key], data', request.value)
    BY <1>6, UpdateKeeps DEF key
  <2>3. Stored'[key] = request.value
    BY <1>2, <2>2, StoredIsNext DEF IInv
  <2>4. \A k \in Present \ {key} : Stored'[k] = Stored[k]
    BY <2>2, StoredStays
  <2>5. \A k \in Keys \ Present : Stored'[k] = Stored[k]
    BY <2>2, StoredIs, StoredIsNext DEF IInv
  <2>6. \A k \in Keys : Stored'[k] = [Stored EXCEPT ![key] = request.value][k]
    BY <1>2, <2>3, <2>4, <2>5 DEF Stored
  <2>7. Stored' = [k \in Keys |-> Stored'[k]] /\ Stored = [k \in Keys |-> Stored[k]]
    BY DEF Stored
  <2>8. Stored' = [Stored EXCEPT ![key] = request.value]
    BY <2>6, <2>7
  <2>. QED
    BY <1>2, <1>3, <2>1, <2>8 DEF Promise!Replaces, Promise!Answer, key
<1>. QED
  BY <1>5, <1>6

LEMMA NeedsCompactionStep ==
    ASSUME IInv, RequestTells, PutNeedsCompaction
    PROVE  Promise!AsksForCompaction
<1>1. Stored' = Stored
  BY SameStored DEF PutNeedsCompaction
<1>2. request # NoRequest /\ Promise!IsNew /\ Promise!Fits(request.value)
  BY InASet DEF PutNeedsCompaction, NeedCompaction
<1>. QED
  BY <1>1, <1>2 DEF Promise!AsksForCompaction, Promise!Answer, PutNeedsCompaction, Answer

LEMMA FullStep ==
    ASSUME IInv, RequestTells, PutFull
    PROVE  Promise!Rejects
<1>1. Stored' = Stored
  BY SameStored DEF PutFull
<1>2. request # NoRequest /\ Promise!IsNew /\ ~Promise!Fits(request.value)
  <2>1. EntriesNeeded \in Nat /\ FreeEntriesCount(taken) \in Int
    BY InASet, RoomInUse, MaxEntriesAssumption DEF PutFull, FreeEntriesCount
  <2>. QED
    BY <2>1, InASet DEF PutFull
<1>3. Promise!EvictableKeys = {}
  BY WhoCanGo DEF PutFull, ReplacementIsEmpty, KeysIn
<1>. QED
  BY <1>1, <1>2, <1>3 DEF Promise!Rejects, Promise!Answer, PutFull, Answer

LEMMA EvictsStep ==
    ASSUME IInv, IInv', RequestTells, PutEvicts
    PROVE  Promise!Evicts
<1>1. request # NoRequest /\ Promise!IsNew /\ ~Promise!Fits(request.value)
  <2>1. EntriesNeeded \in Nat /\ FreeEntriesCount(taken) \in Int
    BY InASet, RoomInUse, MaxEntriesAssumption DEF PutEvicts, FreeEntriesCount
  <2>. QED
    BY <2>1, InASet DEF PutEvicts
<1>2. PICK victim \in KeysIn(replacement) : entries' = [entries EXCEPT ![victim] = NoEntry]
  <2>1. replacement \in Seq(Item(Keys)) /\ replacement # << >>
    BY DEF IInv, TypeOK, Item, PutEvicts, ReplacementIsEmpty
  <2>2. 1 \in DOMAIN replacement /\ ReplacementTake(replacement) = replacement[1].key
    BY <2>1 DEF ReplacementTake
  <2>. QED
    BY <2>2 DEF PutEvicts, KeysIn
<1>3. UNCHANGED <<data, request, result>>
  BY DEF PutEvicts
<1>4. victim \in Present /\ victim \in Keys
  BY DEF IInv, ReplacementMatchesEntries, Present
<1>5. \A k \in Keys : entries'[k] = IF k = victim THEN NoEntry ELSE entries[k]
  BY <1>2 DEF IInv, TypeOK
<1>6. Present' = Present \ {victim}
  BY <1>5 DEF Present, HasKey
<1>7. KeepsValues(Present \ {victim})
  BY <1>3, <1>5 DEF KeepsValues, Present
<1>8. \A k \in Present \ {victim} : Stored'[k] = Stored[k]
  BY <1>6, <1>7, StoredStays
<1>9. \A k \in Keys \ Present : Stored'[k] = Stored[k]
  BY <1>6, StoredIs, StoredIsNext DEF IInv
<1>10. Stored'[victim] = NoEntry
  BY <1>4, <1>6, StoredIsNext DEF IInv
<1>11. \A k \in Keys : Stored'[k] = [Stored EXCEPT ![victim] = NoEntry][k]
  BY <1>4, <1>8, <1>9, <1>10 DEF Stored
<1>12. Stored' = [k \in Keys |-> Stored'[k]] /\ Stored = [k \in Keys |-> Stored[k]]
  BY DEF Stored
<1>13. Stored' = [Stored EXCEPT ![victim] = NoEntry]
  BY <1>11, <1>12
<1>14. victim \in Promise!EvictableKeys
  BY WhoCanGo
<1>. QED
  BY <1>1, <1>3, <1>13, <1>14 DEF Promise!Evicts

LEMMA PlacesStep ==
    ASSUME IInv, IInv', RequestTells, PutPlaces
    PROVE  Promise!Inserts
<1> DEFINE key == request.key
<1>1. /\ request # NoRequest /\ key \in Keys /\ request.value \in Values /\ Promise!IsNew
      /\ Promise!Fits(request.value)
  BY InASet DEF PutPlaces
<1>2. HasFreeContinuousSpace(taken, EntriesNeeded)
  BY DEF PutPlaces, NeedCompaction
<1>3. PICK i \in Indexes : FindsFreeContinuousIndex(taken, EntriesNeeded, i) /\ Place(i)
  BY <1>2 DEF PutPlaces
<1>4. /\ Present' = Present \cup {key} /\ KeepsValues(Present)
      /\ Holds(entries'[key], data', request.value)
  BY <1>3, PlaceKeeps DEF PutPlaces
<1>5. request' = NoRequest /\ result' = "ok"
  BY <1>3 DEF Place, Answer
<1>6. key \notin Present
  BY DEF PutPlaces, Present
<1> HIDE DEF key
<1>7. Stored'[key] = request.value
  BY <1>1, <1>4, StoredIsNext DEF IInv
<1>8. \A k \in Present : Stored'[k] = Stored[k]
  BY <1>4, StoredStays
<1>9. \A k \in Keys \ Present : k # key => Stored'[k] = Stored[k]
  BY <1>4, StoredIs, StoredIsNext DEF IInv
<1>10. \A k \in Keys : Stored'[k] = [Stored EXCEPT ![key] = request.value][k]
  BY <1>1, <1>6, <1>7, <1>8, <1>9 DEF Stored
<1>11. Stored' = [k \in Keys |-> Stored'[k]] /\ Stored = [k \in Keys |-> Stored[k]]
  BY DEF Stored
<1>12. Stored' = [Stored EXCEPT ![key] = request.value]
  BY <1>10, <1>11
<1>. QED
  BY <1>1, <1>5, <1>12 DEF Promise!Inserts, Promise!Answer, key

\* The table, its bitmap, its buffer, the victims' list and the compactions
\* implement KeyValueStore: every step is one of the abstract store's, or does not
\* show (entry_table_put, entry_table_store, entry_table_compact).
THEOREM PromiseIsKept == Spec => KeepsItsPromise
<1>1. Init => Promise!Init /\ RequestTells
  <2> SUFFICES ASSUME Init PROVE Promise!Init /\ RequestTells
    OBVIOUS
  <2>1. \A k \in Keys : ~HasKey(k)
    BY DEF Init, HasKey
  <2>2. Stored = [k \in Keys |-> NoEntry]
    BY <2>1 DEF Stored
  <2>. QED
    BY <2>2 DEF Init, Promise!Init, RequestTells
<1>2. IInv /\ RequestTells /\ [Next]_vars => RequestTells'
  BY NextIInv, RequestTellsAlways DEF IInv
<1>3. IInv /\ RequestTells /\ [Next]_vars => [Promise!Next]_(Promise!vars)
  <2> SUFFICES ASSUME IInv, RequestTells, [Next]_vars PROVE [Promise!Next]_(Promise!vars)
    OBVIOUS
  <2>1. IInv'
    BY NextIInv
  <2>2. CASE UNCHANGED vars
    <3>1. UNCHANGED <<Stored, request, result>>
      BY <2>2, SameStored DEF vars
    <3>. QED
      BY <3>1 DEF Promise!vars
  <2>3. CASE StartCompaction \/ CompactMoves \/ CompactEnds
    BY <2>1, <2>3, CompactStep
  <2>4. CASE Update \/ UpdateBigger
    BY <2>1, <2>4, UpdateStep DEF Promise!Next
  <2>5. CASE PutNeedsCompaction
    BY <2>5, NeedsCompactionStep DEF Promise!Next
  <2>6. CASE PutFull
    BY <2>6, FullStep DEF Promise!Next
  <2>7. CASE PutEvicts
    BY <2>1, <2>7, EvictsStep DEF Promise!Next
  <2>8. CASE PutPlaces
    BY <2>1, <2>8, PlacesStep DEF Promise!Next
  <2>9. ASSUME NEW k \in Keys, Store(k) \/ \E v \in Values : Put(k, v)
        PROVE  Promise!Next
    BY <2>9, StoreStep, PutStep DEF Promise!Next
  <2>. QED
    BY <2>2, <2>3, <2>4, <2>5, <2>6, <2>7, <2>8, <2>9 DEF Next, Step
<1>. QED
  BY <1>1, <1>2, <1>3, Invariance, PTL DEF Spec, KeepsItsPromise, Promise!Spec

=============================================================================
