-------------------------- MODULE Dictionary_proofs --------------------------
(***************************************************************************)
(* The hash table of Dictionary, for every hash and every size: its        *)
(* buckets, and that it keeps the queues of KeyedQueues.                   *)
(***************************************************************************)
EXTENDS MCDictionary, SequencesExt, TLAPS, WellFoundedInduction, SequenceTheorems,
        FiniteSetTheorems

Tables == Seq(Seq(Element)) \ {<< >>}

\* Every element of a table is in the bucket of its key.
Placed(table) ==
    \A b \in DOMAIN table : \A i \in DOMAIN table[b] : Bucket(table[b][i].key, table) = b

IInv == TypeOK /\ InItsBucket /\ CountsItsBuckets

-----------------------------------------------------------------------------
(* Tables *)

\* Every key has a bucket in every table.
LEMMA BucketInTable ==
    ASSUME NEW table \in Tables, NEW k \in Keys
    PROVE  Bucket(k, table) \in DOMAIN table
<1>1. Len(table) \in Nat \ {0} /\ DOMAIN table = 1 .. Len(table)
  BY DEF Tables
<1>2. Hash[k] \in Nat
  BY HashAssumption
<1>3. Hash[k] % Len(table) \in 0 .. Len(table) - 1
  BY <1>1, <1>2
<1> QED
  BY <1>1, <1>3 DEF Bucket

\* A new table has nothing in it.
LEMMA EmptyTable ==
    ASSUME NEW size \in Nat \ {0}
    PROVE  /\ Empty(size) \in Tables
           /\ Placed(Empty(size))
           /\ InUse(Empty(size)) = {}
           /\ Cardinality(InUse(Empty(size))) = 0
<1>1. Empty(size) \in Seq(Seq(Element)) /\ Len(Empty(size)) = size
  BY EmptySeq DEF Empty
<1>2. Empty(size) # << >>
  BY <1>1
<1>3. \A b \in DOMAIN Empty(size) : Empty(size)[b] = << >> /\ DOMAIN Empty(size)[b] = {}
  BY DEF Empty
<1>4. Placed(Empty(size)) /\ InUse(Empty(size)) = {}
  BY <1>3 DEF Placed, InUse
<1> QED
  BY <1>1, <1>2, <1>4, FS_EmptySet DEF Tables

LEMMA InUseFinite ==
    ASSUME NEW table \in Tables
    PROVE  IsFiniteSet(InUse(table)) /\ Cardinality(InUse(table)) \in Nat
<1>1. InUse(table) \in SUBSET (1 .. Len(table)) /\ Len(table) \in Nat
  BY DEF InUse, Tables
<1>2. IsFiniteSet(1 .. Len(table))
  BY <1>1, FS_Interval
<1>3. IsFiniteSet(InUse(table))
  BY <1>1, <1>2, FS_Subset
<1> QED
  BY <1>3, FS_CardinalityType

\* Link puts an element where a search for its key begins, moves no other, and
\* Linked counts the bucket that it may open.
LEMMA LinkKeeps ==
    ASSUME NEW table \in Tables, Placed(table), NEW e \in Element,
           NEW n, n = Cardinality(InUse(table))
    PROVE  /\ Link(table, e) \in Tables
           /\ Placed(Link(table, e))
           /\ Linked(table, e, n) = Cardinality(InUse(Link(table, e)))
<1> DEFINE c == Bucket(e.key, table)
           new == Link(table, e)
<1>1. e.key \in Keys
  BY DEF Element
<1>2. c \in DOMAIN table /\ DOMAIN table = 1 .. Len(table) /\ Len(table) \in Nat
  BY <1>1, BucketInTable DEF Tables
<1>3. table[c] \in Seq(Element)
  BY <1>2 DEF Tables
<1>4. Append(table[c], e) \in Seq(Element) /\ Append(table[c], e) # << >>
  BY <1>3
<1>5. new = [table EXCEPT ![c] = Append(table[c], e)]
  BY DEF Link
<1>6. new \in Seq(Seq(Element)) /\ Len(new) = Len(table) /\ DOMAIN new = DOMAIN table
  BY <1>2, <1>4, <1>5 DEF Tables
<1>7. new \in Tables
  BY <1>2, <1>6 DEF Tables
<1>8. \A k : Bucket(k, new) = Bucket(k, table)
  BY <1>6 DEF Bucket
<1>9. Placed(new)
  <2> SUFFICES ASSUME NEW b \in DOMAIN new, NEW i \in DOMAIN new[b]
               PROVE  Bucket(new[b][i].key, table) = b
    BY <1>8 DEF Placed
  <2>1. CASE b # c
    <3>1. new[b] = table[b]
      BY <2>1, <1>5, <1>6
    <3> QED
      BY <3>1, <1>6 DEF Placed
  <2>2. CASE b = c
    <3>1. new[b] = Append(table[c], e)
      BY <2>2, <1>2, <1>5
    <3>2. CASE i = Len(table[c]) + 1
      <4>1. new[b][i] = e
        BY <3>1, <3>2, <1>3
      <4> QED
        BY <4>1, <2>2
    <3>3. CASE i \in DOMAIN table[c]
      <4>1. new[b][i] = table[c][i]
        BY <3>1, <3>3, <1>3
      <4> QED
        BY <4>1, <3>3, <2>2, <1>2 DEF Placed
    <3>4. i \in DOMAIN table[c] \/ i = Len(table[c]) + 1
      BY <3>1, <1>3
    <3> QED
      BY <3>2, <3>3, <3>4
  <2> QED
    BY <2>1, <2>2
<1>10. InUse(new) = InUse(table) \cup {c}
  BY <1>2, <1>4, <1>5, <1>6 DEF InUse
<1>11. IsFiniteSet(InUse(table))
  BY InUseFinite
<1>12. c \in InUse(table) <=> table[c] # << >>
  BY <1>2 DEF InUse
<1>13. Cardinality(InUse(new)) = IF table[c] # << >> THEN n ELSE n + 1
  BY <1>10, <1>11, <1>12, FS_AddElement
<1> QED
  BY <1>7, <1>9, <1>13 DEF Linked

\* What is left of a chain keeps its order.
LEMMA WithoutKeeps ==
    ASSUME NEW chain \in Seq(Element), NEW i \in 1 .. Len(chain)
    PROVE  /\ Without(chain, i) \in Seq(Element)
           /\ Len(Without(chain, i)) = Len(chain) - 1
           /\ \A j \in DOMAIN Without(chain, i) :
                Without(chain, i)[j] = IF j < i THEN chain[j] ELSE chain[j + 1]
<1> DEFINE one == SubSeq(chain, 1, i - 1)
           two == SubSeq(chain, i + 1, Len(chain))
<1>0. PICK n \in Nat : n = Len(chain)
  OBVIOUS
<1>1. i \in 1 .. n /\ DOMAIN chain = 1 .. n /\ \A j \in 1 .. n : chain[j] \in Element
  BY <1>0
<1>2. /\ one \in Seq(Element) /\ Len(one) = i - 1
      /\ \A j \in 1 .. i - 1 : one[j] = chain[j]
  <2>1. \A j \in 1 .. i - 1 : chain[j] \in Element
    BY <1>1
  <2>2. /\ one \in Seq(Element)
        /\ Len(one) = IF 1 <= i - 1 THEN (i - 1) - 1 + 1 ELSE 0
        /\ \A j \in 1 .. (i - 1) - 1 + 1 : one[j] = chain[1 + j - 1]
    BY <2>1, <1>1, SubSeqProperties
  <2> HIDE DEF one
  <2>3. \A j \in 1 .. i - 1 : j \in 1 .. (i - 1) - 1 + 1 /\ 1 + j - 1 = j
    BY <1>1
  <2> QED
    BY <2>2, <2>3, <1>1
<1>3. /\ two \in Seq(Element) /\ Len(two) = n - i
      /\ \A j \in 1 .. n - i : two[j] = chain[i + j]
  <2>1. \A j \in i + 1 .. n : chain[j] \in Element
    BY <1>1
  <2>2. /\ two \in Seq(Element)
        /\ Len(two) = IF i + 1 <= n THEN n - (i + 1) + 1 ELSE 0
        /\ \A j \in 1 .. n - (i + 1) + 1 : two[j] = chain[(i + 1) + j - 1]
    BY <2>1, <1>0, <1>1, SubSeqProperties
  <2> HIDE DEF two
  <2>3. \A j \in 1 .. n - i : j \in 1 .. n - (i + 1) + 1 /\ (i + 1) + j - 1 = i + j
    BY <1>0, <1>1
  <2>4. Len(two) = n - i
    BY <2>2, <1>0, <1>1
  <2> QED
    BY <2>2, <2>3, <2>4
<1> DEFINE rest == one \o two
<1>4. rest = Without(chain, i)
  BY DEF Without
<1> HIDE DEF one, two
<1>5. /\ rest \in Seq(Element)
      /\ Len(rest) = Len(one) + Len(two)
      /\ \A j \in 1 .. Len(one) + Len(two) :
           rest[j] = IF j <= Len(one) THEN one[j] ELSE two[j - Len(one)]
  BY <1>2, <1>3, ConcatProperties
<1> HIDE DEF rest
<1>6. Len(rest) = n - 1 /\ DOMAIN rest = 1 .. n - 1
  BY <1>0, <1>1, <1>2, <1>3, <1>5
<1>7. ASSUME NEW j \in 1 .. n - 1
      PROVE  rest[j] = IF j < i THEN chain[j] ELSE chain[j + 1]
  <2>1. rest[j] = IF j <= i - 1 THEN one[j] ELSE two[j - (i - 1)]
    BY <1>0, <1>1, <1>2, <1>3, <1>5
  <2>2. CASE j <= i - 1
    BY <2>1, <2>2, <1>0, <1>1, <1>2
  <2>3. CASE j > i - 1
    <3>1. j - (i - 1) \in 1 .. n - i /\ i + (j - (i - 1)) = j + 1
      BY <2>3, <1>0, <1>1
    <3> QED
      BY <2>1, <2>3, <3>1, <1>0, <1>1, <1>3
  <2> QED
    BY <2>2, <2>3, <1>0, <1>1
<1> QED
  BY <1>0, <1>1, <1>4, <1>5, <1>6, <1>7

\* An element found can be taken out: no other moves to another bucket, and
\* SizeWithout counts the bucket out when it was the last one of its chain.
LEMMA RemovalKeeps ==
    ASSUME IInv, NEW k \in Keys, NEW i \in Found(k)
    PROVE  LET b == Bucket(k, elements) IN
           /\ TableWithout(b, i) \in Tables
           /\ Placed(TableWithout(b, i))
           /\ SizeWithout(b) = Cardinality(InUse(TableWithout(b, i)))
<1> DEFINE b   == Bucket(k, elements)
           new == TableWithout(b, i)
<1>1. elements \in Tables /\ table_current_size \in Nat
  BY DEF IInv, TypeOK, Tables
<1>2. b \in DOMAIN elements /\ DOMAIN elements = 1 .. Len(elements) /\ Len(elements) \in Nat
  BY <1>1, BucketInTable DEF Tables
<1>3. elements[b] \in Seq(Element)
  BY <1>1, <1>2 DEF Tables
<1>4. i \in 1 .. Len(elements[b])
  BY <1>3 DEF Found
<1> DEFINE rest == Without(elements[b], i)
<1>5. /\ rest \in Seq(Element) /\ Len(rest) = Len(elements[b]) - 1
      /\ \A j \in DOMAIN rest : \E l \in DOMAIN elements[b] : rest[j] = elements[b][l]
  <2>1. /\ rest \in Seq(Element) /\ Len(rest) = Len(elements[b]) - 1
        /\ \A j \in DOMAIN rest :
             rest[j] = IF j < i THEN elements[b][j] ELSE elements[b][j + 1]
    BY <1>3, <1>4, WithoutKeeps
  <2> HIDE DEF rest
  <2>2. \A j \in DOMAIN rest : j \in DOMAIN elements[b] /\ j + 1 \in DOMAIN elements[b]
    BY <2>1, <1>3
  <2> QED
    BY <2>1, <2>2
<1>6. new = [elements EXCEPT ![b] = rest]
  BY DEF TableWithout
<1> HIDE DEF rest
<1>7. new \in Seq(Seq(Element)) /\ Len(new) = Len(elements) /\ DOMAIN new = DOMAIN elements
  BY <1>1, <1>2, <1>5, <1>6 DEF Tables
<1>8. new \in Tables
  BY <1>1, <1>2, <1>7 DEF Tables
<1>9. \A c \in DOMAIN new : new[c] = IF c = b THEN rest ELSE elements[c]
  BY <1>2, <1>6, <1>7
<1>10. Placed(elements)
  BY DEF IInv, InItsBucket, Placed
<1>11. Placed(new)
  <2> SUFFICES ASSUME NEW c \in DOMAIN new, NEW j \in DOMAIN new[c]
               PROVE  Bucket(new[c][j].key, new) = c
    BY DEF Placed
  <2>1. \E l \in DOMAIN elements[c] : new[c][j] = elements[c][l]
    <3>1. CASE c = b
      BY <3>1, <1>5, <1>9
    <3>2. CASE c # b
      BY <3>2, <1>9
    <3> QED
      BY <3>1, <3>2
  <2>2. Bucket(new[c][j].key, elements) = c
    BY <2>1, <1>7, <1>10 DEF Placed
  <2> QED
    BY <2>2, <1>7 DEF Bucket
<1>12. IsFiniteSet(InUse(elements)) /\ Cardinality(InUse(elements)) = table_current_size
  BY <1>1, InUseFinite DEF IInv, CountsItsBuckets
<1>13. b \in InUse(elements)
  BY <1>2, <1>3, <1>4 DEF InUse
<1>14. SizeWithout(b) = Cardinality(InUse(new))
  <2>1. CASE Len(elements[b]) = 1
    <3>1. rest = << >>
      BY <2>1, <1>5
    <3>2. InUse(new) = InUse(elements) \ {b}
      BY <3>1, <1>7, <1>9 DEF InUse
    <3> QED
      BY <2>1, <3>2, <1>12, <1>13, FS_RemoveElement DEF SizeWithout
  <2>2. CASE Len(elements[b]) # 1
    <3>1. Len(rest) # 0
      BY <2>2, <1>3, <1>4, <1>5
    <3>2. rest # << >>
      BY <3>1
    <3>3. InUse(new) = InUse(elements)
      BY <3>2, <1>7, <1>9, <1>13 DEF InUse
    <3> QED
      BY <2>2, <3>3, <1>12 DEF SizeWithout
  <2> QED
    BY <2>1, <2>2
<1> QED
  BY <1>8, <1>11, <1>14

-----------------------------------------------------------------------------
(* Steps *)

\* dictionary_put keeps the invariant of the table that it is given.
LEMMA PutIntoKeeps ==
    ASSUME IInv, NEW table \in Tables, Placed(table), NEW e \in Element,
           NEW amount \in Int,
           PutInto(table, Cardinality(InUse(table)), amount, e)
    PROVE  IInv'
<1> DEFINE n == Cardinality(InUse(table))
<1>1. n \in Nat /\ Linked(table, e, n) \in Nat
  BY InUseFinite DEF Linked
<1>2. /\ Link(table, e) \in Tables
      /\ Placed(Link(table, e))
      /\ Linked(table, e, n) = Cardinality(InUse(Link(table, e)))
  BY LinkKeeps
<1>3. elements_amount' \in Int
  BY DEF PutInto
<1>4. CASE Linked(table, e, n) > n /\ Linked(table, e, n) >= Len(table)
  <2>1. /\ old_table' = Link(table, e)
        /\ elements' = Empty(Len(table) * 2)
        /\ table_current_size' = 0
    BY <1>4 DEF PutInto
  <2>2. Len(table) * 2 \in Nat \ {0}
    BY DEF Tables
  <2>3. /\ elements' \in Tables /\ Placed(elements')
        /\ Cardinality(InUse(elements')) = 0
    BY <2>1, <2>2, EmptyTable
  <2> QED
    BY <2>1, <2>3, <1>2, <1>3
       DEF IInv, TypeOK, Tables, InItsBucket, Placed, CountsItsBuckets
<1>5. CASE ~(Linked(table, e, n) > n /\ Linked(table, e, n) >= Len(table))
  <2>1. /\ elements' = Link(table, e)
        /\ table_current_size' = Linked(table, e, n)
        /\ UNCHANGED old_table
    BY <1>5 DEF PutInto
  <2> QED
    BY <2>1, <1>1, <1>2, <1>3
       DEF IInv, TypeOK, Tables, InItsBucket, Placed, CountsItsBuckets
<1> QED
  BY <1>4, <1>5

LEMMA InvariantOfTable ==
    ASSUME IInv
    PROVE  /\ elements \in Tables /\ Placed(elements) /\ elements_amount \in Int
           /\ table_current_size = Cardinality(InUse(elements))
BY DEF IInv, TypeOK, Tables, InItsBucket, Placed, CountsItsBuckets

LEMMA InitKeeps == Init => IInv
<1> SUFFICES ASSUME Init PROVE IInv
  OBVIOUS
<1>1. /\ elements \in Tables /\ Placed(elements)
      /\ Cardinality(InUse(elements)) = 0
  BY SizeAssumption, EmptyTable DEF Init
<1>2. old_table \in Seq(Seq(Element))
  BY EmptySeq DEF Init
<1> QED
  BY <1>1, <1>2 DEF Init, IInv, TypeOK, Tables, InItsBucket, Placed, CountsItsBuckets

LEMMA PutKeeps ==
    ASSUME IInv, NEW k \in Keys, NEW d \in Data, Put(k, d)
    PROVE  IInv'
<1>1. [key |-> k, data |-> d] \in Element
  BY DEF Element
<1> QED
  BY <1>1, InvariantOfTable, PutIntoKeeps DEF Put

LEMMA RelinkKeeps ==
    ASSUME IInv, Relink
    PROVE  IInv'
<1>1. PICK b \in InUse(old_table) :
        /\ elements' = Link(elements, Head(old_table[b]))
        /\ old_table' = [old_table EXCEPT ![b] = Tail(@)]
        /\ table_current_size' = Linked(elements, Head(old_table[b]), table_current_size)
        /\ UNCHANGED elements_amount
  BY DEF Relink
<1>2. old_table \in Seq(Seq(Element)) /\ old_table[b] \in Seq(Element) /\ old_table[b] # << >>
  BY DEF IInv, TypeOK, InUse
<1>3. Head(old_table[b]) \in Element /\ Tail(old_table[b]) \in Seq(Element)
  BY <1>2, HeadTailProperties
<1>4. old_table' \in Seq(Seq(Element))
  BY <1>1, <1>2, <1>3 DEF InUse
<1>5. /\ elements' \in Tables /\ Placed(elements')
      /\ table_current_size' = Cardinality(InUse(elements'))
  BY <1>1, <1>3, InvariantOfTable, LinkKeeps
<1>6. table_current_size' \in Nat
  BY <1>5, InUseFinite
<1> QED
  BY <1>1, <1>4, <1>5, <1>6 DEF IInv, TypeOK, Tables, InItsBucket, Placed, CountsItsBuckets

LEMMA RemoveKeyKeeps ==
    ASSUME IInv, NEW k \in Keys, RemoveKey(k)
    PROVE  IInv'
<1>1. elements_amount' \in Int
  BY DEF RemoveKey, Counted, IInv, TypeOK
<1>2. old_table' \in Seq(Seq(Element))
  BY DEF RemoveKey, IInv, TypeOK
<1>3. CASE Found(k) = {}
  <2>1. UNCHANGED <<elements, table_current_size>>
    BY <1>3 DEF RemoveKey
  <2> QED
    BY <2>1, <1>1, <1>2
       DEF IInv, TypeOK, InItsBucket, CountsItsBuckets, InUse, Bucket
<1>4. CASE Found(k) # {}
  <2>1. PICK i \in Found(k) :
          /\ elements' = TableWithout(Bucket(k, elements), i)
          /\ table_current_size' = SizeWithout(Bucket(k, elements))
    BY <1>4 DEF RemoveKey
  <2>2. /\ elements' \in Tables /\ Placed(elements')
        /\ table_current_size' = Cardinality(InUse(elements'))
    BY <2>1, RemovalKeeps
  <2>3. table_current_size' \in Nat
    BY <2>2, InUseFinite
  <2> QED
    BY <2>2, <2>3, <1>1, <1>2
       DEF IInv, TypeOK, Tables, InItsBucket, Placed, CountsItsBuckets
<1> QED
  BY <1>3, <1>4

LEMMA PutPostaKeeps ==
    ASSUME IInv, NEW k \in Keys, NEW d \in Data, PutPosta(k, d)
    PROVE  IInv'
<1> DEFINE e == [key |-> k, data |-> d]
<1>1. e \in Element
  BY DEF Element
<1> HIDE DEF e
<1>2. CASE Get(k) = NULL
  <2>1. PutInto(elements, table_current_size, elements_amount, e)
    BY <1>2 DEF PutPosta, e
  <2> QED
    BY <2>1, <1>1, InvariantOfTable, PutIntoKeeps
<1>3. CASE Get(k) # NULL
  <2>1. PICK i \in Found(k) :
          PutInto(TableWithout(Bucket(k, elements), i), SizeWithout(Bucket(k, elements)),
                  elements_amount - 1, e)
    BY <1>3 DEF PutPosta, e
  <2>2. elements_amount - 1 \in Int
    BY InvariantOfTable
  <2> QED
    BY <2>1, <2>2, <1>1, RemovalKeeps, PutIntoKeeps
<1> QED
  BY <1>2, <1>3

LEMMA CleanKeeps ==
    ASSUME IInv, Clean
    PROVE  IInv'
<1>1. Len(elements) \in Nat \ {0}
  BY DEF IInv, TypeOK
<1>2. /\ elements' \in Tables /\ Placed(elements')
      /\ Cardinality(InUse(elements')) = 0
  BY <1>1, EmptyTable DEF Clean
<1> QED
  BY <1>2 DEF Clean, IInv, TypeOK, Tables, InItsBucket, Placed, CountsItsBuckets

LEMMA StepKeeps == IInv /\ [Next]_vars => IInv'
<1> SUFFICES ASSUME IInv, [Next]_vars PROVE IInv'
  OBVIOUS
<1>1. CASE UNCHANGED vars
  BY <1>1 DEF vars, IInv, TypeOK, InItsBucket, CountsItsBuckets, InUse, Bucket
<1>2. CASE Next
  BY <1>2, RelinkKeeps, CleanKeeps, RemoveKeyKeeps, PutKeeps, PutPostaKeeps DEF Next
<1> QED
  BY <1>1, <1>2

-----------------------------------------------------------------------------

LEMMA InvariantHolds == Spec => []IInv
BY InitKeeps, StepKeeps, PTL DEF Spec

\* The types of the table, of what is left to link again and of the counters.
THEOREM DictionaryTypes == Spec => []TypeOK
BY InvariantHolds, PTL DEF IInv

\* The search for a key and the place of its elements agree, whatever puts,
\* removals and resizings came between.
THEOREM ElementsInTheirBuckets == Spec => []InItsBucket
BY InvariantHolds, PTL DEF IInv

\* The count that decides when the table grows is right, also in the middle of
\* dictionary_resize and after the removals that empty a chain.
THEOREM BucketsCounted == Spec => []CountsItsBuckets
BY InvariantHolds, PTL DEF IInv

\* A non-empty set of naturals has a least element, which Min returns: a loop
\* over a list that looks for a place stops at the first one.
LEMMA MinIsLeast ==
    ASSUME NEW S \in SUBSET Nat, S # {}
    PROVE  /\ Min(S) \in S
           /\ \A y \in S : Min(S) <= y
<1> DEFINE R == {ss \in Nat \X Nat : ss[1] < ss[2]}
<1>1. OpToRel(<, Nat) = R
  BY Zenon DEF OpToRel
<1>2. IsWellFoundedOn(R, Nat)
  BY <1>1, NatLessThanWellFounded, Zenon
<1> HIDE DEF R
<1>3. PICK x \in S : \A y \in S : ~(<<y, x>> \in R)
  BY <1>2, WFMin, Zenon
<1>4. \A y \in S : x <= y
  <2> SUFFICES ASSUME NEW y \in S PROVE x <= y
    OBVIOUS
  <2>1. ~(<<y, x>> \in R)
    BY <1>3
  <2>2. x \in Nat /\ y \in Nat
    OBVIOUS
  <2>3. y < x => <<y, x>> \in R
    BY <2>2 DEF R
  <2>. QED
    BY <2>1, <2>2, <2>3
<1>. QED
  BY <1>4 DEF Min

\* What is in its bucket is found: the search stops at the first of the chain
\* with the hash of the key, and there is a first one.
LEMMA PlacedIsFound == IInv => StoredIsFound
<1> SUFFICES ASSUME IInv, NEW b \in DOMAIN elements, NEW i \in DOMAIN elements[b]
             PROVE  Found(elements[b][i].key) # {}
  BY DEF StoredIsFound
<1> DEFINE k    == elements[b][i].key
           same == {j \in DOMAIN elements[b] : Hash[elements[b][j].key] = Hash[k]}
<1>1. Bucket(k, elements) = b
  BY DEF IInv, InItsBucket
<1>2. elements[b] \in Seq(Element) /\ DOMAIN elements[b] = 1 .. Len(elements[b])
      /\ Len(elements[b]) \in Nat
  BY DEF IInv, TypeOK
<1>3. same \in SUBSET Nat /\ i \in same
  BY <1>2
<1>4. Min(same) \in same /\ \A j \in same : Min(same) <= j
  BY <1>3, MinIsLeast
<1> DEFINE first == Min(same)
<1> HIDE DEF same, first
<1>5. first \in 1 .. Len(elements[b]) /\ Hash[elements[b][first].key] = Hash[k]
  BY <1>2, <1>4 DEF same, first
<1>6. ASSUME NEW j \in 1 .. first - 1, Hash[elements[b][j].key] = Hash[k]
      PROVE  FALSE
  <2>1. j \in same
    BY <1>2, <1>5, <1>6 DEF same
  <2>2. first <= j
    BY <2>1, <1>4 DEF first
  <2> QED
    BY <2>2, <1>5
<1>7. first \in Found(k)
  BY <1>1, <1>2, <1>5, <1>6 DEF Found
<1> QED
  BY <1>7

\* dictionary_get never misses an element that was put and not removed.
THEOREM StoredElementsFound == Spec => []StoredIsFound
BY InvariantHolds, PlacedIsFound, PTL

-----------------------------------------------------------------------------
(* What a chain holds of a hash *)

LEMMA UpToTheLast ==
  ASSUME NEW n \in Nat, NEW P, 0 \in P, \A i \in 1 .. n : i - 1 \in P => i \in P
  PROVE  \A i \in 0 .. n : i \in P
<1> DEFINE outside == {i \in 0 .. n : i \notin P}
<1>1. ASSUME outside # {} PROVE FALSE
  <2>1. Min(outside) \in outside /\ \A y \in outside : Min(outside) <= y
    BY <1>1, MinIsLeast
  <2> DEFINE m == Min(outside)
  <2> HIDE DEF m
  <2>2. m \in 0 .. n /\ m \notin P /\ \A y \in outside : m <= y
    BY <2>1 DEF m
  <2>3. m \in 1 .. n /\ m - 1 \in 0 .. n /\ m - 1 \notin outside
    BY <2>2
  <2> QED
    BY <2>2, <2>3
<1> QED
  BY <1>1

\* f[i] is what a walk down the chain has collected of h at its i-th element.
One(chain, h, i, x) == IF Hash[chain[i].key] = h THEN Append(x, chain[i].data) ELSE x

Collects(f, n, chain, h) ==
    f[0] = << >> /\ \A i \in 1 .. n : f[i] = One(chain, h, i, f[i - 1])

\* The recursion of DataIn has a solution, and DataIn is its last value.
LEMMA DataInCollects ==
  ASSUME NEW chain \in Seq(Element), NEW h
  PROVE  \E f \in [0 .. Len(chain) -> Seq(Data)] :
           Collects(f, Len(chain), chain, h) /\ DataIn(chain, h) = f[Len(chain)]
<1> DEFINE n == Len(chain)
           X == Seq(Data)
           Q(f) == f = [i \in 0 .. n |-> IF i = 0 THEN << >>
                                         ELSE IF Hash[chain[i].key] = h
                                              THEN Append(f[i - 1], chain[i].data)
                                         ELSE f[i - 1]]
           P == {m \in 0 .. n : \E f \in [0 .. n -> X] : Collects(f, m, chain, h)}
<1>1. DataIn(chain, h) = (CHOOSE f : Q(f))[n]
  BY DEF DataIn
<1>2. \A f : Q(f) <=> f = [i \in 0 .. n |-> IF i = 0 THEN << >> ELSE One(chain, h, i, f[i - 1])]
  BY DEF One
<1>3. n \in Nat /\ << >> \in X /\ \A i \in 1 .. n, x \in X : One(chain, h, i, x) \in X
  <2>1. \A i \in 1 .. n : chain[i] \in Element
    OBVIOUS
  <2>2. \A i \in 1 .. n : chain[i].data \in Data
    BY <2>1 DEF Element
  <2> QED
    BY <2>2 DEF One
<1> HIDE DEF n, X, Q
<1>4. 0 \in P
  <2> DEFINE c == [i \in 0 .. n |-> << >>]
  <2>1. c \in [0 .. n -> X] /\ c[0] = << >> /\ 0 \in 0 .. n
    BY <1>3
  <2>2. \A i \in 1 .. 0 : FALSE
    OBVIOUS
  <2> HIDE DEF c
  <2> QED
    BY <2>1, <2>2 DEF Collects
<1>5. ASSUME NEW m \in 1 .. n, m - 1 \in P PROVE m \in P
  <2>1. PICK f \in [0 .. n -> X] : Collects(f, m - 1, chain, h)
    BY <1>5
  <2> DEFINE g == [f EXCEPT ![m] = One(chain, h, m, f[m - 1])]
  <2>2. m - 1 \in 0 .. n /\ m \in 0 .. n /\ One(chain, h, m, f[m - 1]) \in X
    BY <1>3
  <2>3. /\ g \in [0 .. n -> X] /\ g[m] = One(chain, h, m, f[m - 1])
        /\ \A i \in 0 .. n : i # m => g[i] = f[i]
    BY <2>2
  <2> HIDE DEF g
  <2>4. ASSUME NEW i \in 1 .. m PROVE g[i] = One(chain, h, i, g[i - 1])
    <3>1. i \in 0 .. n /\ i - 1 \in 0 .. n /\ i - 1 # m /\ (i = m \/ i \in 1 .. m - 1)
      BY <1>3
    <3>2. g[i - 1] = f[i - 1]
      BY <2>3, <3>1
    <3>3. CASE i = m
      BY <2>3, <3>2, <3>3
    <3>4. CASE i # m
      BY <2>1, <2>3, <3>1, <3>2, <3>4 DEF Collects
    <3> QED
      BY <3>3, <3>4
  <2>5. g[0] = << >>
    BY <2>1, <2>3, <1>3 DEF Collects
  <2> QED
    BY <2>2, <2>3, <2>4, <2>5 DEF Collects
<1>6. n \in P
  <2> HIDE DEF P
  <2> QED
    BY <1>3, <1>4, <1>5, UpToTheLast
<1>7. PICK f \in [0 .. n -> X] : Collects(f, n, chain, h)
  BY <1>6
<1>8. f = [i \in 0 .. n |-> IF i = 0 THEN << >> ELSE One(chain, h, i, f[i - 1])]
  BY <1>3, <1>7 DEF Collects
<1>9. Q(CHOOSE g : Q(g))
  BY <1>2, <1>8, Zenon
<1> DEFINE g == CHOOSE g : Q(g)
<1> HIDE DEF g
<1>10. g = [i \in 0 .. n |-> IF i = 0 THEN << >> ELSE One(chain, h, i, g[i - 1])]
  BY <1>2, <1>9 DEF g
<1>11. g[0] = << >> /\ \A i \in 1 .. n : g[i] = One(chain, h, i, g[i - 1])
  BY <1>3, <1>10
<1>12. \A i \in 0 .. n : i \in {j \in 0 .. n : g[j] \in X}
  <2> DEFINE R == {j \in 0 .. n : g[j] \in X}
  <2>1. 0 \in R
    BY <1>3, <1>11
  <2>2. ASSUME NEW i \in 1 .. n, i - 1 \in R PROVE i \in R
    BY <1>3, <1>11, <2>2
  <2> HIDE DEF R
  <2>3. \A i \in 0 .. n : i \in R
    BY <1>3, <2>1, <2>2, UpToTheLast
  <2> QED
    BY <2>3 DEF R
<1>13. g \in [0 .. n -> X]
  BY <1>10, <1>12
<1>14. Collects(g, n, chain, h)
  BY <1>11 DEF Collects
<1> QED
  BY <1>1, <1>13, <1>14 DEF g, X, n

\* Two chains begin with the same n elements.
SameUpTo(n, s, t) == \A i \in 1 .. n : s[i] = t[i]

\* What comes after the n-th element does not change what was collected before.
LEMMA SameSoFar ==
  ASSUME NEW n \in Nat, NEW s, NEW t, NEW h, NEW f, NEW g,
         Collects(f, n, s, h), Collects(g, n, t, h), SameUpTo(n, s, t)
  PROVE  f[n] = g[n]
<1> DEFINE P == {i \in 0 .. n : f[i] = g[i]}
<1>1. 0 \in P
  BY DEF Collects
<1>2. ASSUME NEW i \in 1 .. n, i - 1 \in P PROVE i \in P
  <2>1. f[i] = One(s, h, i, f[i - 1]) /\ g[i] = One(t, h, i, g[i - 1])
    BY DEF Collects
  <2> QED
    BY <1>2, <2>1 DEF One, SameUpTo
<1> HIDE DEF P
<1>3. \A i \in 0 .. n : i \in P
  BY <1>1, <1>2, UpToTheLast
<1> QED
  BY <1>3 DEF P

LEMMA DataInAppend ==
  ASSUME NEW chain \in Seq(Element), NEW e \in Element, NEW h
  PROVE  /\ DataIn(chain, h) \in Seq(Data)
         /\ DataIn(Append(chain, e), h) =
              IF Hash[e.key] = h THEN Append(DataIn(chain, h), e.data) ELSE DataIn(chain, h)
<1> DEFINE n == Len(chain)
           longer == Append(chain, e)
<1>1. /\ longer \in Seq(Element) /\ Len(longer) = n + 1 /\ longer[n + 1] = e
      /\ n \in Nat /\ \A i \in 1 .. n : chain[i] = longer[i]
  OBVIOUS
<1>2. PICK f \in [0 .. n -> Seq(Data)] : Collects(f, n, chain, h) /\ DataIn(chain, h) = f[n]
  BY DataInCollects
<1> HIDE DEF longer, n
<1>3. PICK g \in [0 .. n + 1 -> Seq(Data)] :
        Collects(g, n + 1, longer, h) /\ DataIn(longer, h) = g[n + 1]
  BY <1>1, DataInCollects
<1>4. \A i \in 1 .. n : i \in 1 .. n + 1
  BY <1>1
<1>5. Collects(g, n, longer, h)
  BY <1>3, <1>4 DEF Collects
<1>6. f[n] = g[n]
  <2>1. n \in Nat /\ SameUpTo(n, chain, longer)
    BY <1>1 DEF SameUpTo
  <2> QED
    BY <1>2, <1>5, <2>1, SameSoFar
<1>7. g[n + 1] = One(longer, h, n + 1, g[n])
  <2>1. n + 1 \in 1 .. n + 1 /\ (n + 1) - 1 = n
    BY <1>1
  <2> QED
    BY <1>3, <2>1 DEF Collects
<1>8. f[n] \in Seq(Data)
  BY <1>1, <1>2
<1> QED
  BY <1>1, <1>2, <1>3, <1>6, <1>7, <1>8 DEF One, longer

LEMMA DataInNothing ==
  ASSUME NEW chain \in Seq(Element), NEW h, \A i \in 1 .. Len(chain) : Hash[chain[i].key] # h
  PROVE  DataIn(chain, h) = << >>
<1> DEFINE n == Len(chain)
<1>1. PICK f \in [0 .. n -> Seq(Data)] : Collects(f, n, chain, h) /\ DataIn(chain, h) = f[n]
  BY DataInCollects
<1> DEFINE P == {i \in 0 .. n : f[i] = << >>}
<1>2. 0 \in P
  BY <1>1 DEF Collects
<1>3. ASSUME NEW i \in 1 .. n, i - 1 \in P PROVE i \in P
  BY <1>1, <1>3 DEF Collects, One
<1>4. n \in Nat
  OBVIOUS
<1> HIDE DEF P, n
<1>5. \A i \in 0 .. n : i \in P
  BY <1>2, <1>3, <1>4, UpToTheLast
<1> QED
  BY <1>1, <1>4, <1>5 DEF P

\* Taking out an element takes nothing from the others, and taking out the first
\* of its hash takes the first of what is collected.
LEMMA DataInWithout ==
  ASSUME NEW chain \in Seq(Element), NEW i \in 1 .. Len(chain), NEW h
  PROVE  LET rest == Without(chain, i) IN
         /\ Hash[chain[i].key] # h => DataIn(rest, h) = DataIn(chain, h)
         /\ Hash[chain[i].key] = h /\ (\A j \in 1 .. i - 1 : Hash[chain[j].key] # h)
              => DataIn(chain, h) = <<chain[i].data>> \o DataIn(rest, h)
<1> DEFINE n == Len(chain)
           rest == Without(chain, i)
           d == chain[i].data
<1>1. /\ rest \in Seq(Element) /\ Len(rest) = n - 1 /\ n \in Nat /\ i \in 1 .. n
      /\ \A j \in 1 .. n - 1 : rest[j] = IF j < i THEN chain[j] ELSE chain[j + 1]
  BY WithoutKeeps
<1>2. PICK f \in [0 .. n -> Seq(Data)] : Collects(f, n, chain, h) /\ DataIn(chain, h) = f[n]
  BY DataInCollects
<1>3. d \in Data /\ \A j \in 1 .. n : chain[j].data \in Data
  BY DEF Element
<1> HIDE DEF rest, n, d
<1>4. PICK g \in [0 .. n - 1 -> Seq(Data)] :
        Collects(g, n - 1, rest, h) /\ DataIn(rest, h) = g[n - 1]
  BY <1>1, DataInCollects
<1>5. i - 1 \in 0 .. n - 1 /\ i - 1 \in Nat /\ n - 1 \in Nat
  BY <1>1
<1>0. i \in Nat /\ n \in Nat /\ 1 <= i /\ i <= n
  BY <1>1
<1>6. f[i - 1] = g[i - 1]
  <2>1. \A j \in 1 .. i - 1 : j \in 1 .. n /\ j \in 1 .. n - 1 /\ rest[j] = chain[j]
    BY <1>1
  <2>2. Collects(f, i - 1, chain, h) /\ Collects(g, i - 1, rest, h)
    BY <1>2, <1>4, <2>1 DEF Collects
  <2>3. SameUpTo(i - 1, chain, rest)
    BY <2>1 DEF SameUpTo
  <2> QED
    BY <1>5, <2>2, <2>3, SameSoFar
<1>7. f[i] = One(chain, h, i, f[i - 1])
  BY <1>1, <1>2 DEF Collects
<1>8. ASSUME NEW j \in i .. n - 1
      PROVE  /\ f[j + 1] = One(chain, h, j + 1, f[j]) /\ g[j] = One(chain, h, j + 1, g[j - 1])
             /\ g[j - 1] \in Seq(Data) /\ chain[j + 1].data \in Data
  <2>1. /\ j + 1 \in 1 .. n /\ (j + 1) - 1 = j /\ j \in 1 .. n - 1 /\ ~(j < i)
        /\ j - 1 \in 0 .. n - 1
    BY <1>1
  <2>2. f[j + 1] = One(chain, h, j + 1, f[j])
    BY <1>2, <2>1 DEF Collects
  <2>3. g[j] = One(rest, h, j, g[j - 1]) /\ rest[j] = chain[j + 1]
    BY <1>1, <1>4, <2>1 DEF Collects
  <2> QED
    BY <1>3, <1>4, <2>1, <2>2, <2>3 DEF One
<1>9. ASSUME Hash[chain[i].key] # h PROVE f[n] = g[n - 1]
  <2> DEFINE P == {j \in 0 .. n - 1 : j >= i - 1 => f[j + 1] = g[j]}
  <2>1. f[(i - 1) + 1] = g[i - 1]
    BY <1>1, <1>6, <1>7, <1>9 DEF One
  <2>2. 0 \in P
    BY <1>0, <2>1
  <2>3. ASSUME NEW j \in 1 .. n - 1, j - 1 \in P PROVE j \in P
    <3>1. CASE j >= i
      <4>1. j \in i .. n - 1 /\ j - 1 >= i - 1 /\ (j - 1) + 1 = j
        BY <1>0, <3>1
      <4>2. f[j] = g[j - 1]
        BY <2>3, <4>1
      <4>3. f[j + 1] = g[j]
        BY <1>8, <4>1, <4>2
      <4> QED
        BY <4>3
    <3>2. CASE j = i - 1
      BY <2>1, <3>2
    <3>3. CASE j < i - 1
      BY <1>0, <3>3
    <3> QED
      BY <1>0, <3>1, <3>2, <3>3
  <2> HIDE DEF P
  <2>4. \A j \in 0 .. n - 1 : j \in P
    BY <1>5, <2>2, <2>3, UpToTheLast
  <2>5. n - 1 \in 0 .. n - 1 /\ n - 1 >= i - 1 /\ (n - 1) + 1 = n
    BY <1>0
  <2> QED
    BY <2>4, <2>5 DEF P
<1>10. ASSUME Hash[chain[i].key] = h, \A j \in 1 .. i - 1 : Hash[chain[j].key] # h
       PROVE  f[n] = <<d>> \o g[n - 1]
  <2>0. f[i - 1] = << >>
    <3> DEFINE E == {j \in 0 .. i - 1 : f[j] = << >>}
    <3>1. 0 \in E
      BY <1>2, <1>5 DEF Collects
    <3>2. ASSUME NEW j \in 1 .. i - 1, j - 1 \in E PROVE j \in E
      <4>1. j \in 1 .. n
        BY <1>1
      <4> QED
        BY <1>2, <1>10, <3>2, <4>1 DEF Collects, One
    <3> HIDE DEF E
    <3>3. \A j \in 0 .. i - 1 : j \in E
      BY <1>5, <3>1, <3>2, UpToTheLast
    <3>4. i - 1 \in E
      BY <1>5, <3>3
    <3> QED
      BY <3>4 DEF E
  <2> DEFINE P == {j \in 0 .. n - 1 : j >= i - 1 => f[j + 1] = <<d>> \o g[j]}
  <2>1. f[(i - 1) + 1] = <<d>> \o g[i - 1]
    <3>1. f[i] = Append(<< >>, d) /\ g[i - 1] = << >>
      BY <1>6, <1>7, <1>10, <2>0 DEF One, d
    <3>2. (i - 1) + 1 = i
      BY <1>1
    <3>3. Append(<< >>, d) = <<d>> \o << >>
      OBVIOUS
    <3> QED
      BY <3>1, <3>2, <3>3
  <2>2. 0 \in P
    <3>1. 0 \in 0 .. n - 1 /\ (0 >= i - 1 => i - 1 = 0)
      BY <1>0
    <3> QED
      BY <2>1, <3>1, Zenon
  <2>3. ASSUME NEW j \in 1 .. n - 1, j - 1 \in P PROVE j \in P
    <3>1. CASE j >= i
      <4>1. j \in i .. n - 1 /\ j - 1 >= i - 1 /\ (j - 1) + 1 = j
        BY <1>0, <3>1
      <4>2. f[j] = <<d>> \o g[j - 1]
        BY <2>3, <4>1
      <4> DEFINE x == g[j - 1]
                 y == chain[j + 1].data
      <4>3. f[j + 1] = One(chain, h, j + 1, <<d>> \o x) /\ g[j] = One(chain, h, j + 1, x)
            /\ x \in Seq(Data) /\ y \in Data
        BY <1>8, <4>1, <4>2
      <4> HIDE DEF x
      <4>4. f[j + 1] = <<d>> \o g[j]
        <5>1. Append(<<d>> \o x, y) = <<d>> \o Append(x, y)
          <6> HIDE DEF y
          <6> QED
            BY <1>3, <4>3
        <5> QED
          BY <4>3, <5>1 DEF One
      <4> QED
        BY <4>4
    <3>2. CASE j = i - 1
      BY <2>1, <3>2
    <3>3. CASE j < i - 1
      BY <1>0, <3>3
    <3> QED
      BY <1>0, <3>1, <3>2, <3>3
  <2> HIDE DEF P
  <2>4. \A j \in 0 .. n - 1 : j \in P
    BY <1>5, <2>2, <2>3, UpToTheLast
  <2>5. n - 1 \in 0 .. n - 1 /\ n - 1 >= i - 1 /\ (n - 1) + 1 = n
    BY <1>0
  <2> QED
    BY <2>4, <2>5 DEF P
<1> QED
  BY <1>2, <1>4, <1>9, <1>10 DEF rest, d

-----------------------------------------------------------------------------
(* What a table holds of a hash *)

\* A key is looked for in its chain.
LEMMA DataOfKey ==
  ASSUME NEW table \in Tables, NEW k \in Keys
  PROVE  /\ DataOf(Hash[k], table) = DataIn(table[Bucket(k, table)], Hash[k])
         /\ Bucket(k, table) \in 1 .. Len(table) /\ table[Bucket(k, table)] \in Seq(Element)
<1>1. Bucket(k, table) \in 1 .. Len(table)
  BY BucketInTable DEF Tables
<1> QED
  BY <1>1 DEF DataOf, Bucket, Tables

LEMMA DataOfTypes ==
  ASSUME NEW table \in Tables \cup {<< >>}, NEW k \in Keys
  PROVE  DataOf(Hash[k], table) \in Seq(Data)
<1>1. CASE table = << >>
  BY <1>1 DEF DataOf
<1>2. CASE table \in Tables
  <2> DEFINE chain == table[Bucket(k, table)]
  <2>1. DataOf(Hash[k], table) = DataIn(chain, Hash[k]) /\ chain \in Seq(Element)
    BY <1>2, DataOfKey
  <2> HIDE DEF chain
  <2>2. PICK f \in [0 .. Len(chain) -> Seq(Data)] : DataIn(chain, Hash[k]) = f[Len(chain)]
    BY <2>1, DataInCollects
  <2>3. Len(chain) \in 0 .. Len(chain)
    BY <2>1
  <2> QED
    BY <2>1, <2>2, <2>3
<1> QED
  BY <1>1, <1>2

LEMMA DataOfEmpty ==
  ASSUME NEW table \in Tables \cup {<< >>}, InUse(table) = {}, NEW k \in Keys
  PROVE  DataOf(Hash[k], table) = << >>
<1>1. CASE table = << >>
  BY <1>1 DEF DataOf
<1>2. CASE table \in Tables
  <2> DEFINE chain == table[Bucket(k, table)]
  <2>1. /\ DataOf(Hash[k], table) = DataIn(chain, Hash[k])
        /\ Bucket(k, table) \in DOMAIN table
    BY <1>2, DataOfKey, BucketInTable
  <2>2. chain = << >>
    BY <2>1 DEF InUse
  <2>3. << >> \in Seq(Element) /\ \A i \in 1 .. Len(<< >>) : FALSE
    OBVIOUS
  <2>4. DataIn(<< >>, Hash[k]) = << >>
    BY <2>3, DataInNothing
  <2> QED
    BY <2>1, <2>2, <2>4
<1> QED
  BY <1>1, <1>2

\* An element linked goes to the end of what its hash has.
LEMMA DataOfLink ==
  ASSUME NEW table \in Tables, NEW e \in Element, NEW k \in Keys, Link(table, e) \in Tables
  PROVE  DataOf(Hash[k], Link(table, e)) =
           IF Hash[e.key] = Hash[k] THEN Append(DataOf(Hash[k], table), e.data)
           ELSE DataOf(Hash[k], table)
<1> DEFINE b == Bucket(k, table)
           c == Bucket(e.key, table)
           new == Link(table, e)
<1>1. e.key \in Keys
  BY DEF Element
<1>2. /\ DataOf(Hash[k], table) = DataIn(table[b], Hash[k]) /\ b \in 1 .. Len(table)
      /\ table[b] \in Seq(Element) /\ c \in 1 .. Len(table) /\ DOMAIN table = 1 .. Len(table)
  BY <1>1, DataOfKey DEF Tables
<1>3. /\ new = [table EXCEPT ![c] = Append(table[c], e)]
      /\ new[b] = IF b = c THEN Append(table[b], e) ELSE table[b]
  BY <1>2 DEF Link
<1>4. Len(new) = Len(table)
  <2>1. DOMAIN new = DOMAIN table
    BY <1>3
  <2> HIDE DEF new
  <2> QED
    BY <2>1 DEF Tables
<1>5. DataOf(Hash[k], new) = DataIn(new[b], Hash[k])
  <2>1. Bucket(k, new) = b
    BY <1>4 DEF Bucket
  <2> QED
    BY <2>1, DataOfKey
<1>6. CASE b = c
  <2> DEFINE chain == table[b]
             x == DataIn(chain, Hash[k])
  <2>1. chain \in Seq(Element)
    BY <1>2
  <2> HIDE DEF chain
  <2>2. DataIn(Append(chain, e), Hash[k]) = IF Hash[e.key] = Hash[k] THEN Append(x, e.data) ELSE x
    BY <2>1, DataInAppend
  <2> QED
    BY <1>2, <1>3, <1>5, <1>6, <2>2, Zenon DEF chain
<1>7. CASE b # c
  <2>1. Hash[e.key] # Hash[k]
    BY <1>7 DEF Bucket
  <2> QED
    BY <1>2, <1>3, <1>5, <1>7, <2>1
<1> QED
  BY <1>6, <1>7

FirstOf(chain, i, h) ==
    Hash[chain[i].key] = h /\ \A j \in 1 .. i - 1 : Hash[chain[j].key] # h

Removes(new, table, b, i) == new = [table EXCEPT ![b] = Without(@, i)]

\* The first of its hash taken out of its chain is the first of what the hash has.
LEMMA DataOfWithout ==
  ASSUME NEW table \in Tables, NEW k \in Keys, NEW new \in Tables, NEW b, b = Bucket(k, table),
         NEW i \in 1 .. Len(table[b]), FirstOf(table[b], i, Hash[k]),
         Removes(new, table, b, i)
  PROVE  /\ DataOf(Hash[k], table) = <<table[b][i].data>> \o DataOf(Hash[k], new)
         /\ \A l \in Keys : Hash[l] # Hash[k] => DataOf(Hash[l], new) = DataOf(Hash[l], table)
<1>1. /\ DataOf(Hash[k], table) = DataIn(table[b], Hash[k]) /\ b \in 1 .. Len(table)
      /\ table[b] \in Seq(Element) /\ DOMAIN table = 1 .. Len(table)
  BY DataOfKey DEF Tables
<1>2. /\ new[b] = Without(table[b], i)
      /\ \A c \in 1 .. Len(table) : c # b => new[c] = table[c]
  BY <1>1 DEF Removes
<1>3. Len(new) = Len(table)
  <2>1. DOMAIN new = DOMAIN table
    BY DEF Removes
  <2> QED
    BY <2>1 DEF Tables
<1>4. \A l : Bucket(l, new) = Bucket(l, table)
  BY <1>3 DEF Bucket
<1>5. \A l \in Keys : DataOf(Hash[l], new) = DataIn(new[Bucket(l, table)], Hash[l])
  BY <1>4, DataOfKey
<1> DEFINE chain == table[b]
<1>8. chain \in Seq(Element) /\ i \in 1 .. Len(chain)
  BY <1>1
<1>9. /\ Hash[chain[i].key] = Hash[k] /\ \A j \in 1 .. i - 1 : Hash[chain[j].key] # Hash[k]
      /\ new[b] = Without(chain, i)
  BY <1>2 DEF FirstOf
<1> HIDE DEF chain
<1>10. /\ DataIn(chain, Hash[k]) = <<chain[i].data>> \o DataIn(Without(chain, i), Hash[k])
       /\ \A h : h # Hash[k] => DataIn(Without(chain, i), h) = DataIn(chain, h)
  BY <1>8, <1>9, DataInWithout
<1>6. DataOf(Hash[k], table) = <<table[b][i].data>> \o DataOf(Hash[k], new)
  BY <1>1, <1>5, <1>9, <1>10, Zenon DEF chain
<1>7. ASSUME NEW l \in Keys, Hash[l] # Hash[k]
      PROVE  DataOf(Hash[l], new) = DataOf(Hash[l], table)
  <2>1. /\ DataOf(Hash[l], table) = DataIn(table[Bucket(l, table)], Hash[l])
        /\ Bucket(l, table) \in 1 .. Len(table)
    BY DataOfKey
  <2>2. CASE Bucket(l, table) = b
    BY <1>5, <1>7, <1>9, <1>10, <2>1, <2>2, Zenon DEF chain
  <2>3. CASE Bucket(l, table) # b
    BY <1>2, <1>5, <2>1, <2>3
  <2> QED
    BY <2>2, <2>3
<1> QED
  BY <1>6, <1>7

-----------------------------------------------------------------------------
(* The steps, as the queues see them *)

\* What has still to be linked again is in its buckets too.
QInv == IInv /\ Placed(old_table)

LEMMA TablesOfBoth ==
  ASSUME QInv
  PROVE  elements \in Tables /\ Placed(elements) /\ old_table \in Tables \cup {<< >>}
BY InvariantOfTable DEF QInv, IInv, TypeOK, Tables

LEMMA StoredIs ==
  ASSUME QInv, NEW k \in Keys
  PROVE  /\ Hash[k] \in Hashes /\ Stored[Hash[k]] \in Seq(Data)
         /\ Stored[Hash[k]] = DataOf(Hash[k], elements) \o DataOf(Hash[k], old_table)
         /\ ~Resizing => Stored[Hash[k]] = DataOf(Hash[k], elements)
<1>1. Hash[k] \in Hashes
  BY DEF Hashes
<1>2. Stored[Hash[k]] = DataOf(Hash[k], elements) \o DataOf(Hash[k], old_table)
  BY <1>1 DEF Stored
<1>3. DataOf(Hash[k], elements) \in Seq(Data) /\ DataOf(Hash[k], old_table) \in Seq(Data)
  BY TablesOfBoth, DataOfTypes
<1>4. ~Resizing => DataOf(Hash[k], old_table) = << >>
  BY TablesOfBoth, DataOfEmpty DEF Resizing
<1> QED
  BY <1>1, <1>2, <1>3, <1>4

\* Two stores that agree on the hash of every key are one.
LEMMA StoredUpdate ==
  ASSUME NEW k \in Keys, NEW v,
         \A l \in Keys : Stored'[Hash[l]] = IF Hash[l] = Hash[k] THEN v ELSE Stored[Hash[l]]
  PROVE  Stored' = [Stored EXCEPT ![Hash[k]] = v]
<1>1. Stored = [h \in Hashes |-> Stored[h]] /\ Stored' = [h \in Hashes |-> Stored'[h]]
  BY DEF Stored
<1>2. \A h \in Hashes : Stored'[h] = IF h = Hash[k] THEN v ELSE Stored[h]
  BY DEF Hashes
<1> QED
  BY <1>1, <1>2

\* What get_element finds is the first of what the hash of the key has.
LEMMA FoundIsFirst ==
  ASSUME QInv, NEW k \in Keys
  PROVE  /\ Found(k) = {} => DataOf(Hash[k], elements) = << >>
         /\ \A i \in Found(k) :
              LET new == TableWithout(Bucket(k, elements), i)
              IN  /\ new \in Tables /\ Placed(new)
                  /\ SizeWithout(Bucket(k, elements)) = Cardinality(InUse(new))
                  /\ elements[Bucket(k, elements)][i].data \in Data
                  /\ DataOf(Hash[k], elements)
                       = <<elements[Bucket(k, elements)][i].data>> \o DataOf(Hash[k], new)
                  /\ \A l \in Keys : Hash[l] # Hash[k] =>
                       DataOf(Hash[l], new) = DataOf(Hash[l], elements)
<1> DEFINE b == Bucket(k, elements)
           chain == elements[b]
           same == {j \in DOMAIN chain : Hash[chain[j].key] = Hash[k]}
<1>1. elements \in Tables /\ chain \in Seq(Element)
      /\ DataOf(Hash[k], elements) = DataIn(chain, Hash[k])
  BY TablesOfBoth, DataOfKey
<1>2. ASSUME Found(k) = {} PROVE DataOf(Hash[k], elements) = << >>
  <2>1. CASE same = {}
    <3>1. \A j \in 1 .. Len(chain) : Hash[chain[j].key] # Hash[k]
      BY <1>1, <2>1
    <3> HIDE DEF chain
    <3> QED
      BY <1>1, <3>1, DataInNothing
  <2>2. CASE same # {}
    <3>1. same \in SUBSET Nat
      BY <1>1
    <3> DEFINE first == Min(same)
    <3>2. first \in same /\ \A j \in same : first <= j
      BY <2>2, <3>1, MinIsLeast
    <3> HIDE DEF first
    <3>3. \A j \in 1 .. first - 1 : Hash[chain[j].key] # Hash[k]
      BY <1>1, <3>2
    <3>4. first \in Found(k)
      BY <3>2, <3>3 DEF Found
    <3> QED
      BY <1>2, <3>4
  <2> QED
    BY <2>1, <2>2
<1>3. ASSUME NEW i \in Found(k)
      PROVE  LET new == TableWithout(b, i)
             IN  /\ new \in Tables /\ Placed(new) /\ SizeWithout(b) = Cardinality(InUse(new))
                 /\ chain[i].data \in Data
                 /\ DataOf(Hash[k], elements) = <<chain[i].data>> \o DataOf(Hash[k], new)
                 /\ \A l \in Keys : Hash[l] # Hash[k] =>
                      DataOf(Hash[l], new) = DataOf(Hash[l], elements)
  <2> DEFINE new == TableWithout(b, i)
  <2>1. new \in Tables /\ Placed(new) /\ SizeWithout(b) = Cardinality(InUse(new))
    BY RemovalKeeps DEF QInv
  <2>2. i \in 1 .. Len(chain) /\ FirstOf(chain, i, Hash[k])
    BY <1>1 DEF Found, FirstOf
  <2>3. Removes(new, elements, b, i)
    BY DEF TableWithout, Removes
  <2>4. chain[i].data \in Data
    <3>1. chain[i] \in Element
      BY <1>1, <2>2
    <3> QED
      BY <3>1 DEF Element
  <2> HIDE DEF new
  <2>5. /\ DataOf(Hash[k], elements) = <<chain[i].data>> \o DataOf(Hash[k], new)
        /\ \A l \in Keys : Hash[l] # Hash[k] => DataOf(Hash[l], new) = DataOf(Hash[l], elements)
    BY <1>1, <2>1, <2>2, <2>3, DataOfWithout
  <2> QED
    BY <2>1, <2>4, <2>5 DEF new
<1> QED
  BY <1>2, <1>3

\* dictionary_get shows the first of the queue.
LEMMA GetIsHead ==
  ASSUME QInv, ~Resizing, NEW k \in Keys
  PROVE  Queues!Get(Hash[k]) = Get(k)
<1>1. Stored[Hash[k]] = DataOf(Hash[k], elements)
  BY StoredIs
<1>2. CASE Found(k) = {}
  BY <1>1, <1>2, FoundIsFirst DEF Get, Queues!Get
<1>3. CASE Found(k) # {}
  <2> DEFINE i == CHOOSE i \in Found(k) : TRUE
             d == elements[Bucket(k, elements)][i].data
             rest == DataOf(Hash[k], TableWithout(Bucket(k, elements), i))
  <2>1. i \in Found(k)
    BY <1>3
  <2>2. Get(k) = d
    BY <1>3 DEF Get
  <2>3. DataOf(Hash[k], elements) = <<d>> \o rest /\ d \in Data /\ rest \in Seq(Data)
    <3> HIDE DEF i
    <3>1. TableWithout(Bucket(k, elements), i) \in Tables
      BY <2>1, FoundIsFirst
    <3> QED
      BY <2>1, <3>1, FoundIsFirst, DataOfTypes
  <2> HIDE DEF d, rest
  <2>4. <<d>> \o rest # << >> /\ Head(<<d>> \o rest) = d
    BY <2>3
  <2> QED
    BY <1>1, <2>2, <2>3, <2>4 DEF Queues!Get
<1> QED
  BY <1>2, <1>3

\* dictionary_put adds to the end of what the table it is given has.
LEMMA PutIntoStores ==
  ASSUME QInv, ~Resizing, NEW table \in Tables, Placed(table), NEW e \in Element, NEW amount,
         PutInto(table, Cardinality(InUse(table)), amount, e), IInv'
  PROVE  /\ QInv'
         /\ \A l \in Keys : Stored'[Hash[l]] =
              IF Hash[l] = Hash[e.key] THEN Append(DataOf(Hash[l], table), e.data)
              ELSE DataOf(Hash[l], table)
<1> DEFINE n == Cardinality(InUse(table))
<1>1. Link(table, e) \in Tables /\ Placed(Link(table, e))
  BY LinkKeeps
<1>2. \A l \in Keys :
        /\ DataOf(Hash[l], table) \in Seq(Data) /\ e.data \in Data
        /\ DataOf(Hash[l], Link(table, e)) =
             IF Hash[l] = Hash[e.key] THEN Append(DataOf(Hash[l], table), e.data)
             ELSE DataOf(Hash[l], table)
  BY <1>1, DataOfTypes, DataOfLink DEF Element
<1>3. \A l \in Keys : DataOf(Hash[l], Link(table, e)) \in Seq(Data)
  BY <1>1, DataOfTypes
<1>4. CASE Linked(table, e, n) > n /\ Linked(table, e, n) >= Len(table)
  <2>1. old_table' = Link(table, e) /\ elements' = Empty(Len(table) * 2)
    BY <1>4 DEF PutInto
  <2>2. Len(table) * 2 \in Nat \ {0}
    BY DEF Tables
  <2>3. elements' \in Tables /\ InUse(elements') = {}
    BY <2>1, <2>2, EmptyTable
  <2>4. \A l \in Keys : DataOf(Hash[l], elements') = << >>
    BY <2>3, DataOfEmpty
  <2>5. QInv'
    BY <1>1, <2>1 DEF QInv
  <2>6. \A l \in Keys : Stored'[Hash[l]] = DataOf(Hash[l], Link(table, e))
    <3> SUFFICES ASSUME NEW l \in Keys
                 PROVE  Stored'[Hash[l]] = DataOf(Hash[l], Link(table, e))
      OBVIOUS
    <3>1. Hash[l] \in Hashes
      BY DEF Hashes
    <3>2. Stored'[Hash[l]] = DataOf(Hash[l], elements') \o DataOf(Hash[l], old_table')
      BY <3>1 DEF Stored
    <3> QED
      BY <1>3, <2>1, <2>4, <3>2
  <2> QED
    BY <1>2, <2>5, <2>6
<1>5. CASE ~(Linked(table, e, n) > n /\ Linked(table, e, n) >= Len(table))
  <2>1. elements' = Link(table, e) /\ old_table' = old_table
    BY <1>5 DEF PutInto
  <2>2. QInv'
    BY <2>1 DEF QInv
  <2>3. \A l \in Keys : DataOf(Hash[l], old_table) = << >>
    BY TablesOfBoth, DataOfEmpty DEF Resizing
  <2>4. \A l \in Keys : Stored'[Hash[l]] = DataOf(Hash[l], Link(table, e))
    <3> SUFFICES ASSUME NEW l \in Keys
                 PROVE  Stored'[Hash[l]] = DataOf(Hash[l], Link(table, e))
      OBVIOUS
    <3>1. Hash[l] \in Hashes
      BY DEF Hashes
    <3>2. Stored'[Hash[l]] = DataOf(Hash[l], elements') \o DataOf(Hash[l], old_table')
      BY <3>1 DEF Stored
    <3> QED
      BY <1>3, <2>1, <2>3, <3>2
  <2> QED
    BY <1>2, <2>2, <2>4
<1> QED
  BY <1>4, <1>5

LEMMA PutQueues ==
  ASSUME QInv, NEW k \in Keys, NEW d \in Data, Put(k, d), IInv'
  PROVE  QInv' /\ Queues!Put(Hash[k], d)
<1> DEFINE e == [key |-> k, data |-> d]
<1>1. e \in Element /\ e.key = k /\ e.data = d
  BY DEF Element
<1> HIDE DEF e
<1>2. ~Resizing /\ PutInto(elements, Cardinality(InUse(elements)), elements_amount, e)
  BY InvariantOfTable DEF Put, QInv, e
<1>3. /\ QInv'
      /\ \A l \in Keys : Stored'[Hash[l]] =
           IF Hash[l] = Hash[k] THEN Append(DataOf(Hash[l], elements), d)
           ELSE DataOf(Hash[l], elements)
  BY <1>1, <1>2, TablesOfBoth, PutIntoStores
<1>4. \A l \in Keys : Stored[Hash[l]] = DataOf(Hash[l], elements)
  BY <1>2, StoredIs
<1>5. \A l \in Keys : Stored'[Hash[l]] =
        IF Hash[l] = Hash[k] THEN Append(Stored[Hash[k]], d) ELSE Stored[Hash[l]]
  BY <1>3, <1>4
<1>6. Stored' = [Stored EXCEPT ![Hash[k]] = Append(Stored[Hash[k]], d)]
  BY <1>5, StoredUpdate
<1> QED
  BY <1>3, <1>6 DEF Queues!Put

LEMMA PutPostaQueues ==
  ASSUME QInv, NEW k \in Keys, NEW d \in Data, PutPosta(k, d), IInv'
  PROVE  QInv' /\ Queues!PutPosta(Hash[k], d)
<1> DEFINE e == [key |-> k, data |-> d]
<1>1. e \in Element /\ e.key = k /\ e.data = d
  BY DEF Element
<1> HIDE DEF e
<1>2. ~Resizing
  BY DEF PutPosta
<1>3. \A l \in Keys : Stored[Hash[l]] = DataOf(Hash[l], elements)
  BY <1>2, StoredIs
<1>4. Queues!Get(Hash[k]) = Get(k)
  BY <1>2, GetIsHead
<1> DEFINE before == IF Queues!Get(Hash[k]) = NULL THEN Stored[Hash[k]] ELSE Tail(Stored[Hash[k]])
<1>5. /\ QInv'
      /\ \A l \in Keys : Stored'[Hash[l]] =
           IF Hash[l] = Hash[k] THEN Append(before, d) ELSE Stored[Hash[l]]
  <2>1. CASE Get(k) = NULL
    <3>1. PutInto(elements, Cardinality(InUse(elements)), elements_amount, e)
      BY <2>1, InvariantOfTable DEF PutPosta, QInv, e
    <3>2. /\ QInv'
          /\ \A l \in Keys : Stored'[Hash[l]] =
               IF Hash[l] = Hash[k] THEN Append(DataOf(Hash[l], elements), d)
               ELSE DataOf(Hash[l], elements)
      BY <1>1, <1>2, <3>1, TablesOfBoth, PutIntoStores
    <3> QED
      BY <1>3, <1>4, <2>1, <3>2
  <2>2. CASE Get(k) # NULL
    <3>1. PICK i \in Found(k) :
            PutInto(TableWithout(Bucket(k, elements), i), SizeWithout(Bucket(k, elements)),
                    elements_amount - 1, e)
      BY <2>2 DEF PutPosta, e
    <3> DEFINE new == TableWithout(Bucket(k, elements), i)
               x == elements[Bucket(k, elements)][i].data
    <3>2. /\ new \in Tables /\ Placed(new) /\ x \in Data
          /\ SizeWithout(Bucket(k, elements)) = Cardinality(InUse(new))
          /\ DataOf(Hash[k], elements) = <<x>> \o DataOf(Hash[k], new)
          /\ \A l \in Keys : Hash[l] # Hash[k] => DataOf(Hash[l], new) = DataOf(Hash[l], elements)
      BY FoundIsFirst
    <3>3. PutInto(new, Cardinality(InUse(new)), elements_amount - 1, e)
      BY <3>1, <3>2
    <3> HIDE DEF new, x
    <3>4. /\ QInv'
          /\ \A l \in Keys : Stored'[Hash[l]] =
               IF Hash[l] = Hash[k] THEN Append(DataOf(Hash[l], new), d)
               ELSE DataOf(Hash[l], new)
      BY <1>1, <1>2, <3>2, <3>3, PutIntoStores
    <3> DEFINE rest == DataOf(Hash[k], new)
    <3>5. rest \in Seq(Data)
      BY <3>2, DataOfTypes
    <3>6. Tail(<<x>> \o rest) = rest
      <4> HIDE DEF rest
      <4> QED
        BY <3>2, <3>5
    <3>7. before = DataOf(Hash[k], new)
      BY <1>3, <1>4, <2>2, <3>2, <3>6
    <3> HIDE DEF before
    <3> QED
      BY <1>3, <3>2, <3>4, <3>7
  <2> QED
    BY <2>1, <2>2
<1> HIDE DEF before
<1>6. Stored' = [Stored EXCEPT ![Hash[k]] = Append(before, d)]
  BY <1>5, StoredUpdate
<1> QED
  BY <1>5, <1>6 DEF Queues!PutPosta, before

LEMMA RemoveKeyQueues ==
  ASSUME QInv, NEW k \in Keys, RemoveKey(k), IInv'
  PROVE  QInv' /\ (Queues!RemoveKey(Hash[k]) \/ UNCHANGED Stored)
<1>1. ~Resizing /\ old_table' = old_table
  BY DEF RemoveKey
<1>2. QInv'
  BY <1>1 DEF QInv
<1>3. CASE Found(k) = {}
  <2>1. elements' = elements
    BY <1>3 DEF RemoveKey
  <2> QED
    BY <1>1, <1>2, <2>1 DEF Stored
<1>4. CASE Found(k) # {}
  <2>1. PICK i \in Found(k) : elements' = TableWithout(Bucket(k, elements), i)
    BY <1>4 DEF RemoveKey
  <2> DEFINE x == elements[Bucket(k, elements)][i].data
             rest == DataOf(Hash[k], elements')
  <2>2. /\ elements' \in Tables /\ x \in Data
        /\ DataOf(Hash[k], elements) = <<x>> \o rest
        /\ \A l \in Keys : Hash[l] # Hash[k] =>
             DataOf(Hash[l], elements') = DataOf(Hash[l], elements)
    BY <2>1, FoundIsFirst
  <2>3. rest \in Seq(Data)
    BY <2>2, DataOfTypes
  <2>4. ~Resizing'
    BY <1>1 DEF Resizing
  <2>5. \A l \in Keys : /\ Stored[Hash[l]] = DataOf(Hash[l], elements)
                        /\ Stored'[Hash[l]] = DataOf(Hash[l], elements')
    <3>1. \A l \in Keys : DataOf(Hash[l], old_table) = << >>
      BY <1>1, TablesOfBoth, DataOfEmpty DEF Resizing
    <3> SUFFICES ASSUME NEW l \in Keys PROVE Stored'[Hash[l]] = DataOf(Hash[l], elements')
      BY <1>1, StoredIs
    <3>2. Hash[l] \in Hashes
      BY DEF Hashes
    <3>3. Stored'[Hash[l]] = DataOf(Hash[l], elements') \o DataOf(Hash[l], old_table')
      BY <3>2 DEF Stored
    <3>4. DataOf(Hash[l], elements') \in Seq(Data)
      BY <2>2, DataOfTypes
    <3> QED
      BY <1>1, <3>1, <3>3, <3>4
  <2> HIDE DEF x, rest
  <2>6. <<x>> \o rest # << >> /\ Tail(<<x>> \o rest) = rest
    BY <2>2, <2>3
  <2>7. \A l \in Keys : Stored'[Hash[l]] =
          IF Hash[l] = Hash[k] THEN Tail(Stored[Hash[k]]) ELSE Stored[Hash[l]]
    BY <2>2, <2>5, <2>6 DEF rest
  <2>8. Stored' = [Stored EXCEPT ![Hash[k]] = Tail(Stored[Hash[k]])]
    BY <2>7, StoredUpdate
  <2> QED
    BY <1>2, <2>2, <2>5, <2>6, <2>8 DEF Queues!RemoveKey
<1> QED
  BY <1>3, <1>4

LEMMA CleanQueues ==
  ASSUME QInv, Clean, IInv'
  PROVE  QInv' /\ Queues!Clean
<1>1. ~Resizing /\ old_table' = old_table /\ elements' = Empty(Len(elements))
  BY DEF Clean
<1>2. QInv'
  BY <1>1 DEF QInv
<1>3. Len(elements) \in Nat \ {0}
  BY TablesOfBoth DEF Tables
<1>4. elements' \in Tables /\ InUse(elements') = {}
  BY <1>1, <1>3, EmptyTable
<1>5. \A l \in Keys : DataOf(Hash[l], old_table) = << >> /\ DataOf(Hash[l], elements') = << >>
  BY <1>1, <1>4, TablesOfBoth, DataOfEmpty DEF Resizing
<1>6. \A h \in Hashes : DataOf(h, elements') \o DataOf(h, old_table') = << >>
  BY <1>1, <1>5 DEF Hashes
<1>7. Stored' = [h \in Hashes |-> DataOf(h, elements') \o DataOf(h, old_table')]
  BY DEF Stored
<1>8. Stored' = [h \in Hashes |-> << >>]
  BY <1>6, <1>7
<1> QED
  BY <1>2, <1>8 DEF Queues!Clean

\* A turn of dictionary_resize takes the first of a chain of the old table: what its
\* hash has in the table grows at the end by what goes from the front of the rest.
LEMMA RelinkQueues ==
  ASSUME QInv, Relink, IInv'
  PROVE  QInv' /\ UNCHANGED Stored
<1>1. PICK b \in InUse(old_table) :
        /\ elements' = Link(elements, Head(old_table[b]))
        /\ old_table' = [old_table EXCEPT ![b] = Tail(@)]
  BY DEF Relink
<1> DEFINE chain == old_table[b]
           e == Head(chain)
           k == e.key
<1>2. /\ old_table \in Tables /\ DOMAIN old_table = 1 .. Len(old_table) /\ b \in DOMAIN old_table
      /\ chain \in Seq(Element) /\ chain # << >>
  BY TablesOfBoth DEF InUse, Tables
<1>3. e \in Element /\ Tail(chain) \in Seq(Element) /\ e = chain[1] /\ 1 \in 1 .. Len(chain)
  BY <1>2
<1>4. k \in Keys /\ e.data \in Data
  BY <1>3 DEF Element
<1>5. Bucket(k, old_table) = b
  BY <1>2, <1>3 DEF QInv, Placed
<1>6. Tail(chain) = Without(chain, 1)
  <2>1. SubSeq(chain, 1, 1 - 1) = << >> /\ SubSeq(chain, 1 + 1, Len(chain)) = Tail(chain)
    BY <1>2
  <2>2. << >> \o Tail(chain) = Tail(chain)
    BY <1>3
  <2> QED
    BY <2>1, <2>2 DEF Without
<1> HIDE DEF e
<1>7. /\ old_table' \in Tables
      /\ \A c \in DOMAIN old_table' : old_table'[c] = IF c = b THEN Tail(chain) ELSE old_table[c]
      /\ Len(old_table') = Len(old_table)
  <2>1. old_table' \in Seq(Seq(Element)) /\ Len(old_table') = Len(old_table)
    BY <1>1, <1>2, <1>3 DEF Tables
  <2> QED
    BY <1>1, <1>2, <2>1 DEF Tables
<1>8. Placed(old_table')
  <2> SUFFICES ASSUME NEW c \in DOMAIN old_table', NEW i \in DOMAIN old_table'[c]
               PROVE  Bucket(old_table'[c][i].key, old_table) = c
    BY <1>7 DEF Placed, Bucket
  <2>1. c \in DOMAIN old_table
    BY <1>1
  <2>2. CASE c = b
    <3>1. old_table'[c][i] = chain[i + 1] /\ i + 1 \in DOMAIN chain
      BY <1>2, <1>7, <2>2
    <3> QED
      BY <2>1, <2>2, <3>1 DEF QInv, Placed
  <2>3. CASE c # b
    BY <1>7, <2>1, <2>3 DEF QInv, Placed
  <2> QED
    BY <2>2, <2>3
<1>9. elements' \in Tables
  BY <1>1, <1>3, TablesOfBoth, LinkKeeps DEF e
<1>10. /\ DataOf(Hash[k], old_table) = <<e.data>> \o DataOf(Hash[k], old_table')
       /\ \A l \in Keys : Hash[l] # Hash[k] =>
            DataOf(Hash[l], old_table') = DataOf(Hash[l], old_table)
  <2>1. Removes(old_table', old_table, b, 1)
    BY <1>1, <1>6 DEF Removes
  <2>2. FirstOf(chain, 1, Hash[k])
    BY <1>3 DEF FirstOf
  <2>3. /\ DataOf(Hash[k], old_table) = <<chain[1].data>> \o DataOf(Hash[k], old_table')
        /\ \A l \in Keys : Hash[l] # Hash[k] =>
             DataOf(Hash[l], old_table') = DataOf(Hash[l], old_table)
    BY <1>2, <1>3, <1>4, <1>5, <1>7, <2>1, <2>2, DataOfWithout
  <2> QED
    BY <1>3, <2>3
<1>11. \A l \in Keys : DataOf(Hash[l], elements') =
         IF Hash[k] = Hash[l] THEN Append(DataOf(Hash[l], elements), e.data)
         ELSE DataOf(Hash[l], elements)
  BY <1>1, <1>3, <1>9, TablesOfBoth, DataOfLink DEF e
<1>12. ASSUME NEW l \in Keys
       PROVE  DataOf(Hash[l], elements') \o DataOf(Hash[l], old_table')
                = DataOf(Hash[l], elements) \o DataOf(Hash[l], old_table)
  <2>1. CASE Hash[l] # Hash[k]
    BY <1>10, <1>11, <2>1
  <2>2. CASE Hash[l] = Hash[k]
    <3> DEFINE x == DataOf(Hash[k], elements)
               y == DataOf(Hash[k], old_table')
               d == e.data
    <3>1. x \in Seq(Data) /\ y \in Seq(Data) /\ d \in Data
      BY <1>4, <1>7, TablesOfBoth, DataOfTypes
    <3>2. /\ DataOf(Hash[k], old_table) = <<d>> \o y
          /\ DataOf(Hash[k], elements') = Append(x, d)
      BY <1>4, <1>10, <1>11
    <3> HIDE DEF x, y, d
    <3>3. Append(x, d) \o y = x \o (<<d>> \o y)
      BY <3>1
    <3> QED
      BY <2>2, <3>2, <3>3 DEF x, y
  <2> QED
    BY <2>1, <2>2
<1>13. \A h \in Hashes : DataOf(h, elements') \o DataOf(h, old_table')
                           = DataOf(h, elements) \o DataOf(h, old_table)
  BY <1>12 DEF Hashes
<1>14. /\ Stored' = [h \in Hashes |-> DataOf(h, elements') \o DataOf(h, old_table')]
       /\ Stored = [h \in Hashes |-> DataOf(h, elements) \o DataOf(h, old_table)]
  BY DEF Stored
<1> QED
  BY <1>8, <1>13, <1>14 DEF QInv

LEMMA InitQueues == Init => QInv /\ Queues!Init
<1> SUFFICES ASSUME Init PROVE QInv /\ Queues!Init
  OBVIOUS
<1>1. QInv
  <2>1. old_table = << >>
    BY DEF Init
  <2> QED
    BY <2>1, InitKeeps DEF QInv, Placed
<1>2. InUse(elements) = {} /\ old_table = << >>
  BY SizeAssumption, EmptyTable DEF Init
<1>3. \A l \in Keys : DataOf(Hash[l], elements) = << >> /\ DataOf(Hash[l], old_table) = << >>
  BY <1>1, <1>2, TablesOfBoth, DataOfEmpty DEF DataOf
<1>4. \A h \in Hashes : DataOf(h, elements) \o DataOf(h, old_table) = << >>
  BY <1>3 DEF Hashes
<1>5. Stored = [h \in Hashes |-> << >>]
  BY <1>4 DEF Stored
<1> QED
  BY <1>1, <1>5 DEF Queues!Init

LEMMA QueueStep ==
  ASSUME QInv, [Next]_vars
  PROVE  QInv' /\ [Queues!Next]_Stored
<1>1. IInv'
  BY StepKeeps DEF QInv
<1>2. CASE UNCHANGED vars
  BY <1>1, <1>2 DEF vars, QInv, Stored
<1>3. CASE Relink
  BY <1>1, <1>3, RelinkQueues
<1>4. CASE Clean
  BY <1>1, <1>4, CleanQueues DEF Queues!Next
<1>5. ASSUME NEW k \in Keys, RemoveKey(k) PROVE QInv' /\ [Queues!Next]_Stored
  <2>1. Hash[k] \in Hashes
    BY DEF Hashes
  <2> QED
    BY <1>1, <1>5, <2>1, RemoveKeyQueues DEF Queues!Next
<1>6. ASSUME NEW k \in Keys, NEW d \in Data, Put(k, d) \/ PutPosta(k, d)
      PROVE  QInv' /\ [Queues!Next]_Stored
  <2>1. Hash[k] \in Hashes
    BY DEF Hashes
  <2>2. CASE Put(k, d)
    BY <1>1, <2>1, <2>2, PutQueues DEF Queues!Next
  <2>3. CASE PutPosta(k, d)
    BY <1>1, <2>1, <2>3, PutPostaQueues DEF Queues!Next
  <2> QED
    BY <1>6, <2>2, <2>3
<1> QED
  BY <1>2, <1>3, <1>4, <1>5, <1>6 DEF Next

\* The hash table implements a queue of data for each hash, whatever the keys,
\* their hashes and the sizes: puts, removals and dictionary_put_posta act on the
\* queue of the key, and the turns of dictionary_resize do not show.
THEOREM QueuesAreKept == Spec => KeepsItsQueues
<1>1. QInv /\ [Next]_vars => QInv' /\ [Queues!Next]_Stored
  BY QueueStep
<1> QED
  BY <1>1, InitQueues, PTL DEF Spec, KeepsItsQueues, Queues!Spec
=============================================================================
