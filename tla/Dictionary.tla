----------------------------- MODULE Dictionary -----------------------------
(***************************************************************************)
(* The hash table of commons/collections/dictionary.c, where the planifier *)
(* keeps its ESIs and its resources and the coordinator the place of each  *)
(* key.  A key is known by its hash alone.  The table doubles when its     *)
(* last free bucket is taken, and its elements are linked again one by one.*)
(***************************************************************************)
EXTENDS Sequences, Integers, FiniteSets

CONSTANTS Keys, Data, NULL,
          Hash,                \* the 32-bit hash of each key
          INITIAL_SIZE,        \* DEFAULT_DICTIONARY_INITIAL_SIZE
          MaxElements          \* bound: elements in the table

ASSUME HashAssumption == Hash \in [Keys -> Nat]
ASSUME SizeAssumption == INITIAL_SIZE \in Nat \ {0} /\ MaxElements \in Nat
ASSUME DataAssumption == NULL \in Data

VARIABLES elements,            \* the table: a chain in each of its buckets
          old_table,           \* what dictionary_resize has still to link again
          table_current_size,  \* buckets in use
          elements_amount

vars == <<elements, old_table, table_current_size, elements_amount>>

Element == [key : Keys, data : Data]

Empty(size) == [b \in 1 .. size |-> << >>]

Bucket(k, table) == (Hash[k] % Len(table)) + 1

InUse(table) == {b \in DOMAIN table : table[b] # << >>}

Resizing == InUse(old_table) # {}

\* Where dictionary_get_element stops in the chain of k.
Found(k) ==
    LET chain == elements[Bucket(k, elements)] IN
    {i \in DOMAIN chain : /\ Hash[chain[i].key] = Hash[k]
                          /\ \A j \in 1 .. i - 1 : Hash[chain[j].key] # Hash[k]}

\* dictionary_get
Get(k) == IF Found(k) = {} THEN NULL
          ELSE elements[Bucket(k, elements)][CHOOSE i \in Found(k) : TRUE].data

Without(chain, i) == SubSeq(chain, 1, i - 1) \o SubSeq(chain, i + 1, Len(chain))

\* Mutant: resizing forgets to look for the bucket in the larger table.
LinkAsBefore(table, element) ==
    [table EXCEPT ![(Hash[element.key] % INITIAL_SIZE) + 1] = Append(@, element)]

\* Mutant: the new element goes to the front of its chain.
LinkInFront(table, element) ==
    [table EXCEPT ![Bucket(element.key, table)] = <<element>> \o @]

\* At the end of the chain of its bucket.
Link(table, element) ==
    [table EXCEPT ![Bucket(element.key, table)] = Append(@, element)]

\* Mutant: a bucket taken in the new table is not counted.
LinkedUncounted(table, element, current_size) == current_size

Linked(table, element, current_size) ==
    IF table[Bucket(element.key, table)] = << >> THEN current_size + 1 ELSE current_size

\* dictionary_put into a table: the old one, or what a remove left of it.
PutInto(table, current_size, amount, element) ==
    LET size == Linked(table, element, current_size) IN
    /\ IF size > current_size /\ size >= Len(table)
       THEN /\ old_table' = Link(table, element)
            /\ elements' = Empty(Len(table) * 2)
            /\ table_current_size' = 0
       ELSE /\ elements' = Link(table, element)
            /\ table_current_size' = size
            /\ UNCHANGED old_table
    /\ elements_amount' = amount + 1

Put(k, d) ==
    /\ ~Resizing
    /\ elements_amount < MaxElements
    /\ PutInto(elements, table_current_size, elements_amount, [key |-> k, data |-> d])

\* One turn of the loop of dictionary_resize.
Relink ==
    \E b \in InUse(old_table) :
        /\ \A a \in InUse(old_table) : b <= a
        /\ elements' = Link(elements, Head(old_table[b]))
        /\ old_table' = [old_table EXCEPT ![b] = Tail(@)]
        /\ table_current_size' = Linked(elements, Head(old_table[b]), table_current_size)
        /\ UNCHANGED elements_amount

\* dictionary_remove does not count the removal of a null.
Counted(d) == IF d # NULL THEN 1 ELSE 0

\* The table and its count of buckets after dictionary_remove_element takes
\* the i-th element of bucket b out.
TableWithout(b, i) == [elements EXCEPT ![b] = Without(@, i)]

SizeWithout(b) == IF Len(elements[b]) = 1 THEN table_current_size - 1 ELSE table_current_size

RemoveKey(k) ==
    /\ ~Resizing
    /\ elements_amount' = elements_amount - Counted(Get(k))
    /\ IF Found(k) = {} THEN UNCHANGED <<elements, table_current_size>>
       ELSE \E i \in Found(k) :
              /\ elements' = TableWithout(Bucket(k, elements), i)
              /\ table_current_size' = SizeWithout(Bucket(k, elements))
    /\ UNCHANGED old_table

\* dictionary_put_posta: what is found is removed first, but not a null.
PutPosta(k, d) ==
    LET element == [key |-> k, data |-> d] IN
    /\ ~Resizing
    /\ elements_amount < MaxElements
    /\ IF Get(k) = NULL THEN PutInto(elements, table_current_size, elements_amount, element)
       ELSE \E i \in Found(k) :
              PutInto(TableWithout(Bucket(k, elements), i), SizeWithout(Bucket(k, elements)),
                      elements_amount - 1, element)

\* dictionary_clean keeps the size that the table has reached.
Clean ==
    /\ ~Resizing
    /\ elements' = Empty(Len(elements))
    /\ table_current_size' = 0
    /\ elements_amount' = 0
    /\ UNCHANGED old_table

Init ==
    /\ elements = Empty(INITIAL_SIZE)
    /\ old_table = << >>
    /\ table_current_size = 0
    /\ elements_amount = 0

Next ==
    \/ Relink \/ Clean
    \/ \E k \in Keys : RemoveKey(k) \/ \E d \in Data : Put(k, d) \/ PutPosta(k, d)

Spec == Init /\ [][Next]_vars

-----------------------------------------------------------------------------
(* Properties *)

TypeOK ==
    /\ elements \in Seq(Seq(Element)) /\ elements # << >>
    /\ old_table \in Seq(Seq(Element))
    /\ table_current_size \in Nat
    /\ elements_amount \in Int

\* Every element is in the bucket where a search for its key begins.
InItsBucket ==
    \A b \in DOMAIN elements : \A i \in DOMAIN elements[b] :
        Bucket(elements[b][i].key, elements) = b

\* table_current_size counts the buckets in use, also while they are linked again:
\* it decides when the table grows.  (Nothing says that a bucket is free then:
\* the chains of a full table may split to fill the larger one as well.)
CountsItsBuckets == table_current_size = Cardinality(InUse(elements))

\* An element of the table is found by its key, or by an older element of it.
StoredIsFound == \A b \in DOMAIN elements : \A i \in DOMAIN elements[b] : Found(elements[b][i].key) # {}
=============================================================================
