------------------------ MODULE Distribution_proofs -------------------------
(***************************************************************************)
(* What EL and KE promise for every list of instances, and EL and LSU      *)
(* while instances come, go and are used.                                  *)
(***************************************************************************)
EXTENDS MCDistribution, TLAPS, WellFoundedInduction, SequenceTheorems, FiniteSetTheorems

-----------------------------------------------------------------------------
(* The least of a set of naturals *)

\* A non-empty set of naturals has a least element, which Min returns: a loop
\* over a list that looks for a place stops at the first one.
LEMMA MinIsLeast ==
    ASSUME NEW S \in SUBSET Nat, S # {}
    PROVE  /\ Min(S) \in S
           /\ \A y \in S : Min(S) <= y
<1> DEFINE R == {ss \in Nat \X Nat : ss[1] < ss[2]}
<1>1. OpToRel(<, Nat) = R
  BY Zenon DEF OpToRel
<1>2. IsWellFoundedOn(R, Nat)
  BY <1>1, NatLessThanWellFounded, Zenon
<1> HIDE DEF R
<1>3. PICK x \in S : \A y \in S : ~(<<y, x>> \in R)
  BY <1>2, WFMin, Zenon
<1>4. \A y \in S : x <= y
  <2> SUFFICES ASSUME NEW y \in S PROVE x <= y
    OBVIOUS
  <2>1. ~(<<y, x>> \in R)
    BY <1>3
  <2>2. x \in Nat /\ y \in Nat
    OBVIOUS
  <2>3. y < x => <<y, x>> \in R
    BY <2>2 DEF R
  <2>. QED
    BY <2>1, <2>2, <2>3
<1>. QED
  BY <1>4 DEF Min

-----------------------------------------------------------------------------
(* The walk of EL *)

\* A remainder by n is a place of a list of n, counted from zero.
LEMMA RemainderInRange ==
    ASSUME NEW n \in Nat \ {0}, NEW a \in Int
    PROVE  a % n \in 0 .. n - 1
OBVIOUS

LEMMA WalkInList ==
    ASSUME NEW n \in Nat \ {0}, NEW p \in Nat, NEW step \in Int
    PROVE  WalkTo(p, step, n) \in 1 .. n
<1>1. (p + step - 1) % n \in 0 .. n - 1
  BY RemainderInRange
<1> QED
  BY <1>1 DEF WalkTo

\* The remainder of what is less than n, and of what is less than n more.
LEMMA RemainderOfOneRound ==
    ASSUME NEW n \in Nat \ {0}, NEW a \in 0 .. n - 1
    PROVE  a % n = a /\ (a + n) % n = a
OBVIOUS

\* From any place the walk reaches every other one, and the place itself last.
LEMMA WalkReaches ==
    ASSUME NEW n \in Nat \ {0}, NEW p \in 0 .. n, NEW i \in 1 .. n
    PROVE  \E step \in 1 .. n : WalkTo(p, step, n) = i
<1>1. CASE i > p
  <2>1. (i - 1) % n = i - 1
    BY RemainderOfOneRound
  <2>2. WalkTo(p, i - p, n) = i
    BY <2>1 DEF WalkTo
  <2>3. i - p \in 1 .. n
    BY <1>1
  <2> QED
    BY <2>2, <2>3
<1>2. CASE i <= p
  <2>1. ((i - 1) + n) % n = i - 1
    BY RemainderOfOneRound
  <2>2. p + (n - p + i) - 1 = (i - 1) + n
    OBVIOUS
  <2>3. WalkTo(p, n - p + i, n) = i
    BY <2>1, <2>2 DEF WalkTo
  <2>4. n - p + i \in 1 .. n
    BY <1>2
  <2> QED
    BY <2>3, <2>4
<1> QED
  BY <1>1, <1>2

-----------------------------------------------------------------------------
(* What EL chooses *)

\* While an instance is available the walk stops, at one place only.
LEMMA FirstStepExists ==
    ASSUME NEW S, NEW s \in Seq(S), NEW d \in [S -> BOOLEAN],
           NEW p \in 0 .. Len(s), AnyAvailable(s, d)
    PROVE  \E step \in 0 .. Len(s) : FirstStep(s, d, p, step)
<1> DEFINE n == Len(s)
           steps == {step \in 1 .. n : IsAvailableAt(s, d, p, step)}
<1>1. PICK i \in 1 .. n : d[s[i]]
  BY DEF AnyAvailable
<1>2. n \in Nat \ {0}
  BY <1>1
<1>3. PICK step \in 1 .. n : WalkTo(p, step, n) = i
  BY <1>1, <1>2, WalkReaches
<1>4. step \in steps
  BY <1>1, <1>3 DEF IsAvailableAt
<1>5. /\ Min(steps) \in steps
      /\ \A other \in steps : Min(steps) <= other
  <2>1. steps \in SUBSET Nat
    OBVIOUS
  <2> HIDE DEF steps
  <2> QED
    BY <1>4, <2>1, MinIsLeast
<1>6. \A less \in 1 .. Min(steps) - 1 : less \notin steps
  BY <1>5
<1>7. \A less \in 1 .. Min(steps) - 1 : less \in 1 .. n
  BY <1>5
<1>8. FirstStep(s, d, p, Min(steps))
  BY <1>5, <1>6, <1>7 DEF FirstStep
<1> QED
  BY <1>5, <1>8

\* select_instance_to_send_by_equitative_load gives an available instance of
\* the list whenever there is one, wherever the last choice was.
THEOREM ELGivesAnAvailableOne ==
    ASSUME NEW S, NEW s \in Seq(S), NEW d \in [S -> BOOLEAN],
           NEW p \in 0 .. Len(s), AnyAvailable(s, d)
    PROVE  /\ SelectByEL(s, d, p) \in ToSet(s)
           /\ d[SelectByEL(s, d, p)]
<1> DEFINE step == CHOOSE x \in 0 .. Len(s) : FirstStep(s, d, p, x)
<1>1. step \in 0 .. Len(s) /\ FirstStep(s, d, p, step)
  BY FirstStepExists, Zenon
<1>2. step \in 1 .. Len(s) /\ IsAvailableAt(s, d, p, step)
  BY <1>1 DEF FirstStep
<1>3. WalkTo(p, step, Len(s)) \in 1 .. Len(s)
  BY <1>2, WalkInList
<1>4. SelectByEL(s, d, p) = s[WalkTo(p, step, Len(s))]
  BY DEF SelectByEL
<1>5. d[s[WalkTo(p, step, Len(s))]]
  BY <1>2 DEF IsAvailableAt
<1>6. SelectByEL(s, d, p) \in ToSet(s)
  <2> HIDE DEF step
  <2>1. WalkTo(p, step, Len(s)) \in DOMAIN s
    BY <1>3
  <2> QED
    BY <1>4, <2>1, Zenon DEF ToSet
<1> QED
  BY <1>4, <1>5, <1>6

-----------------------------------------------------------------------------
(* Who is passed over *)

\* Going round the list from place a on, place b comes no later than place c.
InTheRound(a, b, c) ==
    \/ a < b /\ b <= c
    \/ c < a /\ a < b
    \/ b <= c /\ c < a

\* While the choice went round from j to l, u was chosen.
Passed(s, j, u, l) ==
    \E a, b, c \in DOMAIN s : s[a] = j /\ s[b] = u /\ s[c] = l /\ InTheRound(a, b, c)

NoneTwice(s) == \A a, b \in DOMAIN s : s[a] = s[b] => a = b

LEMMA OneRound ==
    ASSUME NEW n \in Nat \ {0}, NEW p \in 0 .. n, NEW step \in 1 .. n
    PROVE  WalkTo(p, step, n) = IF p + step <= n THEN p + step ELSE p + step - n
<1>1. CASE p + step <= n
  <2>1. p + step - 1 \in 0 .. n - 1
    BY <1>1
  <2>2. (p + step - 1) % n = p + step - 1
    BY <2>1, RemainderOfOneRound
  <2>. QED
    BY <1>1, <2>2 DEF WalkTo
<1>2. CASE p + step > n
  <2>1. p + step - 1 - n \in 0 .. n - 1
    BY <1>2
  <2>2. ((p + step - 1 - n) + n) % n = p + step - 1 - n
    BY <2>1, RemainderOfOneRound
  <2>3. (p + step - 1 - n) + n = p + step - 1
    OBVIOUS
  <2>. QED
    BY <1>2, <2>2, <2>3 DEF WalkTo
<1>. QED
  BY <1>1, <1>2

\* EL stops before it passes over an available instance.
LEMMA ELPassesOverNobody ==
    ASSUME NEW S, NEW s \in Seq(S), NEW d \in [S -> BOOLEAN],
           NEW p \in 0 .. Len(s), AnyAvailable(s, d)
    PROVE  \E q \in DOMAIN s :
               /\ s[q] = SelectByEL(s, d, p) /\ d[s[q]]
               /\ \A a \in DOMAIN s : d[s[a]] /\ a # q => ~InTheRound(a, q, p)
<1> DEFINE n == Len(s)
           step == CHOOSE x \in 0 .. Len(s) : FirstStep(s, d, p, x)
           q == WalkTo(p, step, n)
<1>1. step \in 0 .. n /\ FirstStep(s, d, p, step)
  BY FirstStepExists, Zenon
<1>2. /\ step \in 1 .. n /\ d[s[q]]
      /\ \A less \in 1 .. step - 1 : ~d[s[WalkTo(p, less, n)]]
  BY <1>1 DEF FirstStep, IsAvailableAt
<1>3. SelectByEL(s, d, p) = s[q]
  BY DEF SelectByEL
<1> HIDE DEF step
<1>4. n \in Nat \ {0} /\ DOMAIN s = 1 .. n
  BY <1>2
<1>5. \A x \in 1 .. n : WalkTo(p, x, n) = IF p + x <= n THEN p + x ELSE p + x - n
  BY <1>4, OneRound
<1>6. q = IF p + step <= n THEN p + step ELSE p + step - n
  BY <1>2, <1>5
<1>7. q \in 1 .. n
  BY <1>2, <1>4, <1>6
<1>8. ASSUME NEW a \in 1 .. n, d[s[a]], a # q, InTheRound(a, q, p)
      PROVE  FALSE
  <2> DEFINE less == IF a > p THEN a - p ELSE n - p + a
  <2>1. less \in 1 .. n /\ WalkTo(p, less, n) = a
    BY <1>4, <1>5
  <2>2. less \in 1 .. step - 1
    BY <1>2, <1>4, <1>6, <1>8 DEF InTheRound
  <2> HIDE DEF less, q
  <2>. QED
    BY <1>2, <1>8, <2>1, <2>2
<1>. QED
  BY <1>2, <1>3, <1>4, <1>7, <1>8

\* Once the choice has gone on from place c to place q without passing over a,
\* what it passed before it has still passed.
LEMMA TheRoundGoesOn ==
    ASSUME NEW a \in Nat, NEW b \in Nat, NEW c \in Nat, NEW q \in Nat, a # q,
           InTheRound(a, b, c), ~InTheRound(a, q, c)
    PROVE  InTheRound(a, b, q)
BY DEF InTheRound

\* What EL does with those that wait: it gives an available instance i, not one
\* that was passed since another one had its turn, and now i has been passed too.
LEMMA ELGoesRound ==
    ASSUME NEW S, NEW s \in Seq(S), NoneTwice(s), NEW d \in [S -> BOOLEAN],
           NEW l, ~RunsOff(s, l), AnyAvailable(s, d),
           NEW i, i = SelectByEL(s, d, LastPlace(s, l))
    PROVE  /\ i \in ToSet(s) /\ d[i]
           /\ \A j \in ToSet(s) : j # i => Passed(s, j, i, i)
           /\ l # NULL => \A j \in ToSet(s) : d[j] /\ j # i =>
                 /\ ~Passed(s, j, i, l)
                 /\ \A u : Passed(s, j, u, l) => Passed(s, j, u, i)
<1> DEFINE p == LastPlace(s, l)
<1>0. Len(s) \in Nat /\ DOMAIN s = 1 .. Len(s)
  OBVIOUS
<1>1. /\ p \in 0 .. Len(s)
      /\ l # NULL => p \in DOMAIN s /\ s[p] = l
  <2>1. CASE l = NULL
    BY <1>0, <2>1 DEF LastPlace
  <2>2. CASE l # NULL
    <3>1. \E x \in DOMAIN s : s[x] = l
      BY <2>2 DEF RunsOff, ToSet
    <3>2. p = CHOOSE x \in DOMAIN s : s[x] = l
      BY <2>2 DEF LastPlace
    <3>3. p \in DOMAIN s /\ s[p] = l
      BY <3>1, <3>2, Zenon
    <3>. QED
      BY <1>0, <3>3
  <2>. QED
    BY <2>1, <2>2
<1>2. i = SelectByEL(s, d, p)
  OBVIOUS
<1> HIDE DEF p
<1>3. PICK q \in DOMAIN s :
        /\ s[q] = i /\ d[s[q]]
        /\ \A a \in DOMAIN s : d[s[a]] /\ a # q => ~InTheRound(a, q, p)
  <2>1. \E x \in DOMAIN s :
          /\ s[x] = SelectByEL(s, d, p) /\ d[s[x]]
          /\ \A a \in DOMAIN s : d[s[a]] /\ a # x => ~InTheRound(a, x, p)
    BY <1>1, ELPassesOverNobody, Zenon
  <2>. QED
    BY <1>2, <2>1, Zenon
<1>4. i \in ToSet(s) /\ d[i]
  BY <1>3, Zenon DEF ToSet
<1>5. ASSUME NEW j \in ToSet(s), j # i
      PROVE  Passed(s, j, i, i)
  <2>1. PICK a \in DOMAIN s : s[a] = j
    BY DEF ToSet
  <2>2. InTheRound(a, q, q)
    <3>1. a # q
      BY <1>3, <1>5, <2>1
    <3>2. a \in Nat /\ q \in Nat
      BY <1>0
    <3>. QED
      BY <3>1, <3>2 DEF InTheRound
  <2>. QED
    BY <1>3, <2>1, <2>2, Zenon DEF Passed
<1>6. ASSUME l # NULL, NEW j \in ToSet(s), d[j], j # i, NEW u
      PROVE  ~Passed(s, j, i, l) /\ (Passed(s, j, u, l) => Passed(s, j, u, i))
  <2>1. PICK a \in DOMAIN s : s[a] = j
    BY DEF ToSet
  <2>2. a # q /\ ~InTheRound(a, q, p)
    BY <1>3, <1>6, <2>1
  <2>3. \A x \in DOMAIN s : /\ s[x] = j => x = a
                            /\ s[x] = i => x = q
                            /\ s[x] = l => x = p
    BY <1>1, <1>3, <1>6, <2>1 DEF NoneTwice
  <2>4. ~Passed(s, j, i, l)
    BY <2>2, <2>3, Zenon DEF Passed
  <2>5. ASSUME Passed(s, j, u, l)
        PROVE  Passed(s, j, u, i)
    <3>1. PICK b \in DOMAIN s : s[b] = u /\ InTheRound(a, b, p)
      BY <2>3, <2>5, Zenon DEF Passed
    <3>2. a \in Nat /\ b \in Nat /\ p \in Nat /\ q \in Nat
      BY <1>0, <1>1
    <3>3. InTheRound(a, b, q)
      BY <2>2, <3>1, <3>2, TheRoundGoesOn
    <3>. QED
      BY <1>3, <2>1, <3>1, <3>3, Zenon DEF Passed
  <2>. QED
    BY <2>4, <2>5
<1>. QED
  BY <1>4, <1>5, <1>6

\* A list that grows at its end keeps who has passed whom.
LEMMA PassedStays ==
    ASSUME NEW S, NEW s \in Seq(S), NEW i \in S, NEW j, NEW u, NEW l, Passed(s, j, u, l)
    PROVE  Passed(Append(s, i), j, u, l)
<1> DEFINE t == Append(s, i)
<1>1. DOMAIN s = 1 .. Len(s) /\ DOMAIN t = 1 .. Len(s) + 1 /\ Len(s) \in Nat
  OBVIOUS
<1>2. \A a \in DOMAIN s : a \in DOMAIN t /\ t[a] = s[a]
  BY <1>1
<1> HIDE DEF t
<1>3. PICK a \in DOMAIN s, b \in DOMAIN s, c \in DOMAIN s :
        s[a] = j /\ s[b] = u /\ s[c] = l /\ InTheRound(a, b, c)
  BY DEF Passed
<1>4. Passed(t, j, u, l)
  <2>1. /\ a \in DOMAIN t /\ b \in DOMAIN t /\ c \in DOMAIN t
        /\ t[a] = j /\ t[b] = u /\ t[c] = l
    BY <1>2, <1>3
  <2>. QED
    BY <1>3, <2>1, Zenon DEF Passed
<1>. QED
  BY <1>4 DEF t

LEMMA AppendedOnce ==
    ASSUME NEW S, NEW s \in Seq(S), NoneTwice(s), NEW i \in S, i \notin ToSet(s)
    PROVE  NoneTwice(Append(s, i)) /\ ToSet(Append(s, i)) = ToSet(s) \cup {i}
<1> DEFINE t == Append(s, i)
<1>1. /\ DOMAIN s = 1 .. Len(s) /\ DOMAIN t = 1 .. Len(s) + 1 /\ Len(s) \in Nat
      /\ t[Len(s) + 1] = i /\ \A a \in 1 .. Len(s) : t[a] = s[a]
  OBVIOUS
<1> HIDE DEF t
<1>2. \A a \in DOMAIN s : s[a] # i
  BY Zenon DEF ToSet
<1>3. NoneTwice(t)
  <2> SUFFICES ASSUME NEW a \in DOMAIN t, NEW b \in DOMAIN t, t[a] = t[b]
               PROVE  a = b
    BY DEF NoneTwice
  <2>1. (a \in 1 .. Len(s) \/ a = Len(s) + 1) /\ (b \in 1 .. Len(s) \/ b = Len(s) + 1)
    BY <1>1
  <2>2. CASE a \in 1 .. Len(s) /\ b \in 1 .. Len(s)
    BY <1>1, <2>2 DEF NoneTwice
  <2>. QED
    BY <1>1, <1>2, <2>1, <2>2
<1>4. ToSet(t) = ToSet(s) \cup {i}
  <2>1. \A x : x \in ToSet(t) <=> \E a \in 1 .. Len(s) + 1 : t[a] = x
    BY <1>1 DEF ToSet
  <2>2. \A x : x \in ToSet(s) <=> \E a \in 1 .. Len(s) : s[a] = x
    BY <1>1 DEF ToSet
  <2>3. ASSUME NEW x \in ToSet(t)
        PROVE  x \in ToSet(s) \cup {i}
    <3>1. PICK a \in 1 .. Len(s) + 1 : t[a] = x
      BY <2>1
    <3>2. a \in 1 .. Len(s) \/ a = Len(s) + 1
      BY <1>1
    <3>. QED
      BY <1>1, <2>2, <3>1, <3>2
  <2>4. ASSUME NEW x \in ToSet(s)
        PROVE  x \in ToSet(t)
    <3>1. PICK a \in 1 .. Len(s) : s[a] = x
      BY <2>2
    <3>2. a \in 1 .. Len(s) + 1 /\ t[a] = x
      BY <1>1, <3>1
    <3>. QED
      BY <2>1, <3>2
  <2>5. i \in ToSet(t)
    <3>1. Len(s) + 1 \in 1 .. Len(s) + 1
      BY <1>1
    <3>. QED
      BY <1>1, <2>1, <3>1
  <2>. QED
    BY <2>3, <2>4, <2>5
<1>. QED
  BY <1>3, <1>4 DEF t

-----------------------------------------------------------------------------
(* What KE chooses *)

LEMMA QuotientBound ==
    ASSUME NEW a \in Nat, NEW k \in Nat \ {0}, NEW n \in Nat
    PROVE  a \div k \in Nat /\ (a \div k < n <=> a < n * k)
<1> DEFINE q == a \div k
           r == a % k
<1>1. q \in Int /\ r \in 0 .. k - 1 /\ a = k * q + r
  OBVIOUS
<1> HIDE DEF q, r
<1>2. q \in Nat
  <2>1. CASE q <= -1
    <3>1. k * q <= -k
      BY <1>1, <2>1
    <3> QED
      BY <1>1, <3>1
  <2> QED
    BY <1>1, <2>1
<1>3. CASE q < n
  <2>1. k * (q + 1) <= k * n
    BY <1>2, <1>3
  <2>2. a < k * (q + 1)
    BY <1>1
  <2> QED
    BY <1>1, <1>2, <1>3, <2>1, <2>2 DEF q
<1>4. CASE ~(q < n)
  <2>1. k * n <= k * q
    BY <1>2, <1>4
  <2> QED
    BY <1>1, <1>2, <1>4, <2>1 DEF q
<1> QED
  BY <1>3, <1>4

\* With n instances available the letters that have one are the first
\* n * keys_per_instance, and they are in the order of the instances.
THEOREM KESplitsTheAlphabet ==
    ASSUME NEW n \in 1 .. LettersQty, NEW letter \in Nat
    PROVE  /\ InstanceIndex(letter, n) \in Nat
           /\ InstanceIndex(letter, n) < n <=> letter < n * KeysPerInstance(n)
           /\ \A other \in Nat : letter <= other => InstanceIndex(letter, n) <= InstanceIndex(other, n)
<1> DEFINE k == KeysPerInstance(n)
<1>1. k \in Nat \ {0}
  BY DEF KeysPerInstance, LettersQty
<1>2. \A a \in Nat : InstanceIndex(a, n) = a \div k
  BY DEF InstanceIndex, Quotient
<1> HIDE DEF k
<1>3. letter \div k \in Nat /\ (letter \div k < n <=> letter < n * k)
  BY <1>1, QuotientBound
<1>4. ASSUME NEW other \in Nat, letter <= other
      PROVE  letter \div k <= other \div k
  <2>1. other \div k \in Nat /\ other < (other \div k + 1) * k
    <3>1. other \div k \in Nat
      BY <1>1, QuotientBound
    <3> QED
      BY <1>1, <3>1, QuotientBound
  <2>2. letter < (other \div k + 1) * k
    BY <1>1, <1>4, <2>1
  <2>3. letter \div k < other \div k + 1
    BY <1>1, <2>1, <2>2, QuotientBound
  <2> QED
    BY <1>3, <2>1, <2>3
<1> QED
  BY <1>2, <1>3, <1>4 DEF k

-----------------------------------------------------------------------------
(* The least used *)

LEMMA LeastIsAvailable ==
    ASSUME NEW s, NEW d, NEW in_use
    PROVE  \A m : m \in LeastUsed(s, d, in_use) <=>
               /\ m \in ToSet(s) /\ d[m]
               /\ \A other \in ToSet(s) : d[other] => in_use[m] <= in_use[other]
BY DEF LeastUsed

LEMMA SomebodyIsLeast ==
    ASSUME NEW S, NEW s \in Seq(S), NEW d, NEW in_use \in [S -> Nat], AnyAvailable(s, d)
    PROVE  \E m : m \in LeastUsed(s, d, in_use)
<1> DEFINE available == {i \in ToSet(s) : d[i]}
           counts == {in_use[i] : i \in available}
<1>1. ToSet(s) \subseteq S
  BY DEF ToSet
<1>2. counts \in SUBSET Nat
  BY <1>1
<1>3. counts # {}
  <2>1. PICK x \in DOMAIN s : d[s[x]]
    BY DEF AnyAvailable
  <2>2. s[x] \in available
    BY <2>1 DEF ToSet
  <2>. QED
    BY <2>2
<1>4. Min(counts) \in counts /\ \A c \in counts : Min(counts) <= c
  <2> HIDE DEF counts
  <2>. QED
    BY <1>2, <1>3, MinIsLeast
<1>5. PICK m \in available : Min(counts) = in_use[m]
  BY <1>4
<1>6. \A other \in available : in_use[m] <= in_use[other]
  BY <1>4, <1>5
<1>7. m \in LeastUsed(s, d, in_use)
  BY <1>6, LeastIsAvailable
<1>. QED
  BY <1>7

\* Without a tie LSU gives the least used; with one it asks EL.
LEMMA LSUGivesTheLeast ==
    ASSUME NEW S, NEW s \in Seq(S), NEW d, NEW in_use \in [S -> Nat], NEW p,
           AnyAvailable(s, d)
    PROVE  LET least == LeastUsed(s, d, in_use)
           IN  IF Cardinality(least) > 1
               THEN SelectByLSU(s, d, in_use, p) = SelectByEL(s, d, p)
               ELSE SelectByLSU(s, d, in_use, p) \in least
<1> DEFINE least == LeastUsed(s, d, in_use)
<1>1. least # {}
  BY SomebodyIsLeast
<1>2. IsFiniteSet(least)
  <2>1. s \in Surjection(1 .. Len(s), ToSet(s))
    <3>1. DOMAIN s = 1 .. Len(s) /\ s \in [1 .. Len(s) -> S]
      OBVIOUS
    <3>2. s \in [1 .. Len(s) -> ToSet(s)]
      BY <3>1 DEF ToSet
    <3>3. \A x \in ToSet(s) : \E a \in 1 .. Len(s) : s[a] = x
      BY <3>1 DEF ToSet
    <3>. QED
      BY <3>2, <3>3 DEF Surjection
  <2>2. IsFiniteSet(1 .. Len(s))
    <3>1. Len(s) \in Int /\ 1 \in Int
      OBVIOUS
    <3>. QED
      BY <3>1, FS_Interval
  <2>3. IsFiniteSet(ToSet(s))
    BY <2>1, <2>2, FS_Surjection
  <2>4. least \in SUBSET ToSet(s)
    BY LeastIsAvailable
  <2>. QED
    BY <2>3, <2>4, FS_Subset
<1> HIDE DEF least
<1>3. Cardinality(least) \in Nat /\ Cardinality(least) # 0
  BY <1>1, <1>2, FS_CardinalityType, FS_EmptySet
<1>4. SelectByLSU(s, d, in_use, p) =
        IF least = {} THEN NULL
        ELSE IF Cardinality(least) = 1 THEN CHOOSE i \in least : TRUE
        ELSE SelectByEL(s, d, p)
  BY DEF SelectByLSU, least
<1>5. CASE Cardinality(least) > 1
  BY <1>1, <1>4, <1>5 DEF least
<1>6. CASE ~(Cardinality(least) > 1)
  <2>1. Cardinality(least) = 1
    BY <1>3, <1>6
  <2>2. SelectByLSU(s, d, in_use, p) \in least
    BY <1>1, <1>4, <2>1
  <2>. QED
    BY <1>6, <2>2 DEF least
<1>. QED
  BY <1>5, <1>6

\* Who leaves takes nothing from the least used, unless he is one of them.
LEMMA LeastAfterLeaving ==
    ASSUME NEW S, NEW s \in Seq(S), NEW d \in [S -> BOOLEAN], NEW in_use \in [S -> Nat],
           NEW i \in S, i \notin LeastUsed(s, d, in_use), NEW m \in LeastUsed(s, d, in_use),
           NEW e \in [S -> BOOLEAN], ~e[i], \A k \in S : k # i => e[k] = d[k]
    PROVE  LeastUsed(s, e, in_use) = LeastUsed(s, d, in_use)
<1>1. ToSet(s) \subseteq S
  BY DEF ToSet
<1>2. \A k \in ToSet(s) : (e[k] => d[k]) /\ (k # i => e[k] = d[k])
  BY <1>1
<1>3. \A k \in LeastUsed(s, d, in_use) : k \in LeastUsed(s, e, in_use)
  BY <1>2, LeastIsAvailable
<1>4. ASSUME NEW k \in LeastUsed(s, e, in_use)
      PROVE  k \in LeastUsed(s, d, in_use)
  <2>1. k \in ToSet(s) /\ d[k] /\ in_use[k] <= in_use[m]
    BY <1>2, <1>3, LeastIsAvailable
  <2>2. m \in ToSet(s) /\ \A other \in ToSet(s) : d[other] => in_use[m] <= in_use[other]
    BY LeastIsAvailable
  <2>3. \A other \in ToSet(s) : in_use[other] \in Nat
    BY <1>1
  <2>4. \A other \in ToSet(s) : d[other] => in_use[k] <= in_use[other]
    BY <2>1, <2>2, <2>3
  <2>. QED
    BY <2>1, <2>4, LeastIsAvailable
<1>. QED
  BY <1>3, <1>4

-----------------------------------------------------------------------------
(* The inductive invariant *)

Types ==
    /\ distribution \in {"EL", "LSU"}
    /\ list \in Seq(Instances)
    /\ is_available \in [Instances -> BOOLEAN]
    /\ entries_in_use \in [Instances -> Nat]
    /\ turns \in [Instances -> SUBSET Instances]

\* The list has an instance once, and every one that is available, that a key is
\* located in, or that was chosen last and has not connected again.
Listed ==
    /\ NoneTwice(list)
    /\ \A i \in Instances : is_available[i] => i \in ToSet(list)
    /\ with_keys \subseteq ToSet(list)
    /\ last \in ToSet(list) \cup {NULL, GONE}

\* Nobody waits for anything before the first choice, nor under the other strategy.
NobodyWaits ==
    /\ last = NULL => fuller = {} /\ \A j \in Instances : turns[j] = {}
    /\ distribution = "EL" => fuller = {}
    /\ distribution = "LSU" => \A j \in Instances : turns[j] = {}

\* Who was chosen while j waits has been passed since j had its turn.
TurnsGoRound ==
    last \in ToSet(list) =>
        \A j \in Instances : is_available[j] => \A u \in turns[j] : Passed(list, j, u, last)

\* And, under LSU, since one of the least used had, unless the last choice has
\* become the only one of them, and is the next.
FullerGoRound ==
    last \in ToSet(list) =>
        \/ fuller = {}
        \/ Least = {last}
        \/ \E m \in Least : \A u \in fuller : Passed(list, m, u, last)

IInv == Types /\ Listed /\ NobodyWaits /\ TurnsGoRound /\ FullerGoRound

LEMMA InitIInv == ASSUME Init PROVE IInv
<1>1. /\ list = << >> /\ list \in Seq(Instances) /\ DOMAIN list = {}
  BY DEF Init
<1>2. ToSet(list) = {}
  BY <1>1 DEF ToSet
<1>3. Types
  BY <1>1 DEF Init, Types
<1>4. NoneTwice(list)
  BY <1>1 DEF NoneTwice
<1>5. last = NULL /\ with_keys = {} /\ \A i \in Instances : ~is_available[i]
  BY DEF Init
<1>6. NobodyWaits
  BY DEF Init, NobodyWaits
<1>7. last \notin ToSet(list)
  BY <1>2
<1>. QED
  BY <1>2, <1>3, <1>4, <1>5, <1>6, <1>7 DEF IInv, Listed, TurnsGoRound, FullerGoRound

-----------------------------------------------------------------------------
(* Its steps *)

LEMMA ToBeSent ==
    ASSUME Types, NEW i \in Instances, SendToInstance(i)
    PROVE  /\ last' = i
           /\ is_available' = is_available \/ is_available' = [is_available EXCEPT ![i] = FALSE]
           /\ is_available' \in [Instances -> BOOLEAN]
           /\ \A j \in Instances : is_available'[j] => is_available[j]
           /\ \E x \in Nat : entries_in_use' = [entries_in_use EXCEPT ![i] = x]
           /\ entries_in_use' \in [Instances -> Nat]
<1>1. is_available' = is_available \/ is_available' = [is_available EXCEPT ![i] = FALSE]
  BY DEF SendToInstance
<1>2. \E x \in Nat : entries_in_use' = [entries_in_use EXCEPT ![i] = x]
  <2>1. 0 .. MaxEntries \subseteq Nat /\ {0} \subseteq Nat
    BY EntriesAssumption
  <2>2. PICK x \in IF distribution = "LSU" THEN 0 .. MaxEntries ELSE {0} :
            entries_in_use' = [entries_in_use EXCEPT ![i] = x]
    BY DEF SendToInstance
  <2>. QED
    BY <2>1, <2>2
<1>. QED
  BY <1>1, <1>2 DEF Types, SendToInstance

\* A choice that is made: EL's of an available instance, or one of the least used.
LEMMA ChoiceMade ==
    ASSUME IInv, Select, ~dead'
    PROVE  \E i \in Instances :
               /\ i \in ToSet(list) /\ is_available[i]
               /\ UsesEL => /\ ~RunsOff(list, last)
                            /\ i = SelectByEL(list, is_available, LastPlace(list, last))
               /\ ~UsesEL => distribution = "LSU" /\ i \in Least
               /\ AnyAvailable(list, is_available)
               /\ SendToInstance(i)
               /\ with_keys' = with_keys \cup {i}
               /\ turns' = [j \in Instances |->
                      IF j = i \/ distribution = "LSU" THEN {} ELSE turns[j] \cup {i}]
               /\ fuller' = IF i \in Least \/ distribution = "EL" THEN {}
                            ELSE fuller \cup {i}
               /\ UNCHANGED <<distribution, list, dead>>
<1>0. Types /\ Listed
  BY DEF IInv
<1>1. /\ UsesEL => ~RunsOff(list, last)
      /\ AnyAvailable(list, is_available)
      /\ SendToInstance(Chosen)
      /\ with_keys' = with_keys \cup {Chosen}
      /\ turns' = [j \in Instances |->
             IF j = Chosen \/ distribution = "LSU" THEN {} ELSE turns[j] \cup {Chosen}]
      /\ fuller' = IF Chosen \in Least \/ distribution = "EL" THEN {}
                   ELSE fuller \cup {Chosen}
      /\ UNCHANGED <<distribution, list, dead>>
  BY Zenon DEF Select
<1>2. PICK i : i = Chosen
  OBVIOUS
<1>3. /\ UsesEL => i = SelectByEL(list, is_available, LastPlace(list, last))
      /\ ~UsesEL => distribution = "LSU" /\ i \in Least
  <2>1. CASE distribution = "EL"
    BY <1>2, <2>1 DEF Chosen, UsesEL
  <2>2. CASE distribution = "LSU"
    <3>1. i = SelectByLSU(list, is_available, entries_in_use, LastPlace(list, last))
      BY <1>2, <2>2 DEF Chosen
    <3>2. IF Cardinality(Least) > 1
          THEN SelectByLSU(list, is_available, entries_in_use, LastPlace(list, last))
                 = SelectByEL(list, is_available, LastPlace(list, last))
          ELSE SelectByLSU(list, is_available, entries_in_use, LastPlace(list, last)) \in Least
      BY <1>0, <1>1, LSUGivesTheLeast DEF Types, Least
    <3>. QED
      BY <2>2, <3>1, <3>2 DEF UsesEL
  <2>. QED
    BY <1>0, <2>1, <2>2 DEF Types
<1>4. i \in ToSet(list) /\ is_available[i]
  <2>1. CASE UsesEL
    BY <1>0, <1>1, <1>3, <2>1, ELGoesRound DEF Types, Listed
  <2>2. CASE ~UsesEL
    BY <1>3, <2>2, LeastIsAvailable DEF Least
  <2>. QED
    BY <2>1, <2>2
<1>5. i \in Instances
  BY <1>0, <1>4 DEF Types, ToSet
<1>6. /\ SendToInstance(i)
      /\ with_keys' = with_keys \cup {i}
      /\ turns' = [j \in Instances |->
             IF j = i \/ distribution = "LSU" THEN {} ELSE turns[j] \cup {i}]
      /\ fuller' = IF i \in Least \/ distribution = "EL" THEN {} ELSE fuller \cup {i}
  BY <1>1, <1>2
<1>. QED
  BY <1>1, <1>3, <1>4, <1>5, <1>6

\* Whom EL has passed when it chooses i.
LEMMA ELChoice ==
    ASSUME IInv, ~RunsOff(list, last), AnyAvailable(list, is_available),
           NEW i, i = SelectByEL(list, is_available, LastPlace(list, last)),
           NEW j \in ToSet(list), is_available[j], j # i
    PROVE  /\ Passed(list, j, i, i)
           /\ last # NULL => /\ last \in ToSet(list)
                             /\ ~Passed(list, j, i, last)
                             /\ \A u : Passed(list, j, u, last) => Passed(list, j, u, i)
<1>1. list \in Seq(Instances) /\ NoneTwice(list) /\ is_available \in [Instances -> BOOLEAN]
  BY DEF IInv, Types, Listed
<1>2. last # NULL => last \in ToSet(list)
  BY DEF RunsOff
<1>. QED
  BY <1>1, <1>2, ELGoesRound

\* When a fuller instance is sent a sentence, one of the least used still is one,
\* unless the fuller has now less than all of them.
LEMMA LeastAfterSending ==
    ASSUME Types, NEW i \in ToSet(list), i \notin Least, NEW m \in Least,
           NEW e \in [Instances -> BOOLEAN], NEW then \in [Instances -> Nat],
           \A k \in Instances : k # i => e[k] = is_available[k],
           \A k \in Instances : k # i => then[k] = entries_in_use[k]
    PROVE  m \in LeastUsed(list, e, then) \/ LeastUsed(list, e, then) = {i}
<1>1. ToSet(list) \subseteq Instances
  BY DEF ToSet, Types
<1>2. /\ m \in ToSet(list) /\ is_available[m] /\ m # i
      /\ \A other \in ToSet(list) :
             is_available[other] => entries_in_use[m] <= entries_in_use[other]
  BY LeastIsAvailable DEF Least
<1>3. \A k \in ToSet(list) : k # i => then[k] = entries_in_use[k] /\ e[k] = is_available[k]
  BY <1>1
<1>4. \A k \in ToSet(list) : then[k] \in Nat
  BY <1>1
<1>5. CASE ~e[i] \/ then[m] <= then[i]
  <2>1. \A other \in ToSet(list) : e[other] => then[m] <= then[other]
    BY <1>2, <1>3, <1>5
  <2>2. m \in LeastUsed(list, e, then)
    BY <1>2, <1>3, <2>1, LeastIsAvailable
  <2>. QED
    BY <2>2
<1>6. CASE e[i] /\ then[i] < then[m]
  <2>0. then[m] \in Nat /\ then[i] \in Nat
    BY <1>2, <1>4
  <2>1. ASSUME NEW other \in ToSet(list), e[other]
        PROVE  then[i] <= then[other]
    <3>1. CASE other # i
      <4>1. /\ then[m] = entries_in_use[m]
            /\ then[other] = entries_in_use[other] /\ then[other] \in Nat
        BY <1>2, <1>3, <1>4, <3>1
      <4>2. entries_in_use[m] <= entries_in_use[other]
        BY <1>2, <1>3, <2>1, <3>1
      <4>. QED
        BY <1>6, <2>0, <4>1, <4>2
    <3>. QED
      BY <2>0, <3>1
  <2>2. i \in LeastUsed(list, e, then)
    BY <1>6, <2>1, LeastIsAvailable
  <2>3. ASSUME NEW k \in LeastUsed(list, e, then)
        PROVE  k = i
    <3>1. k \in ToSet(list) /\ e[k] /\ then[k] <= then[i]
      BY <1>6, LeastIsAvailable
    <3>2. CASE k # i
      <4>1. /\ entries_in_use[m] <= entries_in_use[k]
            /\ then[m] = entries_in_use[m] /\ then[k] = entries_in_use[k]
        BY <1>2, <1>3, <3>1, <3>2
      <4>2. then[m] \in Nat /\ then[k] \in Nat
        BY <1>2, <1>4, <3>1
      <4>. QED
        BY <1>6, <2>0, <3>1, <4>1, <4>2
    <3>. QED
      BY <3>2
  <2>. QED
    BY <2>2, <2>3
<1>7. then[m] <= then[i] \/ then[i] < then[m]
  BY <1>2, <1>4
<1>. QED
  BY <1>5, <1>6, <1>7, Zenon

LEMMA SelectIInv == ASSUME IInv, Select, ~dead' PROVE IInv'
<1>0. Types /\ Listed /\ NobodyWaits /\ TurnsGoRound /\ FullerGoRound
  BY DEF IInv
<1>1. PICK i \in Instances :
        /\ i \in ToSet(list) /\ is_available[i]
        /\ UsesEL => /\ ~RunsOff(list, last)
                     /\ i = SelectByEL(list, is_available, LastPlace(list, last))
        /\ ~UsesEL => distribution = "LSU" /\ i \in Least
        /\ AnyAvailable(list, is_available)
        /\ SendToInstance(i)
        /\ with_keys' = with_keys \cup {i}
        /\ turns' = [j \in Instances |->
               IF j = i \/ distribution = "LSU" THEN {} ELSE turns[j] \cup {i}]
        /\ fuller' = IF i \in Least \/ distribution = "EL" THEN {} ELSE fuller \cup {i}
        /\ UNCHANGED <<distribution, list, dead>>
  BY ChoiceMade
<1>2. /\ last' = i
      /\ is_available' = is_available \/ is_available' = [is_available EXCEPT ![i] = FALSE]
      /\ is_available' \in [Instances -> BOOLEAN]
      /\ \A j \in Instances : is_available'[j] => is_available[j]
      /\ \E x \in Nat : entries_in_use' = [entries_in_use EXCEPT ![i] = x]
      /\ entries_in_use' \in [Instances -> Nat]
  BY <1>0, <1>1, ToBeSent
<1>3. Types'
  BY <1>0, <1>1, <1>2 DEF Types
<1>4. Listed'
  BY <1>0, <1>1, <1>2 DEF Listed
<1>5. i # NULL
  BY <1>1, NoInstance
<1>6. NobodyWaits'
  BY <1>0, <1>1, <1>2, <1>5 DEF NobodyWaits, Types
<1>7. TurnsGoRound'
  <2> SUFFICES ASSUME NEW j \in Instances, is_available'[j], NEW u \in turns'[j]
               PROVE  Passed(list, j, u, i)
    BY <1>1, <1>2 DEF TurnsGoRound
  <2>1. j # i /\ distribution = "EL" /\ u \in turns[j] \cup {i}
    BY <1>0, <1>1 DEF Types
  <2>2. is_available[j] /\ j \in ToSet(list)
    BY <1>0, <1>2 DEF Listed
  <2>3. UsesEL
    BY <2>1 DEF UsesEL
  <2>4. /\ Passed(list, j, i, i)
        /\ last # NULL => /\ last \in ToSet(list)
                          /\ \A v : Passed(list, j, v, last) => Passed(list, j, v, i)
    BY <1>1, <2>1, <2>2, <2>3, ELChoice
  <2>5. CASE u \in turns[j]
    <3>1. last # NULL
      BY <1>0, <2>5 DEF NobodyWaits
    <3>2. Passed(list, j, u, last)
      BY <1>0, <2>2, <2>4, <2>5, <3>1 DEF TurnsGoRound
    <3>. QED
      BY <2>4, <3>1, <3>2
  <2>. QED
    BY <2>1, <2>4, <2>5
<1>8. FullerGoRound'
  <2>1. CASE i \in Least \/ distribution = "EL"
    BY <1>1, <2>1 DEF FullerGoRound
  <2>2. CASE ~(i \in Least \/ distribution = "EL")
    <3>1. UsesEL /\ fuller' = fuller \cup {i} /\ Cardinality(Least) > 1
      BY <1>1, <2>2 DEF UsesEL
    <3>2. \E m \in Least : \A u \in fuller : last \in ToSet(list) /\ Passed(list, m, u, last)
      <4>1. CASE fuller = {}
        <5>1. \E m : m \in Least
          BY <1>0, <1>1, SomebodyIsLeast DEF Types, Least
        <5>. QED
          BY <4>1, <5>1
      <4>2. CASE fuller # {}
        <5>1. last # NULL
          BY <1>0, <4>2 DEF NobodyWaits
        <5>2. last \in ToSet(list)
          BY <1>1, <3>1, <5>1 DEF RunsOff
        <5>3. Least # {last}
          <6>1. \A x : Cardinality({x}) = 1
            BY FS_Singleton
          <6>. QED
            BY <3>1, <6>1
        <5>. QED
          BY <1>0, <4>2, <5>2, <5>3 DEF FullerGoRound
      <4>. QED
        BY <4>1, <4>2
    <3>3. PICK m \in Least : \A u \in fuller : last \in ToSet(list) /\ Passed(list, m, u, last)
      BY <3>2
    <3>4. m # i /\ m \in ToSet(list) /\ is_available[m]
      BY <2>2, <3>3, LeastIsAvailable DEF Least
    <3>5. /\ Passed(list, m, i, i)
          /\ last # NULL => \A v : Passed(list, m, v, last) => Passed(list, m, v, i)
      BY <1>1, <3>1, <3>4, ELChoice
    <3>6. \A u \in fuller : last # NULL
      BY <1>0 DEF NobodyWaits
    <3>7. \A u \in fuller' : Passed(list, m, u, i)
      BY <3>1, <3>3, <3>5, <3>6
    <3>8. m \in Least' \/ Least' = {i}
      <4>1. PICK x \in Nat : entries_in_use' = [entries_in_use EXCEPT ![i] = x]
        BY <1>2
      <4>2. PICK e, then : e = is_available' /\ then = entries_in_use'
        OBVIOUS
      <4>3. m \in LeastUsed(list, e, then) \/ LeastUsed(list, e, then) = {i}
        <5>1. /\ e \in [Instances -> BOOLEAN] /\ then \in [Instances -> Nat]
              /\ \A k \in Instances : k # i => e[k] = is_available[k]
              /\ \A k \in Instances : k # i => then[k] = entries_in_use[k]
          BY <1>0, <1>2, <4>1, <4>2 DEF Types
        <5>2. Types /\ i \in ToSet(list) /\ i \notin Least /\ m \in Least
          BY <1>0, <1>1, <2>2, <3>3
        <5>. QED
          BY <5>1, <5>2, LeastAfterSending
      <4>. QED
        BY <1>1, <4>2, <4>3 DEF Least
    <3>. QED
      BY <1>1, <1>2, <3>7, <3>8 DEF FullerGoRound
  <2>. QED
    BY <2>1, <2>2
<1>. QED
  BY <1>3, <1>4, <1>6, <1>7, <1>8 DEF IInv

\* A sentence for an old key starts the turns anew.
LEMMA UseIInv == ASSUME IInv, NEW i \in Instances, Use(i) PROVE IInv'
<1>0. Types /\ Listed
  BY DEF IInv
<1>1. /\ i \in ToSet(list) /\ SendToInstance(i)
      /\ turns' = [j \in Instances |-> {}] /\ fuller' = {}
      /\ UNCHANGED <<distribution, list, with_keys>>
  BY <1>0 DEF Use, Listed
<1>2. /\ last' = i
      /\ is_available' \in [Instances -> BOOLEAN]
      /\ \A j \in Instances : is_available'[j] => is_available[j]
      /\ entries_in_use' \in [Instances -> Nat]
  BY <1>0, <1>1, ToBeSent
<1>3. Types'
  BY <1>0, <1>1, <1>2 DEF Types
<1>4. Listed'
  BY <1>0, <1>1, <1>2 DEF Listed
<1>. QED
  BY <1>1, <1>3, <1>4 DEF IInv, NobodyWaits, TurnsGoRound, FullerGoRound

LEMMA DisconnectIInv == ASSUME IInv, NEW i \in Instances, Disconnect(i) PROVE IInv'
<1>0. Types /\ Listed /\ NobodyWaits /\ TurnsGoRound /\ FullerGoRound
  BY DEF IInv
<1>1. /\ is_available' = [is_available EXCEPT ![i] = FALSE]
      /\ fuller' = IF i \in Least THEN {} ELSE fuller
      /\ UNCHANGED <<distribution, list, entries_in_use, last, with_keys, turns>>
  BY DEF Disconnect
<1>2. \A j \in Instances : is_available'[j] => is_available[j]
  BY <1>0, <1>1 DEF Types
<1>3. Types'
  BY <1>0, <1>1 DEF Types
<1>4. Listed'
  BY <1>0, <1>1, <1>2 DEF Listed
<1>5. NobodyWaits'
  BY <1>0, <1>1 DEF NobodyWaits
<1>6. TurnsGoRound'
  BY <1>0, <1>1, <1>2 DEF TurnsGoRound
<1>7. FullerGoRound'
  <2>1. CASE i \in Least
    BY <1>1, <2>1 DEF FullerGoRound
  <2>2. CASE i \notin Least
    <3>1. \A m \in Least : Least' = Least
      <4> SUFFICES ASSUME NEW m \in Least PROVE Least' = Least
        OBVIOUS
      <4>1. PICK e : e = [is_available EXCEPT ![i] = FALSE]
        OBVIOUS
      <4>2. LeastUsed(list, e, entries_in_use) = LeastUsed(list, is_available, entries_in_use)
        <5>1. /\ list \in Seq(Instances) /\ is_available \in [Instances -> BOOLEAN]
              /\ entries_in_use \in [Instances -> Nat]
          BY <1>0 DEF Types
        <5>2. /\ i \notin LeastUsed(list, is_available, entries_in_use)
              /\ m \in LeastUsed(list, is_available, entries_in_use)
          BY <2>2 DEF Least
        <5>3. /\ e \in [Instances -> BOOLEAN] /\ ~e[i]
              /\ \A k \in Instances : k # i => e[k] = is_available[k]
          BY <4>1, <5>1
        <5>. QED
          BY <5>1, <5>2, <5>3, LeastAfterLeaving
      <4>. QED
        BY <1>1, <4>1, <4>2 DEF Least
    <3>2. fuller' = fuller /\ last' = last /\ list' = list
      BY <1>1, <2>2
    <3> QED
      BY <1>0, <3>1, <3>2 DEF FullerGoRound
  <2>. QED
    BY <2>1, <2>2
<1>. QED
  BY <1>3, <1>4, <1>5, <1>6, <1>7 DEF IInv

LEMMA ConnectIInv == ASSUME IInv, NEW i \in Instances, Connect(i) PROVE IInv'
<1>0. Types /\ Listed /\ NobodyWaits /\ TurnsGoRound /\ FullerGoRound
  BY DEF IInv
<1>1. /\ list' = IF i \in ToSet(list) THEN list ELSE Append(list, i)
      /\ is_available' = [is_available EXCEPT ![i] = TRUE]
      /\ last' = IF last = i THEN GONE ELSE last
      /\ turns' = [turns EXCEPT ![i] = {}]
      /\ fuller' = {}
      /\ UNCHANGED <<distribution, entries_in_use, with_keys>>
  BY DEF Connect
<1>2. /\ list' \in Seq(Instances) /\ NoneTwice(list')
      /\ ToSet(list') = ToSet(list) \cup {i}
  <2>1. CASE i \in ToSet(list)
    BY <1>0, <1>1, <2>1 DEF Types, Listed
  <2>2. CASE i \notin ToSet(list)
    <3>1. Append(list, i) \in Seq(Instances)
      BY <1>0 DEF Types
    <3>2. NoneTwice(Append(list, i)) /\ ToSet(Append(list, i)) = ToSet(list) \cup {i}
      BY <1>0, <2>2, AppendedOnce DEF Types, Listed
    <3>. QED
      BY <1>1, <2>2, <3>1, <3>2
  <2>. QED
    BY <2>1, <2>2
<1>3. Types'
  BY <1>0, <1>1, <1>2 DEF Types
<1>4. Listed'
  BY <1>0, <1>1, <1>2 DEF Listed, Types
<1>5. \A j \in Instances : turns'[j] = IF j = i THEN {} ELSE turns[j]
  BY <1>0, <1>1 DEF Types
<1>6. NobodyWaits'
  <2>1. last' = NULL => last = NULL
    BY <1>1, NoInstance
  <2>. QED
    BY <1>0, <1>1, <1>5, <2>1 DEF NobodyWaits
<1>7. TurnsGoRound'
  <2> SUFFICES ASSUME last' \in ToSet(list'), NEW j \in Instances, is_available'[j],
                      NEW u \in turns'[j]
               PROVE  Passed(list', j, u, last')
    BY DEF TurnsGoRound
  <2>1. j # i /\ u \in turns[j] /\ is_available[j]
    BY <1>0, <1>1, <1>5 DEF Types
  <2>2. last # NULL
    BY <1>0, <2>1 DEF NobodyWaits
  <2>3. last' = last /\ last \in ToSet(list)
    <3>1. last' # GONE
      <4>1. ToSet(list') \subseteq Instances
        BY <1>2 DEF ToSet
      <4>. QED
        BY <4>1, NoInstance
    <3>2. last' = last /\ last # GONE
      BY <1>1, <3>1
    <3>. QED
      BY <1>0, <2>2, <3>2 DEF Listed
  <2>4. Passed(list, j, u, last)
    BY <1>0, <2>1, <2>3 DEF TurnsGoRound
  <2>5. CASE i \in ToSet(list)
    BY <1>1, <2>3, <2>4, <2>5
  <2>6. CASE i \notin ToSet(list)
    <3>1. Passed(Append(list, i), j, u, last)
      BY <1>0, <2>4, PassedStays DEF Types
    <3>. QED
      BY <1>1, <2>3, <2>6, <3>1
  <2>. QED
    BY <2>5, <2>6
<1>8. FullerGoRound'
  BY <1>1 DEF FullerGoRound
<1>. QED
  BY <1>3, <1>4, <1>6, <1>7, <1>8 DEF IInv

-----------------------------------------------------------------------------
(* What EL and LSU promise *)

LEMMA NextIInv == ASSUME IInv, [Next]_vars PROVE IInv'
<1>1. CASE UNCHANGED vars
  BY <1>1 DEF vars, IInv, Types, Listed, NobodyWaits, TurnsGoRound, FullerGoRound, Least
<1>2. CASE Next
  <2>1. CASE Select
    <3>1. CASE UNCHANGED <<distribution, list, is_available, entries_in_use, last,
                           with_keys, turns, fuller>>
      BY <3>1 DEF IInv, Types, Listed, NobodyWaits, TurnsGoRound, FullerGoRound, Least
    <3>2. CASE UNCHANGED dead
      <4>1. ~dead'
        BY <1>2, <3>2 DEF Next
      <4>. QED
        BY <2>1, <4>1, SelectIInv
    <3>3. \/ UNCHANGED <<distribution, list, is_available, entries_in_use, last,
                         with_keys, turns, fuller>>
          \/ UNCHANGED dead
      BY <2>1, Zenon DEF Select
    <3>. QED
      BY <3>1, <3>2, <3>3
  <2>2. ASSUME NEW i \in Instances, Connect(i)
        PROVE  IInv'
    BY <2>2, ConnectIInv
  <2>3. ASSUME NEW i \in Instances, Disconnect(i)
        PROVE  IInv'
    BY <2>3, DisconnectIInv
  <2>4. ASSUME NEW i \in Instances, Use(i)
        PROVE  IInv'
    BY <2>4, UseIInv
  <2>. QED
    BY <1>2, <2>1, <2>2, <2>3, <2>4 DEF Next
<1>. QED
  BY <1>1, <1>2

\* The coordinator keeps the order in which its instances have been passed, through
\* the connections, the disconnections and the sentences of process_sentence.
THEOREM RoundsAreKept == Spec => []IInv
<1>1. Init => IInv
  BY InitIInv
<1>2. IInv /\ [Next]_vars => IInv'
  BY NextIInv
<1>. QED
  BY <1>1, <1>2, PTL DEF Spec

\* What a choice that is made says of those that wait.
LEMMA NoneIsPassedOver ==
    ASSUME IInv, Select, ~dead'
    PROVE  /\ \A j \in Instances : is_available[j] /\ last' # j => last' \notin turns[j]
           /\ distribution = "LSU" => last' \in Least \/ last' \notin fuller
<1>0. Types /\ Listed /\ NobodyWaits /\ TurnsGoRound /\ FullerGoRound
  BY DEF IInv
<1>1. PICK i \in Instances :
        /\ i \in ToSet(list) /\ is_available[i]
        /\ UsesEL => /\ ~RunsOff(list, last)
                     /\ i = SelectByEL(list, is_available, LastPlace(list, last))
        /\ ~UsesEL => distribution = "LSU" /\ i \in Least
        /\ AnyAvailable(list, is_available)
        /\ SendToInstance(i)
  BY ChoiceMade
<1>2. last' = i
  BY <1>1 DEF SendToInstance
<1>3. ASSUME NEW j \in Instances, is_available[j], i # j, i \in turns[j]
      PROVE  FALSE
  <2>1. distribution = "EL" /\ last # NULL
    BY <1>0, <1>3 DEF NobodyWaits, Types
  <2>2. UsesEL /\ j \in ToSet(list)
    BY <1>0, <1>3, <2>1 DEF UsesEL, Listed
  <2>3. last \in ToSet(list) /\ ~Passed(list, j, i, last)
    BY <1>1, <1>3, <2>1, <2>2, ELChoice
  <2>. QED
    BY <1>0, <1>3, <2>3 DEF TurnsGoRound
<1>4. ASSUME distribution = "LSU", i \notin Least, i \in fuller
      PROVE  FALSE
  <2>1. last # NULL
    BY <1>0, <1>4 DEF NobodyWaits
  <2>2. UsesEL /\ Cardinality(Least) > 1
    BY <1>1, <1>4 DEF UsesEL
  <2>3. last \in ToSet(list)
    BY <1>1, <2>1, <2>2 DEF RunsOff
  <2>4. Least # {last}
    <3>1. \A x : Cardinality({x}) = 1
      BY FS_Singleton
    <3>. QED
      BY <2>2, <3>1
  <2>5. PICK m \in Least : Passed(list, m, i, last)
    BY <1>0, <1>4, <2>3, <2>4 DEF FullerGoRound
  <2>6. m # i /\ m \in ToSet(list) /\ is_available[m]
    BY <1>4, <2>5, LeastIsAvailable DEF Least
  <2>7. ~Passed(list, m, i, last)
    BY <1>1, <2>1, <2>2, <2>6, ELChoice
  <2>. QED
    BY <2>5, <2>7
<1>. QED
  BY <1>2, <1>3, <1>4

\* EL shares the new keys out evenly among any number of instances, whatever
\* comes, goes and is used: nobody that is available all along and waits its
\* turn sees another one chosen twice (select_instance_to_send_by_equitative_load).
THEOREM ELSkipsNobody == Spec => NobodyIsSkipped
<1>1. IInv /\ [Next]_vars =>
        [ Select /\ ~dead' =>
            \A j \in Instances : is_available[j] /\ last' # j => last' \notin turns[j] ]_vars
  BY NoneIsPassedOver
<1>. QED
  BY <1>1, RoundsAreKept, PTL DEF Spec, NobodyIsSkipped

\* LSU, which leaves its ties to EL, does not choose the same fuller instance
\* twice before one of the least used, as long as these stay and nobody connects
\* (select_instance_to_send_by_lsu).
THEOREM LSUReachesTheLeast == Spec => LSUSoonChoosesTheLeast
<1>1. IInv /\ [Next]_vars =>
        [ distribution = "LSU" /\ Select /\ ~dead' =>
            last' \in Least \/ last' \notin fuller ]_vars
  BY NoneIsPassedOver
<1>. QED
  BY <1>1, RoundsAreKept, PTL DEF Spec, LSUSoonChoosesTheLeast

-----------------------------------------------------------------------------
(* Who has which letters *)

LEMMA UpToTheLast ==
  ASSUME NEW n \in Nat, NEW P, 0 \in P, \A i \in 1 .. n : i - 1 \in P => i \in P
  PROVE  \A i \in 0 .. n : i \in P
<1> DEFINE outside == {i \in 0 .. n : i \notin P}
<1>1. ASSUME outside # {} PROVE FALSE
  <2>1. Min(outside) \in outside /\ \A y \in outside : Min(outside) <= y
    BY <1>1, MinIsLeast
  <2> DEFINE m == Min(outside)
  <2> HIDE DEF m
  <2>2. m \in 0 .. n /\ m \notin P /\ \A y \in outside : m <= y
    BY <2>1 DEF m
  <2>3. m \in 1 .. n /\ m - 1 \in 0 .. n /\ m - 1 \notin outside
    BY <2>2
  <2> QED
    BY <2>2, <2>3
<1> QED
  BY <1>1

\* f says what each of n rounds of a loop leaves, from base: G is what one does.
Rounds(f, n, base, G) == f[0] = base /\ \A i \in 1 .. n : f[i] = G[i][f[i - 1]]

LEMMA Recursion ==
  ASSUME NEW X, NEW n \in Nat, NEW base \in X, NEW G \in [1 .. n -> [X -> X]]
  PROVE  \E f \in [0 .. n -> X] : Rounds(f, n, base, G)
<1> DEFINE P == {m \in 0 .. n : \E f \in [0 .. n -> X] : Rounds(f, m, base, G)}
<1>1. 0 \in P
  <2> DEFINE c == [i \in 0 .. n |-> base]
  <2>1. c \in [0 .. n -> X] /\ c[0] = base /\ \A i \in 1 .. 0 : c[i] = G[i][c[i - 1]]
    OBVIOUS
  <2> HIDE DEF c
  <2> QED
    BY <2>1 DEF Rounds
<1>2. ASSUME NEW m \in 1 .. n, m - 1 \in P PROVE m \in P
  <2>1. PICK f \in [0 .. n -> X] : Rounds(f, m - 1, base, G)
    BY <1>2
  <2> DEFINE g == [f EXCEPT ![m] = G[m][f[m - 1]]]
  <2>2. m - 1 \in 0 .. n /\ G[m][f[m - 1]] \in X
    OBVIOUS
  <2>3. g \in [0 .. n -> X] /\ g[m] = G[m][f[m - 1]] /\ \A i \in 0 .. n : i # m => g[i] = f[i]
    BY <2>2
  <2> HIDE DEF g
  <2>4. ASSUME NEW i \in 1 .. m PROVE g[i] = G[i][g[i - 1]]
    <3>1. i \in 0 .. n /\ i - 1 \in 0 .. n /\ i - 1 # m
      OBVIOUS
    <3>2. CASE i = m
      BY <2>3, <3>1, <3>2
    <3>3. CASE i # m
      <4>1. i \in 1 .. m - 1
        BY <3>3
      <4> QED
        BY <2>1, <2>3, <3>1, <3>3, <4>1 DEF Rounds
    <3> QED
      BY <3>2, <3>3
  <2>5. g[0] = base
    BY <2>1, <2>3 DEF Rounds
  <2> QED
    BY <2>3, <2>4, <2>5 DEF Rounds
<1>3. \A i \in 0 .. n : i \in P
  <2> HIDE DEF P
  <2> QED
    BY <1>1, <1>2, UpToTheLast
<1> QED
  BY <1>3

\* t is what list_filter has kept of the first i of s.
Kept(s, d, i, t) ==
    /\ NoneTwice(t) /\ ToSet(t) = {s[j] : j \in {k \in 1 .. i : d[s[k]]}}
    /\ \A a, b \in DOMAIN t, p, q \in 1 .. i : t[a] = s[p] /\ t[b] = s[q] /\ p < q => a < b

LEMMA OneMoreKept ==
    ASSUME NEW S, NEW s \in Seq(S), NoneTwice(s), NEW d, NEW i \in 1 .. Len(s), NEW t \in Seq(S),
           Kept(s, d, i - 1, t)
    PROVE  Kept(s, d, i, IF d[s[i]] THEN Append(t, s[i]) ELSE t)
<1>1. Len(s) \in Nat /\ i \in Nat /\ DOMAIN s = 1 .. Len(s) /\ s[i] \in S
  OBVIOUS
<1>2. \A j \in 1 .. i : j = i \/ j \in 1 .. i - 1
  BY <1>1
<1>3. \A j \in 1 .. i - 1 : j \in 1 .. i /\ j \in DOMAIN s /\ s[j] # s[i]
  BY <1>1 DEF NoneTwice
<1>4. CASE d[s[i]]
  <2> DEFINE u == Append(t, s[i])
             m == Len(t)
  <2>1. s[i] \notin ToSet(t)
    BY <1>3 DEF Kept
  <2>2. NoneTwice(u) /\ ToSet(u) = ToSet(t) \cup {s[i]}
    BY <1>1, <2>1, AppendedOnce DEF Kept
  <2>3. ToSet(u) = {s[j] : j \in {k \in 1 .. i : d[s[k]]}}
    BY <1>1, <1>2, <1>3, <1>4, <2>2 DEF Kept
  <2>4. /\ m \in Nat /\ DOMAIN t = 1 .. m /\ DOMAIN u = 1 .. m + 1 /\ u[m + 1] = s[i]
        /\ \A a \in 1 .. m : u[a] = t[a] /\ t[a] # s[i]
    <3>1. \A a \in DOMAIN t : t[a] # s[i]
      BY <2>1 DEF ToSet
    <3> QED
      BY <3>1
  <2> HIDE DEF u, m
  <2>5. ASSUME NEW a \in DOMAIN u, NEW b \in DOMAIN u, NEW p \in 1 .. i, NEW q \in 1 .. i,
               u[a] = s[p], u[b] = s[q], p < q
        PROVE  a < b
    <3>1. p \in 1 .. i - 1 /\ s[p] # s[i] /\ a \in 1 .. m /\ t[a] = s[p]
      BY <1>1, <1>3, <2>4, <2>5
    <3>2. CASE b = m + 1
      BY <2>4, <3>1, <3>2
    <3>3. CASE b # m + 1
      <4>1. b \in 1 .. m /\ t[b] = s[q] /\ q \in 1 .. i - 1
        BY <1>1, <2>4, <2>5, <3>3
      <4> QED
        BY <2>4, <2>5, <3>1, <4>1 DEF Kept
    <3> QED
      BY <3>2, <3>3
  <2> QED
    BY <1>4, <2>2, <2>3, <2>5 DEF Kept, u
<1>5. CASE ~d[s[i]]
  <2>1. ToSet(t) = {s[j] : j \in {k \in 1 .. i : d[s[k]]}}
    BY <1>2, <1>3, <1>5 DEF Kept
  <2>2. ASSUME NEW a \in DOMAIN t, NEW b \in DOMAIN t, NEW p \in 1 .. i, NEW q \in 1 .. i,
               t[a] = s[p], t[b] = s[q], p < q
        PROVE  a < b
    <3>1. t[a] \in ToSet(t) /\ t[b] \in ToSet(t)
      BY DEF ToSet
    <3>2. p # i /\ q # i
      BY <1>3, <2>2, <3>1 DEF Kept
    <3> QED
      BY <1>2, <2>2, <3>2 DEF Kept
  <2> QED
    BY <1>5, <2>1, <2>2 DEF Kept
<1> QED
  BY <1>4, <1>5

\* list_filter keeps the available instances, each once, in the order of the list.
LEMMA AvailableAreKept ==
    ASSUME NEW S, NEW s \in Seq(S), NoneTwice(s), NEW d
    PROVE  AvailableInstances(s, d) \in Seq(S) /\ Kept(s, d, Len(s), AvailableInstances(s, d))
<1> DEFINE n == Len(s)
           X == Seq(S)
           One(x, i) == IF d[s[i]] THEN Append(x, s[i]) ELSE x
           G == [i \in 1 .. n |-> [x \in X |-> One(x, i)]]
           Q(f) == f = [i \in 0 .. n |-> IF i = 0 THEN << >>
                                         ELSE IF d[s[i]] THEN Append(f[i - 1], s[i]) ELSE f[i - 1]]
<1>1. AvailableInstances(s, d) = (CHOOSE f : Q(f))[n]
  BY DEF AvailableInstances
<1>2. n \in Nat /\ << >> \in X /\ \A x \in X, i \in 1 .. n : One(x, i) \in X
  OBVIOUS
<1>3. ASSUME NEW x \in X, NEW i \in 1 .. n, Kept(s, d, i - 1, x) PROVE Kept(s, d, i, One(x, i))
  BY <1>3, OneMoreKept
<1>4. Kept(s, d, 0, << >>)
  BY DEF Kept, NoneTwice, ToSet
<1>5. \A f : Q(f) <=> f = [i \in 0 .. n |-> IF i = 0 THEN << >> ELSE One(f[i - 1], i)]
  OBVIOUS
<1> HIDE DEF n, X, One, Q
<1>6. G \in [1 .. n -> [X -> X]] /\ \A x \in X, i \in 1 .. n : G[i][x] = One(x, i)
  BY <1>2
<1> HIDE DEF G
<1>7. PICK f \in [0 .. n -> X] : Rounds(f, n, << >>, G)
  BY <1>2, <1>6, Recursion
<1>8. Q(f)
  <2>1. ASSUME NEW i \in 1 .. n PROVE f[i] = One(f[i - 1], i)
    <3>1. i - 1 \in 0 .. n
      BY <1>2
    <3> QED
      BY <1>6, <1>7, <3>1 DEF Rounds
  <2>2. \A i \in 0 .. n : f[i] = IF i = 0 THEN << >> ELSE One(f[i - 1], i)
    BY <1>2, <1>7, <2>1 DEF Rounds
  <2> QED
    BY <1>5, <2>2
<1>9. Q(CHOOSE g : Q(g))
  BY <1>8, Zenon
<1> DEFINE g == CHOOSE g : Q(g)
<1> HIDE DEF g
<1>10. g = [i \in 0 .. n |-> IF i = 0 THEN << >> ELSE One(g[i - 1], i)]
  BY <1>5, <1>9 DEF g
<1>11. g[0] = << >> /\ \A i \in 1 .. n : g[i] = One(g[i - 1], i)
  BY <1>2, <1>10
<1> DEFINE P == {i \in 0 .. n : g[i] \in X /\ Kept(s, d, i, g[i])}
<1>12. 0 \in P
  BY <1>2, <1>4, <1>11
<1>13. ASSUME NEW i \in 1 .. n, i - 1 \in P PROVE i \in P
  BY <1>2, <1>3, <1>11, <1>13
<1> HIDE DEF P
<1>14. \A i \in 0 .. n : i \in P
  BY <1>2, <1>12, <1>13, UpToTheLast
<1>15. g[n] \in X /\ Kept(s, d, n, g[n])
  BY <1>2, <1>14 DEF P
<1> QED
  BY <1>1, <1>15 DEF g, X, n

\* The letters of the m-th of n available instances are one run of keys_per_instance.
LEMMA LettersOfPlace ==
    ASSUME NEW n \in 1 .. LettersQty, NEW m \in 1 .. n, NEW letter \in Letters
    PROVE  /\ KeysPerInstance(n) \in Nat \ {0} /\ m * KeysPerInstance(n) - 1 \in Letters
           /\ InstanceIndex(letter, n) \in Nat
           /\ InstanceIndex(letter, n) = m - 1
                <=> letter \in (m - 1) * KeysPerInstance(n) .. m * KeysPerInstance(n) - 1
<1> DEFINE k == KeysPerInstance(n)
           q == letter \div k
<1>1. k \in Nat \ {0} /\ n * k <= LettersQty
  BY DEF KeysPerInstance, LettersQty
<1>2. letter \in Nat /\ m \in Nat \ {0} /\ n \in Nat
  BY DEF Letters, LettersQty
<1>3. InstanceIndex(letter, n) = q
  BY <1>2 DEF InstanceIndex, Quotient
<1> HIDE DEF k
<1>4. /\ q \in Nat /\ (q < m <=> letter < m * k)
      /\ (q < m - 1 <=> letter < (m - 1) * k)
  <2>1. m - 1 \in Nat /\ m \in Nat /\ letter \in Nat
    BY <1>2
  <2>2. \A j \in Nat : q \in Nat /\ (q < j <=> letter < j * k)
    BY <1>1, <2>1, QuotientBound
  <2> HIDE DEF q
  <2> QED
    BY <2>1, <2>2
<1> HIDE DEF q
<1>5. m * k \in Nat /\ (m - 1) * k \in Nat
  BY <1>1, <1>2
<1>6. q = m - 1 <=> letter \in (m - 1) * k .. m * k - 1
  BY <1>2, <1>4, <1>5
<1>7. m * k <= n * k /\ m * k >= 1
  BY <1>1, <1>2
<1>8. m * k - 1 \in Letters
  BY <1>1, <1>5, <1>7 DEF Letters, LettersQty
<1> QED
  BY <1>1, <1>3, <1>4, <1>6, <1>8 DEF k

\* KE shares the alphabet out evenly among up to 25 instances that are available,
\* whatever came, went and failed before: as many letters for each, in the order
\* in which they connected (select_instance_by_ke).
THEOREM KESharesTheAlphabet == Spec => []KEIsEven
<1>1. ASSUME IInv PROVE KEIsEven
  <2> SUFFICES ASSUME ~DividesByZero(list, is_available)
               PROVE  /\ \A i \in Available :
                           Cardinality(LettersOf(i)) = KeysPerInstance(Cardinality(Available))
                      /\ \A p, q \in DOMAIN list : p < q /\ {list[p], list[q]} \subseteq Available =>
                           \A a \in LettersOf(list[p]), b \in LettersOf(list[q]) : a < b
    BY DEF KEIsEven
  <2> DEFINE t == AvailableInstances(list, is_available)
             n == Len(t)
             k == KeysPerInstance(n)
  <2>1. list \in Seq(Instances) /\ NoneTwice(list)
    BY <1>1 DEF IInv, Types, Listed
  <2>2. t \in Seq(Instances) /\ Kept(list, is_available, Len(list), t)
    BY <2>1, AvailableAreKept
  <2>3. n \in 1 .. LettersQty
    BY DEF DividesByZero
  <2>4. DOMAIN t = 1 .. n /\ n \in Nat /\ DOMAIN list = 1 .. Len(list)
    BY <2>1, <2>2
  <2>5. \A i, letter : SelectByKE(list, is_available, letter) = i
          <=> i = IF InstanceIndex(letter, n) \in 0 .. n - 1 THEN t[InstanceIndex(letter, n) + 1] ELSE NULL
    BY DEF SelectByKE
  <2> HIDE DEF t
  <2>6. ToSet(t) = Available
    <3>1. Available = {list[j] : j \in {x \in DOMAIN list : is_available[list[x]]}}
      BY DEF Available, ToSet
    <3> QED
      BY <2>2, <2>4, <3>1 DEF Kept
  <2>7. Cardinality(Available) = n
    <3>1. t \in Bijection(1 .. n, Available)
      <4>1. t \in [1 .. n -> Available] /\ \A i \in Available : \E m \in 1 .. n : t[m] = i
        BY <2>2, <2>4, <2>6 DEF ToSet
      <4>2. \A a, b \in 1 .. n : t[a] = t[b] => a = b
        BY <2>2, <2>4 DEF Kept, NoneTwice
      <4>3. t \in Injection(1 .. n, Available)
        BY <4>1, <4>2 DEF Injection, IsInjective
      <4>4. t \in Surjection(1 .. n, Available)
        BY <4>1, Zenon DEF Surjection
      <4> QED
        BY <4>3, <4>4 DEF Bijection
    <3>2. IsFiniteSet(1 .. n) /\ Cardinality(1 .. n) = n
      BY <2>3, <2>4, FS_Interval
    <3> QED
      BY <3>1, <3>2, FS_Bijection DEF ExistsBijection
  <2> HIDE DEF n
  <2>8. ASSUME NEW m \in 1 .. n
        PROVE  LettersOf(t[m]) = (m - 1) * k .. m * k - 1
    <3>1. k \in Nat \ {0} /\ m * k - 1 \in Letters
      <4>1. 0 \in Letters
        BY DEF Letters, LettersQty
      <4> QED
        BY <2>3, <4>1, LettersOfPlace
    <3>2. t[m] \in Instances /\ NULL \notin Instances /\ m \in Nat \ {0}
      BY <2>2, <2>4, NoInstance
    <3>3. ASSUME NEW letter \in Letters
          PROVE  letter \in LettersOf(t[m]) <=> letter \in (m - 1) * k .. m * k - 1
      <4> DEFINE x == InstanceIndex(letter, n)
      <4>1. x \in Nat /\ (x = m - 1 <=> letter \in (m - 1) * k .. m * k - 1)
        BY <2>3, LettersOfPlace
      <4>2. letter \in LettersOf(t[m]) <=> t[m] = IF x \in 0 .. n - 1 THEN t[x + 1] ELSE NULL
        BY <2>5 DEF LettersOf
      <4> HIDE DEF x
      <4>3. x \in 0 .. n - 1 => (t[m] = t[x + 1] <=> m = x + 1)
        BY <2>2, <2>4, <4>1 DEF Kept, NoneTwice
      <4> QED
        BY <2>4, <3>2, <4>1, <4>2, <4>3
    <3>4. (m - 1) * k .. m * k - 1 \subseteq Letters
      <4> DEFINE a == (m - 1) * k
                 b == m * k - 1
      <4>1. a \in Nat /\ b \in Int
        BY <3>1, <3>2
      <4>2. b \in Letters
        BY <3>1
      <4> HIDE DEF a, b
      <4>3. a .. b \subseteq Letters
        BY <4>1, <4>2 DEF Letters, LettersQty
      <4> QED
        BY <4>3 DEF a, b
    <3> QED
      BY <3>3, <3>4 DEF LettersOf
  <2>9. k \in Nat \ {0}
    BY <2>3 DEF KeysPerInstance, LettersQty
  <2> HIDE DEF k
  <2>10. ASSUME NEW i \in Available PROVE Cardinality(LettersOf(i)) = k
    <3>1. PICK m \in 1 .. n : i = t[m]
      BY <2>4, <2>6 DEF ToSet
    <3> DEFINE a == (m - 1) * k
               b == m * k - 1
    <3>2. a \in Int /\ b \in Int /\ b - a + 1 = k
      BY <2>4, <2>9
    <3>3. LettersOf(i) = a .. b
      BY <2>8, <3>1
    <3> HIDE DEF a, b
    <3>4. Cardinality(a .. b) = IF a > b THEN 0 ELSE b - a + 1
      BY <3>2, FS_Interval
    <3> QED
      BY <2>9, <3>2, <3>3, <3>4
  <2>11. ASSUME NEW p \in DOMAIN list, NEW q \in DOMAIN list, p < q, {list[p], list[q]} \subseteq Available,
                NEW a \in LettersOf(list[p]), NEW b \in LettersOf(list[q])
         PROVE  a < b
    <3>1. PICK m \in 1 .. n : list[p] = t[m]
      BY <2>4, <2>6, <2>11 DEF ToSet
    <3>2. PICK o \in 1 .. n : list[q] = t[o]
      BY <2>4, <2>6, <2>11 DEF ToSet
    <3>3. m < o
      BY <2>2, <2>4, <2>11, <3>1, <3>2 DEF Kept
    <3>4. a \in Int /\ b \in Int /\ a <= m * k - 1 /\ (o - 1) * k <= b
      <4>1. a \in (m - 1) * k .. m * k - 1 /\ b \in (o - 1) * k .. o * k - 1
        BY <2>8, <2>11, <3>1, <3>2
      <4>2. (m - 1) * k \in Int /\ m * k - 1 \in Int /\ (o - 1) * k \in Int /\ o * k - 1 \in Int
        BY <2>4, <2>9
      <4> QED
        BY <4>1, <4>2
    <3>5. m * k <= (o - 1) * k
      BY <2>4, <2>9, <3>3
    <3>6. m * k \in Int /\ (o - 1) * k \in Int
      BY <2>4, <2>9
    <3> QED
      BY <3>4, <3>5, <3>6
  <2> QED
    BY <2>7, <2>10, <2>11 DEF k
<1> QED
  BY <1>1, RoundsAreKept, PTL
=============================================================================
