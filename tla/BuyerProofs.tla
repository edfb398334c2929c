----------------------------- MODULE BuyerProofs -----------------------------
(***************************************************************************)
(* Proofs about PreferenceLedger, the wishes that a conversation takes     *)
(* from its buyer, and about SalesRequest, the form that the buyer sends.  *)
(***************************************************************************)
EXTENDS PreferenceLedger, SalesRequest, FiniteSetTheorems, WellFoundedInduction, TLAPS

(***************************************************************************)
(* Folds over finite sets, without an induction principle over operators:  *)
(* what is shown of every subset is membership in a set.                   *)
(***************************************************************************)
\* Indices have a largest one.
LEMMA LargestIndex ==
    ASSUME NEW n \in Nat, NEW I, I \subseteq 1..n, I # {}
    PROVE  \E i \in I : \A j \in I : i >= j
<1> DEFINE T == {n - i : i \in I}
<1>1. T \subseteq Nat /\ T # {}
  <2>1. \A i \in I : n - i \in Nat
    OBVIOUS
  <2> QED  BY <2>1
<1>2. PICK x \in T : \A y \in T : ~ (<<y, x>> \in OpToRel(<, Nat))
  BY <1>1, NatLessThanWellFounded, WFMin
<1>3. \A y \in T : ~ (y < x)
  BY <1>1, <1>2 DEF OpToRel
<1>4. PICK i \in I : x = n - i
  OBVIOUS
<1>5. ASSUME NEW j \in I PROVE i >= j
  <2>1. ~ (n - j < n - i)
    BY <1>3, <1>4
  <2>2. i \in Int /\ j \in Int
    OBVIOUS
  <2> QED  BY <2>1, <2>2
<1> QED  BY <1>5

\* A set that holds 0, and n + 1 whenever it holds n, holds every number.
LEMMA NatsOf ==
    ASSUME NEW G, 0 \in G, \A n \in Nat : n \in G => n + 1 \in G
    PROVE  \A n \in Nat : n \in G
<1> DEFINE T == {n \in Nat : n \notin G}
<1> SUFFICES ASSUME T # {} PROVE FALSE
  OBVIOUS
<1>1. PICK x \in T : \A y \in T : ~ (<<y, x>> \in OpToRel(<, Nat))
  BY NatLessThanWellFounded, WFMin
<1>2. \A y \in T : ~ (y < x)
  BY <1>1 DEF OpToRel
<1>3. x \in Nat /\ x \notin G
  BY <1>1
<1>4. x # 0
  BY <1>3
<1>5. x - 1 \in Nat /\ x - 1 < x /\ (x - 1) + 1 = x
  BY <1>3, <1>4
<1>6. x - 1 \in G
  BY <1>2, <1>5
<1> QED  BY <1>3, <1>5, <1>6

\* A family that a set can be taken apart into, one element at a time, holds the set.
LEMMA SubsetsOf ==
    ASSUME NEW S, IsFiniteSet(S), NEW G, {} \in G,
           \A s \in SUBSET S : s # {} => \E x \in s : s \ {x} \in G => s \in G
    PROVE  S \in G
<1> DEFINE N == {n \in Nat : \A s \in SUBSET S : Cardinality(s) = n => s \in G}
<1>1. \A s \in SUBSET S : IsFiniteSet(s) /\ Cardinality(s) \in Nat
  BY FS_Subset, FS_CardinalityType
<1>2. 0 \in N
  BY <1>1, FS_EmptySet
<1>3. ASSUME NEW n \in Nat, n \in N PROVE n + 1 \in N
  <2> SUFFICES ASSUME NEW s \in SUBSET S, Cardinality(s) = n + 1 PROVE s \in G
    OBVIOUS
  <2>1. s # {}
    BY <1>1, FS_EmptySet
  <2>2. PICK x \in s : s \ {x} \in G => s \in G
    BY <2>1
  <2>3. Cardinality(s \ {x}) = Cardinality(s) - 1
    BY <1>1, <2>2, FS_RemoveElement
  <2> QED  BY <1>3, <2>2, <2>3
<1>4. \A n \in Nat : n \in N
  <2> HIDE DEF N
  <2> QED  BY <1>2, <1>3, NatsOf
<1> QED  BY <1>1, <1>4

\* The orders in which a fold may take its elements.
Picks(S) == {p \in [(SUBSET S) \ {{}} -> S] : \A s \in (SUBSET S) \ {{}} : p[s] \in s}

Folds(S, L, base, step, pick) ==
    {g \in [SUBSET S -> L] : \A s \in SUBSET S :
        g[s] = IF s = {} THEN base ELSE step[pick[s]][g[s \ {pick[s]}]]}

\* A step that stays in L can be folded over every subset of S.
LEMMA FoldExists ==
    ASSUME NEW S, IsFiniteSet(S), NEW L, NEW base \in L, NEW step \in [S -> [L -> L]],
           NEW pick \in Picks(S)
    PROVE  Folds(S, L, base, step, pick) # {}
<1> DEFINE C(n) == {s \in SUBSET S : Cardinality(s) <= n}
           FoldsTo(n) == {g \in [C(n) -> L] : \A s \in C(n) :
                           g[s] = IF s = {} THEN base ELSE step[pick[s]][g[s \ {pick[s]}]]}
           N == {n \in Nat : FoldsTo(n) # {}}
<1>1. \A s \in SUBSET S : IsFiniteSet(s) /\ Cardinality(s) \in Nat
  BY FS_Subset, FS_CardinalityType
<1>2. \A s \in SUBSET S : s # {} => /\ pick[s] \in s
                                    /\ Cardinality(s \ {pick[s]}) = Cardinality(s) - 1
  BY <1>1, FS_RemoveElement DEF Picks
<1>3. 0 \in N
  <2>1. \A s \in C(0) : s = {}
    BY <1>1, FS_EmptySet
  <2>2. [s \in C(0) |-> base] \in FoldsTo(0)
    BY <2>1
  <2> QED  BY <2>2
<1>4. ASSUME NEW n \in Nat, n \in N PROVE n + 1 \in N
  <2>1. PICK g \in FoldsTo(n) : TRUE
    BY <1>4
  <2> DEFINE h == [s \in C(n + 1) |-> IF s \in C(n) THEN g[s]
                                      ELSE step[pick[s]][g[s \ {pick[s]}]]]
  <2>2. ASSUME NEW s \in C(n + 1), s \notin C(n)
        PROVE  s # {} /\ pick[s] \in S /\ s \ {pick[s]} \in C(n)
    BY <1>1, <1>2, <2>2, FS_EmptySet
  <2>3. ASSUME NEW s \in C(n), s # {} PROVE s \ {pick[s]} \in C(n)
    BY <1>1, <1>2, <2>3
  <2>4. \A s \in C(n) : s \in C(n + 1)
    BY <1>1
  <2>5. \A s \in C(n + 1) : h[s] \in L
    BY <2>1, <2>2
  <2>6. \A s \in C(n) : h[s] = g[s]
    BY <2>4
  <2>7. ASSUME NEW s \in C(n + 1)
        PROVE h[s] = IF s = {} THEN base ELSE step[pick[s]][h[s \ {pick[s]}]]
    <3>1. CASE s \in C(n)
      BY <2>1, <2>3, <2>6, <3>1
    <3>2. CASE s \notin C(n)
      BY <2>2, <2>6, <3>2
    <3> QED  BY <3>1, <3>2
  <2>8. h \in FoldsTo(n + 1)
    BY <2>5, <2>7
  <2> HIDE DEF FoldsTo, h
  <2> QED  BY <2>8
<1>5. \A n \in Nat : n \in N
  <2> HIDE DEF N
  <2> QED  BY <1>3, <1>4, NatsOf
<1>6. C(Cardinality(S)) = SUBSET S
  BY <1>1, FS_Subset
<1>7. FoldsTo(Cardinality(S)) # {}
  BY <1>1, <1>5, FS_CardinalityType
<1> QED  BY <1>6, <1>7 DEF Folds

(***************************************************************************)
(* Ledgers.                                                                *)
(***************************************************************************)
Sayable == UNION {m.states \cup m.names : m \in Messages}

Concepts == {w.concept : w \in Sayable} \cup Hints \cup Budgets
                \cup {"equipmentFeature", "primaryUsage", "operatingCostPriority",
                      "totalCostPriority", "bodyStyle", "fuelType", "transmission",
                      "brandPreference"}

SaidValues == {w.value : w \in Sayable} \cup {m.usage : m \in Messages}
                  \cup UNION {m.wants : m \in Messages}

Values == SaidValues \cup Hints \cup {"OPERATING_COST", "TOTAL_COST"} \cup Nat

EventRecord ==
    [concept : Concepts, value : Values, use : {"HARD_FILTER", "SOFT_RANK", "QUESTION_INPUT", "NONE"},
     strength : {"EXPLICIT_STRONG", "CONFIRMED_STRONG", "WEAK_SIGNAL"},
     status : {"ACTIVE", "SUPERSEDED", "CLEARED", "REJECTED"}, turn : Nat]

\* An event in force decides unless it is a weak signal, and a hint is in
\* force as a weak signal or confirmed.
WellFormed(c, v, u, s) ==
    /\ c \in Budgets => v \in Nat
    /\ s = "WEAK_SIGNAL" => c \in Hints /\ u = "QUESTION_INPUT"
    /\ s # "WEAK_SIGNAL" => u \in {"HARD_FILTER", "SOFT_RANK"}
    /\ c \in Hints /\ s # "WEAK_SIGNAL" => s = "CONFIRMED_STRONG" /\ v = c /\ u = UseOf(c)
    /\ c \in {"primaryUsage", "budgetMax"} => u = "HARD_FILTER"

PreferenceEvent ==
    {e \in EventRecord :
        /\ e.concept \in Budgets => e.value \in Nat
        /\ e.status = "ACTIVE" => WellFormed(e.concept, e.value, e.use, e.strength)}

Books == Seq(PreferenceEvent)

\* The events that were ever put in force, and those that are.
Noted(l) == {l[i] : i \in {j \in DOMAIN l : l[j].status = "ACTIVE"}}
InForce(l) == {l[i] : i \in Terminal(l)}

\* Of the events that were ever put in force, an entry adds itself when it is active.
LEMMA AppendNotes ==
    ASSUME NEW l \in Books, NEW e \in PreferenceEvent
    PROVE  /\ Append(l, e) \in Books
           /\ e.status = "ACTIVE" => Noted(Append(l, e)) = Noted(l) \cup {e}
           /\ e.status # "ACTIVE" => Noted(Append(l, e)) = Noted(l)
<1> DEFINE k == Append(l, e)
<1>1. k \in Books
  BY DEF Books
<1>2. /\ DOMAIN l = 1..Len(l) /\ DOMAIN k = 1..(Len(l) + 1) /\ Len(l) \in Nat
      /\ k[Len(l) + 1] = e /\ \A i \in DOMAIN l : k[i] = l[i]
  BY DEF Books
<1> HIDE DEF k
<1>3. \A x \in Noted(l) : x \in Noted(k)
  BY <1>2 DEF Noted
<1>4. e.status = "ACTIVE" => e \in Noted(k)
  BY <1>2 DEF Noted
<1>5. \A x \in Noted(k) : x \in Noted(l) \/ (x = e /\ e.status = "ACTIVE")
  BY <1>2 DEF Noted
<1> QED  BY <1>1, <1>3, <1>4, <1>5 DEF k

\* An entry ends the events of its key; an active one is in force itself.
LEMMA AppendForce ==
    ASSUME NEW l \in Books, NEW e \in PreferenceEvent
    PROVE  /\ e.status = "SUPERSEDED" => InForce(Append(l, e)) = InForce(l)
           /\ e.status \in {"CLEARED", "REJECTED"} =>
                 InForce(Append(l, e)) = {x \in InForce(l) : ~SameKey(e, x)}
           /\ e.status = "ACTIVE" =>
                 InForce(Append(l, e)) = {x \in InForce(l) : ~SameKey(e, x)} \cup {e}
<1> DEFINE k == Append(l, e)
           n == Len(l)
<1>1. /\ n \in Nat /\ Len(k) = n + 1
      /\ DOMAIN l = 1..n /\ DOMAIN k = 1..(n + 1)
      /\ k[n + 1] = e /\ \A i \in 1..n : k[i] = l[i]
  BY DEF Books
<1> HIDE DEF k, n
<1>2. \A i \in 1..n : i \in Terminal(k) <=>
          i \in Terminal(l) /\ (SameKey(e, l[i]) => e.status = "SUPERSEDED")
  <2> TAKE i \in 1..n
  <2>1. (i + 1)..Len(k) = ((i + 1)..n) \cup {n + 1}
    BY <1>1
  <2>2. \A j \in (i + 1)..n : j \in 1..n /\ k[j] = l[j]
    BY <1>1
  <2> QED  BY <1>1, <2>1, <2>2 DEF Terminal, n
<1>3. n + 1 \in Terminal(k) <=> e.status = "ACTIVE"
  BY <1>1 DEF Terminal
<1>4. \A i \in Terminal(k) : i \in 1..n \/ i = n + 1
  BY <1>1 DEF Terminal
<1>5. \A i \in Terminal(l) : i \in 1..n
  BY <1>1 DEF Terminal
<1>6. \A x : x \in InForce(k) <=> \/ x \in InForce(l) /\ (SameKey(e, x) => e.status = "SUPERSEDED")
                                  \/ x = e /\ e.status = "ACTIVE"
  BY <1>1, <1>2, <1>3, <1>4, <1>5 DEF InForce
<1>7. e.status \in {"ACTIVE", "SUPERSEDED", "CLEARED", "REJECTED"}
  BY DEF PreferenceEvent, EventRecord
<1>8. e.status = "SUPERSEDED" => InForce(k) = InForce(l)
  BY <1>6
<1>9. e.status \in {"CLEARED", "REJECTED"} => InForce(k) = {x \in InForce(l) : ~SameKey(e, x)}
  BY <1>6
<1>10. e.status = "ACTIVE" => InForce(k) = {x \in InForce(l) : ~SameKey(e, x)} \cup {e}
  BY <1>6
<1> QED  BY <1>8, <1>9, <1>10 DEF k

\* The copy that ends an event.
LEMMA EndIs ==
    ASSUME NEW l \in Books, revision \in Nat, NEW i \in 1..Len(l),
           NEW s \in {"SUPERSEDED", "CLEARED", "REJECTED"}
    PROVE  \E e \in PreferenceEvent :
              /\ End(l, i, s) = Append(l, e)
              /\ e.status = s /\ e.concept = l[i].concept /\ e.value = l[i].value
              /\ e.turn = revision + 1
<1>1. l[i] \in PreferenceEvent /\ revision + 1 \in Nat
  BY DEF Books
<1> DEFINE e == [l[i] EXCEPT !.status = s, !.use = "NONE", !.turn = revision + 1]
<1>2. e \in EventRecord
  BY <1>1 DEF PreferenceEvent, EventRecord
<1>4. /\ e.status = s /\ e.concept = l[i].concept /\ e.value = l[i].value
      /\ e.turn = revision + 1
  BY <1>1 DEF PreferenceEvent, EventRecord
<1>5. e \in PreferenceEvent
  BY <1>1, <1>2, <1>4 DEF PreferenceEvent
<1>3. End(l, i, s) = Append(l, e)
  BY DEF End
<1> HIDE DEF e
<1> QED  BY <1>3, <1>4, <1>5

(***************************************************************************)
(* A turn's ledger: what the turn found, and events of its own.  None of   *)
(* them clears or rejects a use of the car.                                *)
(***************************************************************************)
IsOwn(e) ==
    /\ e \in PreferenceEvent
    /\ e.turn = revision + 1
    /\ e.concept = "primaryUsage" => e.status \in {"ACTIVE", "SUPERSEDED"}

Grown ==
    {l \in Books : /\ Len(ledger) <= Len(l)
                   /\ \A i \in 1..Len(ledger) : l[i] = ledger[i]
                   /\ \A i \in 1..Len(l) : i > Len(ledger) => IsOwn(l[i])}

\* A turn's ledger with one more of its own events is a turn's ledger.
LEMMA AppendGrows ==
    ASSUME ledger \in Books, NEW l \in Grown, NEW e, IsOwn(e)
    PROVE  Append(l, e) \in Grown
<1>1. l \in Books /\ e \in PreferenceEvent /\ Append(l, e) \in Books
  BY AppendNotes DEF Grown, IsOwn
<1>2. /\ Len(l) \in Nat /\ Len(Append(l, e)) = Len(l) + 1
      /\ \A i \in 1..Len(l) : Append(l, e)[i] = l[i]
      /\ Append(l, e)[Len(l) + 1] = e
      /\ Len(ledger) \in Nat
  BY <1>1 DEF Books
<1>3. /\ Len(ledger) <= Len(l) /\ \A i \in 1..Len(ledger) : l[i] = ledger[i]
      /\ \A i \in 1..Len(l) : i > Len(ledger) => IsOwn(l[i])
  BY DEF Grown
<1> DEFINE k == Append(l, e)
<1> HIDE DEF k
<1>4. \A i \in 1..Len(k) : i > Len(ledger) => IsOwn(k[i])
  <2> SUFFICES ASSUME NEW i \in 1..Len(k), i > Len(ledger) PROVE IsOwn(k[i])
    OBVIOUS
  <2>1. CASE i = Len(l) + 1
    BY <1>2, <2>1 DEF k
  <2>2. CASE i # Len(l) + 1
    <3>1. i \in 1..Len(l) /\ k[i] = l[i]
      BY <1>2, <2>2 DEF k
    <3> QED  BY <1>3, <3>1
  <2> QED  BY <2>1, <2>2
<1>5. Len(ledger) <= Len(k) /\ \A i \in 1..Len(ledger) : k[i] = ledger[i]
  BY <1>2, <1>3 DEF k
<1> QED  BY <1>1, <1>4, <1>5 DEF Grown, k

\* The two searches for an event that is, or was, in force.
LEMMA LastActiveIs ==
    ASSUME NEW l \in Books, NEW C
    PROVE  /\ LastActive(l, C) \in 0..Len(l)
           /\ LastActive(l, C) = 0 => \A x \in Noted(l) : x.concept \notin C
           /\ LastActive(l, C) # 0 =>
                 /\ l[LastActive(l, C)] \in Noted(l)
                 /\ l[LastActive(l, C)].concept \in C
                 /\ l[LastActive(l, C)].status = "ACTIVE"
                 /\ \A j \in 1..Len(l) : l[j].concept \in C /\ l[j].status = "ACTIVE" =>
                       j <= LastActive(l, C)
<1> DEFINE I == {j \in 1..Len(l) : l[j].concept \in C /\ l[j].status = "ACTIVE"}
<1>1. LastActive(l, C) = IF I # {} THEN CHOOSE i \in I : \A j \in I : i >= j ELSE 0
  BY DEF LastActive, SelectLastInSeq, Max
<1>2. Len(l) \in Nat /\ I \subseteq 1..Len(l) /\ DOMAIN l = 1..Len(l)
  BY DEF Books
<1>3. CASE I = {}
  BY <1>1, <1>2, <1>3 DEF Noted
<1>4. CASE I # {}
  <2>1. PICK i \in I : \A j \in I : i >= j
    BY <1>2, <1>4, LargestIndex
  <2>2. LastActive(l, C) \in I /\ \A j \in I : LastActive(l, C) >= j
    BY <1>1, <1>4, <2>1
  <2> QED  BY <1>2, <2>2 DEF Noted
<1> QED  BY <1>3, <1>4

\* The last event of one piece of equipment.
LEMMA LastEquipmentIs ==
    ASSUME NEW l \in Books, NEW v
    PROVE  /\ LastEquipment(l, v) \in 0..Len(l)
           /\ LastEquipment(l, v) = 0 => \A x \in Noted(l) : IsEquipment(x) => x.value # v
           /\ LastEquipment(l, v) # 0 =>
                 /\ l[LastEquipment(l, v)].value = v /\ IsEquipment(l[LastEquipment(l, v)])
<1> DEFINE I == {j \in 1..Len(l) : IsEquipment(l[j]) /\ l[j].status = "ACTIVE" /\ l[j].value = v}
<1>1. LastEquipment(l, v) = IF I # {} THEN CHOOSE i \in I : \A j \in I : i >= j ELSE 0
  BY DEF LastEquipment, SelectLastInSeq, Max
<1>2. Len(l) \in Nat /\ I \subseteq 1..Len(l) /\ DOMAIN l = 1..Len(l)
  BY DEF Books
<1>3. CASE I = {}
  BY <1>1, <1>2, <1>3 DEF Noted
<1>4. CASE I # {}
  <2>1. PICK i \in I : \A j \in I : i >= j
    BY <1>2, <1>4, LargestIndex
  <2>2. LastEquipment(l, v) \in I
    BY <1>1, <1>4, <2>1
  <2> QED  BY <1>2, <2>2
<1> QED  BY <1>3, <1>4

\* What is in force was put in force, one event for each key.
LEMMA ForceIsNoted ==
    ASSUME NEW l \in Books
    PROVE  /\ InForce(l) \subseteq Noted(l)
           /\ Noted(l) \subseteq PreferenceEvent
           /\ \A x \in Noted(l) : /\ x.status = "ACTIVE"
                                 /\ WellFormed(x.concept, x.value, x.use, x.strength)
           /\ \A x, y \in InForce(l) : SameKey(x, y) => x = y
<1>1. DOMAIN l = 1..Len(l) /\ Len(l) \in Nat /\ \A i \in 1..Len(l) : l[i] \in PreferenceEvent
  BY DEF Books
<1>2. /\ InForce(l) \subseteq Noted(l) /\ Noted(l) \subseteq PreferenceEvent
      /\ \A x \in Noted(l) : x.status = "ACTIVE"
  BY <1>1 DEF InForce, Noted, Terminal
<1>3. ASSUME NEW i \in Terminal(l), NEW j \in Terminal(l), SameKey(l[i], l[j]) PROVE l[i] = l[j]
  <2>1. i \in 1..Len(l) /\ j \in 1..Len(l) /\ l[i].status = "ACTIVE" /\ l[j].status = "ACTIVE"
    BY <1>1 DEF Terminal
  <2>2. SameKey(l[j], l[i])
    BY <1>3 DEF SameKey, IsEquipment
  <2>3. ~(i < j)
    BY <1>1, <2>1, <2>2 DEF Terminal
  <2>4. ~(j < i)
    BY <1>1, <1>3, <2>1 DEF Terminal
  <2> QED  BY <2>1, <2>3, <2>4
<1>4. \A x \in Noted(l) : WellFormed(x.concept, x.value, x.use, x.strength)
  BY <1>2 DEF PreferenceEvent
<1> QED  BY <1>2, <1>3, <1>4 DEF InForce

(***************************************************************************)
(* What one entry does to what a ledger says: the events noted, the events *)
(* in force, the last price, and that the last word of this turn counts.   *)
(***************************************************************************)
Figure(l) == IF LastActive(l, Budgets) = 0 THEN Nothing ELSE l[LastActive(l, Budgets)].value

Now == revision + 1

Settled(l) ==
    \A c \in Concepts :
        LastActive(l, {c}) # 0 /\ l[LastActive(l, {c})].turn = Now => l[LastActive(l, {c})] \in InForce(l)

\* What makes an event the last active one of some concepts.
LEMMA LastActiveAt ==
    ASSUME NEW l \in Books, NEW C, NEW i \in 1..Len(l), l[i].concept \in C, l[i].status = "ACTIVE",
           \A j \in 1..Len(l) : l[j].concept \in C /\ l[j].status = "ACTIVE" => j <= i
    PROVE  LastActive(l, C) = i
<1>1. l[i] \in Noted(l) /\ Len(l) \in Nat
  BY DEF Noted, Books
<1>2. LastActive(l, C) \in 0..Len(l) /\ LastActive(l, C) # 0
  BY <1>1, LastActiveIs
<1>3. i <= LastActive(l, C)
  BY <1>2, LastActiveIs
<1>4. LastActive(l, C) \in 1..Len(l)
  BY <1>1, <1>2
<1>5. LastActive(l, C) <= i
  BY <1>2, <1>4, LastActiveIs
<1> QED  BY <1>1, <1>3, <1>4, <1>5

\* How an entry moves the last active event of some concepts.
LEMMA LastActiveAppends ==
    ASSUME NEW l \in Books, NEW e \in PreferenceEvent, NEW C
    PROVE  /\ e.status = "ACTIVE" /\ e.concept \in C =>
                 LastActive(Append(l, e), C) = Len(l) + 1 /\ Append(l, e)[Len(l) + 1] = e
           /\ ~(e.status = "ACTIVE" /\ e.concept \in C) => LastActive(Append(l, e), C) = LastActive(l, C)
           /\ LastActive(l, C) # 0 => Append(l, e)[LastActive(l, C)] = l[LastActive(l, C)]
<1> DEFINE k == Append(l, e)
           n == LastActive(l, C)
<1>1. /\ k \in Books /\ Len(l) \in Nat /\ Len(k) = Len(l) + 1
      /\ k[Len(l) + 1] = e /\ \A i \in 1..Len(l) : k[i] = l[i]
  BY DEF Books
<1>2. /\ n \in 0..Len(l)
      /\ n = 0 => \A x \in Noted(l) : x.concept \notin C
      /\ n # 0 => /\ l[n].concept \in C /\ l[n].status = "ACTIVE"
                  /\ \A j \in 1..Len(l) : l[j].concept \in C /\ l[j].status = "ACTIVE" => j <= n
  BY LastActiveIs
<1> HIDE DEF k, n
<1>3. ASSUME e.status = "ACTIVE", e.concept \in C PROVE LastActive(k, C) = Len(l) + 1
  BY <1>1, <1>3, LastActiveAt
<1>4. ASSUME ~(e.status = "ACTIVE" /\ e.concept \in C), n # 0 PROVE LastActive(k, C) = n
  <2>1. n \in 1..Len(k) /\ k[n] = l[n]
    BY <1>1, <1>2, <1>4
  <2>2. \A j \in 1..Len(k) : k[j].concept \in C /\ k[j].status = "ACTIVE" => j <= n
    <3> TAKE j \in 1..Len(k)
    <3>1. CASE j \in 1..Len(l)
      BY <1>1, <1>2, <1>4, <3>1
    <3>2. CASE j = Len(l) + 1
      BY <1>1, <1>4, <3>2
    <3> QED  BY <1>1, <3>1, <3>2
  <2> QED  BY <1>1, <1>2, <1>4, <2>1, <2>2, LastActiveAt
<1>5. ASSUME ~(e.status = "ACTIVE" /\ e.concept \in C), n = 0 PROVE LastActive(k, C) = 0
  <2>1. \A x \in Noted(k) : x.concept \notin C
    <3>1. (Noted(k) = Noted(l) \cup {e} /\ e.status = "ACTIVE") \/ Noted(k) = Noted(l)
      BY AppendNotes DEF k
    <3> QED  BY <1>2, <1>5, <3>1
  <2>2. LastActive(k, C) # 0 => k[LastActive(k, C)] \in Noted(k) /\ k[LastActive(k, C)].concept \in C
    BY <1>1, LastActiveIs
  <2> QED  BY <2>1, <2>2
<1>6. n # 0 => k[n] = l[n]
  BY <1>1, <1>2
<1> QED  BY <1>1, <1>3, <1>4, <1>5, <1>6 DEF k, n

\* An entry that puts nothing in force.
LEMMA EndingIs ==
    ASSUME ledger \in Books, revision \in Nat, NEW l \in Grown, NEW i \in 1..Len(l),
           NEW s \in {"SUPERSEDED", "CLEARED", "REJECTED"},
           l[i].concept = "primaryUsage" => s = "SUPERSEDED"
    PROVE  LET k == End(l, i, s)
           IN  /\ k \in Grown /\ Noted(k) = Noted(l) /\ Figure(k) = Figure(l)
               /\ s = "SUPERSEDED" => InForce(k) = InForce(l)
               /\ s # "SUPERSEDED" => InForce(k) = {x \in InForce(l) : ~SameKey(l[i], x)}
               /\ \A C : LastActive(k, C) = LastActive(l, C)
               /\ \A C : LastActive(l, C) # 0 => k[LastActive(l, C)] = l[LastActive(l, C)]
<1>1. l \in Books
  BY DEF Grown
<1>2. PICK e \in PreferenceEvent :
          /\ End(l, i, s) = Append(l, e)
          /\ e.status = s /\ e.concept = l[i].concept /\ e.value = l[i].value
          /\ e.turn = revision + 1
  BY <1>1, EndIs
<1> DEFINE k == Append(l, e)
<1>3. IsOwn(e)
  BY <1>2 DEF IsOwn
<1>4. k \in Grown
  BY <1>3, AppendGrows
<1>5. Noted(k) = Noted(l)
  BY <1>1, <1>2, AppendNotes
<1>6. /\ s = "SUPERSEDED" => InForce(k) = InForce(l)
      /\ s # "SUPERSEDED" => InForce(k) = {x \in InForce(l) : ~SameKey(e, x)}
  BY <1>1, <1>2, AppendForce
<1>7. \A x : SameKey(e, x) <=> SameKey(l[i], x)
  BY <1>2 DEF SameKey, IsEquipment
<1>8. \A C : /\ LastActive(k, C) = LastActive(l, C)
             /\ LastActive(l, C) # 0 => k[LastActive(l, C)] = l[LastActive(l, C)]
  BY <1>1, <1>2, LastActiveAppends
<1> HIDE DEF k
<1>9. Figure(k) = Figure(l)
  BY <1>8 DEF Figure
<1>10. s # "SUPERSEDED" => InForce(k) = {x \in InForce(l) : ~SameKey(l[i], x)}
  BY <1>6, <1>7
<1> QED  BY <1>2, <1>4, <1>5, <1>6, <1>8, <1>9, <1>10 DEF k

\* An entry that puts one event in force.
LEMMA NotingIs ==
    ASSUME ledger \in Books, revision \in Nat, NEW l \in Grown, NEW e, IsOwn(e), e.status = "ACTIVE"
    PROVE  LET k == Append(l, e)
           IN  /\ k \in Grown /\ Noted(k) = Noted(l) \cup {e}
               /\ InForce(k) = {x \in InForce(l) : ~SameKey(e, x)} \cup {e}
               /\ Figure(k) = IF e.concept \in Budgets THEN e.value ELSE Figure(l)
               /\ Settled(l) => Settled(k)
<1>1. l \in Books /\ e \in PreferenceEvent
  BY DEF Grown, IsOwn
<1> DEFINE k == Append(l, e)
<1>2. k \in Grown /\ Noted(k) = Noted(l) \cup {e}
  BY <1>1, AppendGrows, AppendNotes
<1>3. InForce(k) = {x \in InForce(l) : ~SameKey(e, x)} \cup {e}
  BY <1>1, AppendForce
<1>4. \A C : /\ e.concept \in C => LastActive(k, C) = Len(l) + 1 /\ k[Len(l) + 1] = e
             /\ e.concept \notin C => LastActive(k, C) = LastActive(l, C)
             /\ LastActive(l, C) # 0 => k[LastActive(l, C)] = l[LastActive(l, C)]
  BY <1>1, LastActiveAppends
<1>5. Len(l) \in Nat
  BY <1>1 DEF Books
<1> HIDE DEF k
<1>6. Figure(k) = IF e.concept \in Budgets THEN e.value ELSE Figure(l)
  BY <1>4, <1>5 DEF Figure
<1>7. ASSUME Settled(l) PROVE Settled(k)
  <2> SUFFICES ASSUME NEW c \in Concepts, LastActive(k, {c}) # 0, k[LastActive(k, {c})].turn = Now
               PROVE  k[LastActive(k, {c})] \in InForce(k)
    BY DEF Settled
  <2>1. CASE e.concept = c
    BY <1>3, <1>4, <2>1
  <2>2. CASE e.concept # c
    <3>1. /\ LastActive(k, {c}) = LastActive(l, {c})
          /\ k[LastActive(k, {c})] = l[LastActive(l, {c})]
      BY <1>4, <2>2
    <3>2. l[LastActive(l, {c})] \in InForce(l) /\ l[LastActive(l, {c})].concept \in {c}
      BY <1>1, <1>7, <3>1, LastActiveIs DEF Settled
    <3>3. ~SameKey(e, l[LastActive(l, {c})])
      BY <2>2, <3>2 DEF SameKey
    <3> QED  BY <1>3, <3>1, <3>2, <3>3
  <2> QED  BY <2>1, <2>2
<1> QED  BY <1>2, <1>3, <1>6, <1>7 DEF k

\* Clearing a concept takes it out of force and changes nothing else that is read.
LEMMA ClearActiveIs ==
    ASSUME ledger \in Books, revision \in Nat, NEW l \in Grown,
           NEW c \in Concepts \ {"equipmentFeature", "primaryUsage"}
    PROVE  LET k == ClearActive(l, c)
           IN  /\ k \in Grown /\ Noted(k) = Noted(l) /\ Figure(k) = Figure(l)
               /\ InForce(k) = {x \in InForce(l) : x.concept # c}
               /\ Settled(l) /\ (\A x \in Noted(l) : x.concept = c => x.turn # Now) => Settled(k)
<1> DEFINE n == LastActive(l, {c})
           k == ClearActive(l, c)
<1> SUFFICES /\ k \in Grown /\ Noted(k) = Noted(l) /\ Figure(k) = Figure(l)
             /\ InForce(k) = {x \in InForce(l) : x.concept # c}
             /\ Settled(l) /\ (\A x \in Noted(l) : x.concept = c => x.turn # Now) => Settled(k)
  OBVIOUS
<1>1. l \in Books
  BY DEF Grown
<1>2. /\ n \in 0..Len(l)
      /\ n = 0 => \A x \in Noted(l) : x.concept \notin {c}
      /\ n # 0 => l[n] \in Noted(l) /\ l[n].concept \in {c}
  BY <1>1, LastActiveIs
<1>3. k = IF n = 0 THEN l ELSE End(l, n, "CLEARED")
  BY DEF ClearActive, ClearAt
<1>4. InForce(l) \subseteq Noted(l)
  BY <1>1, ForceIsNoted
<1> HIDE DEF n, k
<1>5. CASE n = 0
  <2>1. k = l
    BY <1>3, <1>5
  <2>2. \A x \in InForce(l) : x.concept # c
    BY <1>2, <1>4, <1>5
  <2>3. InForce(l) = {x \in InForce(l) : x.concept # c}
    BY <2>2
  <2> QED  BY <2>1, <2>3
<1>6. CASE n # 0
  <2>1. n \in 1..Len(l) /\ l[n].concept = c
    BY <1>1, <1>2, <1>6 DEF Books
  <2>2. /\ k \in Grown /\ Noted(k) = Noted(l) /\ Figure(k) = Figure(l)
        /\ InForce(k) = {x \in InForce(l) : ~SameKey(l[n], x)}
        /\ \A C : LastActive(k, C) = LastActive(l, C)
        /\ \A C : LastActive(l, C) # 0 => k[LastActive(l, C)] = l[LastActive(l, C)]
    BY <1>3, <1>6, <2>1, EndingIs
  <2>3. \A x : SameKey(l[n], x) <=> x.concept = c
    BY <2>1 DEF SameKey, IsEquipment
  <2>4. InForce(k) = {x \in InForce(l) : x.concept # c}
    BY <2>2, <2>3
  <2>5. ASSUME Settled(l), \A x \in Noted(l) : x.concept = c => x.turn # Now PROVE Settled(k)
    <3> SUFFICES ASSUME NEW d \in Concepts, LastActive(k, {d}) # 0, k[LastActive(k, {d})].turn = Now
                 PROVE  k[LastActive(k, {d})] \in InForce(k)
      BY DEF Settled
    <3>1. LastActive(l, {d}) # 0 /\ k[LastActive(k, {d})] = l[LastActive(l, {d})]
      BY <2>2
    <3>2. l[LastActive(l, {d})] \in InForce(l) /\ l[LastActive(l, {d})] \in Noted(l)
      BY <1>1, <2>5, <3>1, LastActiveIs DEF Settled
    <3> QED  BY <2>4, <2>5, <3>1, <3>2
  <2> QED  BY <2>2, <2>4, <2>5
<1> QED  BY <1>5, <1>6

\* The same for one piece of equipment.
LEMMA DroppingIs ==
    ASSUME ledger \in Books, revision \in Nat, NEW l \in Grown, NEW v
    PROVE  LET k == ClearAt(l, LastEquipment(l, v))
           IN  /\ k \in Grown /\ Noted(k) = Noted(l) /\ Figure(k) = Figure(l)
               /\ InForce(k) = {x \in InForce(l) : ~(IsEquipment(x) /\ x.value = v)}
               /\ Settled(l) /\ (\A x \in Noted(l) : IsEquipment(x) => x.turn # Now) => Settled(k)
<1> DEFINE n == LastEquipment(l, v)
           k == ClearAt(l, n)
<1> SUFFICES /\ k \in Grown /\ Noted(k) = Noted(l) /\ Figure(k) = Figure(l)
             /\ InForce(k) = {x \in InForce(l) : ~(IsEquipment(x) /\ x.value = v)}
             /\ Settled(l) /\ (\A x \in Noted(l) : IsEquipment(x) => x.turn # Now) => Settled(k)
  OBVIOUS
<1>1. l \in Books
  BY DEF Grown
<1>2. /\ n \in 0..Len(l)
      /\ n = 0 => \A x \in Noted(l) : IsEquipment(x) => x.value # v
      /\ n # 0 => l[n].value = v /\ IsEquipment(l[n])
  BY <1>1, LastEquipmentIs
<1>3. k = IF n = 0 THEN l ELSE End(l, n, "CLEARED")
  BY DEF ClearAt
<1>4. InForce(l) \subseteq Noted(l)
  BY <1>1, ForceIsNoted
<1> HIDE DEF n, k
<1>5. CASE n = 0
  <2>1. k = l
    BY <1>3, <1>5
  <2>2. \A x \in InForce(l) : ~(IsEquipment(x) /\ x.value = v)
    BY <1>2, <1>4, <1>5
  <2>3. InForce(l) = {x \in InForce(l) : ~(IsEquipment(x) /\ x.value = v)}
    BY <2>2
  <2> QED  BY <2>1, <2>3
<1>6. CASE n # 0
  <2>1. n \in 1..Len(l) /\ l[n].value = v /\ l[n].concept = "equipmentFeature"
    BY <1>1, <1>2, <1>6 DEF Books, IsEquipment
  <2>2. /\ k \in Grown /\ Noted(k) = Noted(l) /\ Figure(k) = Figure(l)
        /\ InForce(k) = {x \in InForce(l) : ~SameKey(l[n], x)}
        /\ \A C : LastActive(k, C) = LastActive(l, C)
        /\ \A C : LastActive(l, C) # 0 => k[LastActive(l, C)] = l[LastActive(l, C)]
    BY <1>3, <1>6, <2>1, EndingIs
  <2>3. \A x : SameKey(l[n], x) <=> IsEquipment(x) /\ x.value = v
    BY <2>1 DEF SameKey, IsEquipment
  <2>4. InForce(k) = {x \in InForce(l) : ~(IsEquipment(x) /\ x.value = v)}
    BY <2>2, <2>3
  <2>5. ASSUME Settled(l), \A x \in Noted(l) : IsEquipment(x) => x.turn # Now PROVE Settled(k)
    <3> SUFFICES ASSUME NEW d \in Concepts, LastActive(k, {d}) # 0, k[LastActive(k, {d})].turn = Now
                 PROVE  k[LastActive(k, {d})] \in InForce(k)
      BY DEF Settled
    <3>1. LastActive(l, {d}) # 0 /\ k[LastActive(k, {d})] = l[LastActive(l, {d})]
      BY <2>2
    <3>2. l[LastActive(l, {d})] \in InForce(l) /\ l[LastActive(l, {d})] \in Noted(l)
      BY <1>1, <2>5, <3>1, LastActiveIs DEF Settled
    <3> QED  BY <2>4, <2>5, <3>1, <3>2
  <2> QED  BY <2>2, <2>4, <2>5
<1> QED  BY <1>5, <1>6

\* An event that replaces event i.
LEMMA SupersedeAtIs ==
    ASSUME ledger \in Books, revision \in Nat, NEW l \in Grown, NEW i \in 0..Len(l),
           NEW e, IsOwn(e), e.status = "ACTIVE"
    PROVE  LET k == SupersedeAt(l, i, e)
           IN  /\ k \in Grown /\ Noted(k) = Noted(l) \cup {e}
               /\ InForce(k) = {x \in InForce(l) : ~SameKey(e, x)} \cup {e}
               /\ Figure(k) = IF e.concept \in Budgets THEN e.value ELSE Figure(l)
               /\ Settled(l) => Settled(k)
<1>1. CASE i = 0
  BY <1>1, NotingIs DEF SupersedeAt
<1>2. CASE i # 0
  <2> DEFINE d == End(l, i, "SUPERSEDED")
  <2>1. i \in 1..Len(l)
    BY <1>2 DEF Grown, Books
  <2>2. /\ d \in Grown /\ Noted(d) = Noted(l) /\ Figure(d) = Figure(l) /\ InForce(d) = InForce(l)
        /\ \A C : LastActive(d, C) = LastActive(l, C)
        /\ \A C : LastActive(l, C) # 0 => d[LastActive(l, C)] = l[LastActive(l, C)]
    BY <2>1, EndingIs
  <2>3. SupersedeAt(l, i, e) = Append(d, e)
    BY <1>2 DEF SupersedeAt
  <2> HIDE DEF d
  <2>4. Settled(l) => Settled(d)
    BY <2>2 DEF Settled
  <2> QED  BY <2>2, <2>3, <2>4, NotingIs
<1> QED  BY <1>1, <1>2

\* A preference stated again in the turn is not entered twice.
Repeats(l, e) ==
    \E x \in InForce(l) : x.concept = e.concept /\ x.turn = e.turn /\ x.value = e.value

\* A statement takes the place of its concept's, unless this turn said the same before.
LEMMA SupersedeActiveIs ==
    ASSUME ledger \in Books, revision \in Nat, NEW l \in Grown, Settled(l),
           NEW e, IsOwn(e), e.status = "ACTIVE", ~IsEquipment(e)
    PROVE  LET k == SupersedeActive(l, e)
           IN  /\ k \in Grown /\ Settled(k)
               /\ Repeats(l, e) => k = l
               /\ ~Repeats(l, e) =>
                     /\ Noted(k) = Noted(l) \cup {e}
                     /\ InForce(k) = {x \in InForce(l) : x.concept # e.concept} \cup {e}
                     /\ Figure(k) = IF e.concept \in Budgets THEN e.value ELSE Figure(l)
<1> DEFINE i == LastActive(l, {e.concept})
           again == i # 0 /\ l[i].turn = e.turn /\ l[i].value = e.value
<1>1. /\ l \in Books /\ e \in PreferenceEvent /\ e.turn = Now
      /\ e.concept \in Concepts
  BY DEF Grown, IsOwn, PreferenceEvent, EventRecord, Now
<1>2. /\ i \in 0..Len(l)
      /\ i = 0 => \A x \in Noted(l) : x.concept \notin {e.concept}
      /\ i # 0 => /\ l[i].concept \in {e.concept} /\ l[i].status = "ACTIVE"
                  /\ \A j \in 1..Len(l) :
                        l[j].concept \in {e.concept} /\ l[j].status = "ACTIVE" => j <= i
  BY <1>1, LastActiveIs
<1>3. SupersedeActive(l, e) = IF again THEN l ELSE SupersedeAt(l, i, e)
  BY DEF SupersedeActive
<1> HIDE DEF i
<1>4. again => Repeats(l, e)
  <2> SUFFICES ASSUME again PROVE Repeats(l, e)
    OBVIOUS
  <2>1. l[i] \in InForce(l)
    BY <1>1 DEF Settled, i
  <2> QED  BY <1>2, <2>1 DEF Repeats
<1>5. ASSUME Repeats(l, e) PROVE again
  <2>1. PICK j \in Terminal(l) : l[j].concept = e.concept /\ l[j].turn = e.turn /\ l[j].value = e.value
    BY <1>5 DEF Repeats, InForce
  <2>2. j \in 1..Len(l) /\ l[j].status = "ACTIVE" /\ l[j] \in Noted(l) /\ Len(l) \in Nat
    BY <1>1, <2>1 DEF Terminal, Books, Noted
  <2>3. i # 0 /\ j <= i
    BY <1>2, <2>1, <2>2
  <2>4. i \in 1..Len(l)
    BY <1>2, <2>2, <2>3
  <2>5. j < i => l[i].status = "SUPERSEDED"
    <3>1. SameKey(l[i], l[j])
      BY <1>2, <2>1, <2>3 DEF SameKey, IsEquipment
    <3>2. j < i => i \in (j + 1)..Len(l)
      BY <2>2, <2>4
    <3> QED  BY <2>1, <3>1, <3>2 DEF Terminal
  <2>6. j = i
    BY <1>2, <2>2, <2>3, <2>4, <2>5
  <2> QED  BY <2>1, <2>3, <2>6
<1>6. \A x : SameKey(e, x) <=> x.concept = e.concept
  BY DEF SameKey, IsEquipment
<1> DEFINE k == SupersedeAt(l, i, e)
<1>7. /\ k \in Grown /\ Noted(k) = Noted(l) \cup {e} /\ Settled(k)
      /\ InForce(k) = {x \in InForce(l) : ~SameKey(e, x)} \cup {e}
      /\ Figure(k) = IF e.concept \in Budgets THEN e.value ELSE Figure(l)
  BY <1>2, SupersedeAtIs
<1> HIDE DEF k
<1>8. InForce(k) = {x \in InForce(l) : x.concept # e.concept} \cup {e}
  BY <1>6, <1>7
<1> QED  BY <1>3, <1>4, <1>5, <1>7, <1>8 DEF k

(***************************************************************************)
(* What the folds of a turn do.                                            *)
(***************************************************************************)
One(s) == CHOOSE x \in s : TRUE
Ones(S) == [s \in (SUBSET S) \ {{}} |-> One(s)]

\* The community modules' One picks an element of every set that has one.
LEMMA OneIsPicked ==
    ASSUME NEW S
    PROVE  /\ Ones(S) \in Picks(S)
           /\ \A s \in SUBSET S : s # {} => Ones(S)[s] = One(s) /\ One(s) \in s
<1>1. \A s \in SUBSET S : s # {} => One(s) \in s
  BY DEF One
<1>2. \A s \in (SUBSET S) \ {{}} : One(s) \in s /\ One(s) \in S
  BY <1>1
<1>3. Ones(S) \in [(SUBSET S) \ {{}} -> S]
  BY <1>2 DEF Ones
<1>4. \A s \in (SUBSET S) \ {{}} : Ones(S)[s] = One(s)
  BY DEF Ones
<1> QED  BY <1>1, <1>2, <1>3, <1>4 DEF Picks

\* The functions that FoldSet iterates.
SetFolds(S, L, base, step) ==
    {g \in [SUBSET S -> L] : \A s \in SUBSET S :
        g[s] = IF s = {} THEN base ELSE step[One(s)][g[s \ {One(s)}]]}

\* FoldSet over a finite set is given by one of its iterations.
LEMMA SetFoldExists ==
    ASSUME NEW S, IsFiniteSet(S), NEW L, NEW base \in L, NEW step \in [S -> [L -> L]]
    PROVE  SetFolds(S, L, base, step) # {}
<1> DEFINE pick == Ones(S)
<1>1. pick \in Picks(S) /\ \A s \in SUBSET S : s # {} => pick[s] = One(s)
  BY OneIsPicked
<1> HIDE DEF pick
<1>2. PICK g \in Folds(S, L, base, step, pick) : TRUE
  BY <1>1, FoldExists
<1>3. g \in SetFolds(S, L, base, step)
  BY <1>1, <1>2 DEF Folds, SetFolds
<1> QED  BY <1>3

Clears(f, l, C) ==
    f = [s \in SUBSET C |-> IF s = {} THEN l ELSE ClearActive(f[s \ {One(s)}], One(s))]

\* Clearing several concepts, concept by concept.
LEMMA ClearAllFolds ==
    ASSUME NEW l, NEW C, NEW g, Clears(g, l, C)
    PROVE  \E f : ClearAll(l, C) = f[C] /\ Clears(f, l, C)
<1>1. PICK f : ClearAll(l, C) = f[C] /\ f = CHOOSE h : Clears(h, l, C)
  BY DEF ClearAll, FoldSet, MapThenFoldSet, One, Clears
<1>2. Clears(CHOOSE h : Clears(h, l, C), l, C)
  OBVIOUS
<1> QED  BY <1>1, <1>2

\* Cleared concepts are out of force, in whatever order they are cleared.
LEMMA ClearAllIs ==
    ASSUME ledger \in Books, revision \in Nat, NEW l \in Grown,
           NEW C, IsFiniteSet(C), C \subseteq Concepts \ {"equipmentFeature", "primaryUsage"}
    PROVE  LET k == ClearAll(l, C)
           IN  /\ k \in Grown /\ Noted(k) = Noted(l) /\ Figure(k) = Figure(l)
               /\ InForce(k) = {x \in InForce(l) : x.concept \notin C}
               /\ Settled(l) /\ (\A x \in Noted(l) : x.concept \in C => x.turn # Now) => Settled(k)
<1> DEFINE Done(k, s) ==
              /\ k \in Grown /\ Noted(k) = Noted(l) /\ Figure(k) = Figure(l)
              /\ InForce(k) = {x \in InForce(l) : x.concept \notin s}
              /\ Settled(l) /\ (\A x \in Noted(l) : x.concept \in s => x.turn # Now) => Settled(k)
           step == [c \in C |-> [k \in Grown |-> ClearActive(k, c)]]
<1>1. step \in [C -> [Grown -> Grown]]
  BY ClearActiveIs
<1>2. PICK g \in SetFolds(C, Grown, l, step) : TRUE
  <2> HIDE DEF step
  <2> QED  BY <1>1, SetFoldExists
<1>3. ASSUME NEW s \in SUBSET C
      PROVE  /\ s # {} => One(s) \in s
             /\ g[s] = IF s = {} THEN l ELSE ClearActive(g[s \ {One(s)}], One(s))
  <2>1. s # {} => One(s) \in s
    BY OneIsPicked
  <2>2. /\ g[s] = IF s = {} THEN l ELSE step[One(s)][g[s \ {One(s)}]]
        /\ g[s \ {One(s)}] \in Grown
    BY <1>2 DEF SetFolds
  <2> QED  BY <2>1, <2>2
<1>4. Clears(g, l, C)
  BY <1>2, <1>3 DEF SetFolds, Clears
<1>5. PICK f : ClearAll(l, C) = f[C] /\ Clears(f, l, C)
  BY <1>4, ClearAllFolds
<1> DEFINE G == {s \in SUBSET C : Done(f[s], s)}
<1>6. {} \in G
  BY <1>5 DEF Clears
<1>7. ASSUME NEW s \in SUBSET C, s # {} PROVE \E x \in s : s \ {x} \in G => s \in G
  <2> DEFINE c == One(s)
             k == f[s \ {c}]
  <2>1. c \in s /\ c \in C /\ s \ {c} \in SUBSET C
    BY <1>3, <1>7
  <2>2. f[s] = ClearActive(k, c)
    BY <1>5, <1>7 DEF Clears
  <2> HIDE DEF c, k
  <2>3. SUFFICES ASSUME Done(k, s \ {c}) PROVE Done(f[s], s)
    BY <2>1 DEF k
  <2>4. /\ f[s] \in Grown /\ Noted(f[s]) = Noted(k) /\ Figure(f[s]) = Figure(k)
        /\ InForce(f[s]) = {x \in InForce(k) : x.concept # c}
        /\ Settled(k) /\ (\A x \in Noted(k) : x.concept = c => x.turn # Now) => Settled(f[s])
    BY <2>1, <2>2, <2>3, ClearActiveIs
  <2> QED  BY <2>1, <2>3, <2>4
<1>8. C \in G
  <2> HIDE DEF G
  <2> QED  BY <1>6, <1>7, SubsetsOf
<1> QED  BY <1>5, <1>8

CanBeStated(w) ==
    /\ w = Wish(w.concept, w.value, w.use)
    /\ w.concept \in Concepts \ (Hints \cup Budgets \cup {"equipmentFeature"})
    /\ w.value \in Values
    /\ w.use \in {"HARD_FILTER", "SOFT_RANK"}
    /\ w.concept = "primaryUsage" => w.use = "HARD_FILTER"

\* An event written in this turn is one of the turn's own.
LEMMA EventIsOwn ==
    ASSUME revision \in Nat,
           NEW c \in Concepts, NEW v \in Values, NEW u \in {"HARD_FILTER", "SOFT_RANK", "QUESTION_INPUT"},
           NEW s \in {"EXPLICIT_STRONG", "CONFIRMED_STRONG", "WEAK_SIGNAL"},
           WellFormed(c, v, u, s)
    PROVE  LET e == Event(Wish(c, v, u), s)
           IN  /\ IsOwn(e) /\ e.status = "ACTIVE" /\ e.turn = Now
               /\ e.concept = c /\ e.value = v /\ e.use = u /\ e.strength = s
<1> DEFINE e == Event(Wish(c, v, u), s)
<1>1. /\ e.status = "ACTIVE" /\ e.turn = Now /\ e.concept = c /\ e.value = v
      /\ e.use = u /\ e.strength = s
  BY DEF Event, Wish, Now
<1>2. e \in EventRecord
  BY DEF Event, Wish, EventRecord
<1>3. e \in PreferenceEvent
  BY <1>1, <1>2 DEF PreferenceEvent, WellFormed
<1> HIDE DEF e
<1>4. IsOwn(e)
  BY <1>1, <1>3 DEF IsOwn, Now
<1> QED  BY <1>1, <1>4 DEF e

\* So is a statement.
LEMMA StatedIsOwn ==
    ASSUME revision \in Nat, NEW w, CanBeStated(w)
    PROVE  LET e == Stated(w)
           IN  /\ IsOwn(e) /\ e.status = "ACTIVE" /\ e.turn = Now /\ e.strength = "EXPLICIT_STRONG"
               /\ e.concept = w.concept /\ e.value = w.value /\ e.use = w.use
               /\ ~IsEquipment(e) /\ e.concept \notin Budgets
<1>1. /\ w.concept \in Concepts /\ w.value \in Values
      /\ w.use \in {"HARD_FILTER", "SOFT_RANK", "QUESTION_INPUT"}
      /\ w.concept \notin Budgets /\ w.concept # "equipmentFeature"
      /\ Stated(w) = Event(Wish(w.concept, w.value, w.use), "EXPLICIT_STRONG")
  BY DEF CanBeStated, Stated
<1>2. WellFormed(w.concept, w.value, w.use, "EXPLICIT_STRONG")
  BY DEF CanBeStated, WellFormed, Budgets
<1> QED  BY <1>1, <1>2, EventIsOwn DEF IsEquipment

\* The statements of W that l does not hold from this turn already.
News(l, W) == {w \in W : ~Repeats(l, Stated(w))}

States(f, l, W) ==
    f = [s \in SUBSET W |-> IF s = {} THEN l ELSE SupersedeActive(f[s \ {One(s)}], Stated(One(s)))]

\* Stating several wishes, wish by wish.
LEMMA StateAllFolds ==
    ASSUME NEW l, NEW W, NEW g, States(g, l, W)
    PROVE  \E f : StateAll(l, W) = f[W] /\ States(f, l, W)
<1>1. PICK f : StateAll(l, W) = f[W] /\ f = CHOOSE h : States(h, l, W)
  BY DEF StateAll, FoldSet, MapThenFoldSet, One, States
<1>2. States(CHOOSE h : States(h, l, W), l, W)
  OBVIOUS
<1> QED  BY <1>1, <1>2

\* Statements about different concepts are all in force, in whatever order they are made.
LEMMA StateAllIs ==
    ASSUME ledger \in Books, revision \in Nat, NEW l \in Grown, Settled(l),
           NEW W, IsFiniteSet(W), \A w \in W : CanBeStated(w),
           \A v, w \in W : v.concept = w.concept => v = w
    PROVE  LET k == StateAll(l, W)
           IN  /\ k \in Grown /\ Settled(k) /\ Figure(k) = Figure(l)
               /\ Noted(k) = Noted(l) \cup {Stated(w) : w \in News(l, W)}
               /\ InForce(k) = {x \in InForce(l) : \A w \in News(l, W) : w.concept # x.concept}
                                  \cup {Stated(w) : w \in News(l, W)}
<1> DEFINE L == {k \in Grown : Settled(k)}
           Done(k, s) ==
              /\ k \in L /\ Figure(k) = Figure(l)
              /\ Noted(k) = Noted(l) \cup {Stated(w) : w \in News(l, s)}
              /\ InForce(k) = {x \in InForce(l) : \A w \in News(l, s) : w.concept # x.concept}
                                 \cup {Stated(w) : w \in News(l, s)}
           step == [w \in W |-> [k \in L |-> SupersedeActive(k, Stated(w))]]
<1>1. step \in [W -> [L -> L]]
  BY StatedIsOwn, SupersedeActiveIs
<1>2. PICK g \in SetFolds(W, L, l, step) : TRUE
  <2>1. l \in L
    OBVIOUS
  <2> HIDE DEF step, L
  <2> QED  BY <1>1, <2>1, SetFoldExists
<1>3. ASSUME NEW s \in SUBSET W
      PROVE  /\ s # {} => One(s) \in s
             /\ g[s] = IF s = {} THEN l ELSE SupersedeActive(g[s \ {One(s)}], Stated(One(s)))
  <2>1. s # {} => One(s) \in s
    BY OneIsPicked
  <2>2. /\ g[s] = IF s = {} THEN l ELSE step[One(s)][g[s \ {One(s)}]]
        /\ g[s \ {One(s)}] \in L
    BY <1>2 DEF SetFolds
  <2> HIDE DEF L
  <2> QED  BY <2>1, <2>2
<1>4. States(g, l, W)
  BY <1>2, <1>3 DEF SetFolds, States
<1>5. PICK f : StateAll(l, W) = f[W] /\ States(f, l, W)
  BY <1>4, StateAllFolds
<1> DEFINE G == {s \in SUBSET W : Done(f[s], s)}
<1>6. {} \in G
  BY <1>5 DEF States, News
<1>7. ASSUME NEW s \in SUBSET W, s # {} PROVE \E x \in s : s \ {x} \in G => s \in G
  <2> DEFINE w == One(s)
             k == f[s \ {w}]
             e == Stated(w)
  <2>1. w \in s /\ w \in W /\ s \ {w} \in SUBSET W
    BY <1>3, <1>7
  <2>2. f[s] = SupersedeActive(k, e)
    BY <1>5, <1>7 DEF States
  <2>3. /\ IsOwn(e) /\ e.status = "ACTIVE" /\ e.concept = w.concept
        /\ ~IsEquipment(e) /\ e.concept \notin Budgets
    BY <2>1, StatedIsOwn
  <2>4. \A v \in W : Stated(v).concept = v.concept
    BY StatedIsOwn
  <2> HIDE DEF w, k, e
  <2>5. SUFFICES ASSUME Done(k, s \ {w}) PROVE Done(f[s], s)
    BY <2>1 DEF k
  <2>6. /\ f[s] \in L
        /\ Repeats(k, e) => f[s] = k
        /\ ~Repeats(k, e) =>
              /\ Noted(f[s]) = Noted(k) \cup {e}
              /\ InForce(f[s]) = {x \in InForce(k) : x.concept # e.concept} \cup {e}
              /\ Figure(f[s]) = Figure(k)
    BY <2>2, <2>3, <2>5, SupersedeActiveIs
  <2>7. \A v \in News(l, s \ {w}) : v.concept # w.concept
    BY <2>1 DEF News
  <2>8. Repeats(k, e) <=> Repeats(l, e)
    <3>1. \A x : x.concept = e.concept => (x \in InForce(k) <=> x \in InForce(l))
      BY <2>3, <2>4, <2>5, <2>7 DEF News
    <3> QED  BY <3>1 DEF Repeats
  <2>9. CASE Repeats(l, e)
    <3>1. News(l, s) = News(l, s \ {w})
      BY <2>1, <2>9 DEF News, e
    <3> QED  BY <2>5, <2>6, <2>8, <2>9, <3>1
  <2>10. CASE ~Repeats(l, e)
    <3>1. News(l, s) = News(l, s \ {w}) \cup {w}
      BY <2>1, <2>10 DEF News, e
    <3>2. Noted(f[s]) = Noted(l) \cup {Stated(v) : v \in News(l, s)}
      BY <2>5, <2>6, <2>8, <2>10, <3>1 DEF e
    <3>3. \A x \in {Stated(v) : v \in News(l, s \ {w})} : x.concept # e.concept
      BY <2>3, <2>4, <2>7 DEF News
    <3>4. InForce(f[s]) = {x \in InForce(l) : \A v \in News(l, s) : v.concept # x.concept}
                             \cup {Stated(v) : v \in News(l, s)}
      <4> DEFINE A == {Stated(v) : v \in News(l, s \ {w})}
                 B == {x \in InForce(l) : \A v \in News(l, s \ {w}) : v.concept # x.concept}
      <4>1. InForce(k) = B \cup A
        BY <2>5
      <4>2. InForce(f[s]) = {x \in B \cup A : x.concept # e.concept} \cup {e}
        BY <2>6, <2>8, <2>10, <4>1
      <4>3. {x \in B \cup A : x.concept # e.concept} = {x \in B : x.concept # e.concept} \cup A
        BY <3>3
      <4>4. {x \in B : x.concept # e.concept} = {x \in InForce(l) : \A v \in News(l, s) : v.concept # x.concept}
        BY <2>3, <3>1
      <4>5. {Stated(v) : v \in News(l, s)} = A \cup {e}
        BY <3>1 DEF e
      <4> HIDE DEF A, B
      <4> QED  BY <4>2, <4>3, <4>4, <4>5
    <3> QED  BY <2>5, <2>6, <2>8, <2>10, <3>2, <3>4
  <2> QED  BY <2>9, <2>10
<1>8. W \in G
  <2> HIDE DEF G
  <2> QED  BY <1>6, <1>7, SubsetsOf
<1> QED  BY <1>5, <1>8

Drops(f, l, V) ==
    f = [s \in SUBSET V |-> IF s = {} THEN l
                            ELSE ClearAt(f[s \ {One(s)}], LastEquipment(f[s \ {One(s)}], One(s)))]

\* Dropping several pieces of equipment, piece by piece.
LEMMA DropEquipmentFolds ==
    ASSUME NEW l, NEW m, NEW g, Drops(g, l, m.drops)
    PROVE  \E f : DropEquipment(l, m) = f[m.drops] /\ Drops(f, l, m.drops)
<1>1. PICK f : DropEquipment(l, m) = f[m.drops] /\ f = CHOOSE h : Drops(h, l, m.drops)
  BY DEF DropEquipment, FoldSet, MapThenFoldSet, One, Drops
<1>2. Drops(CHOOSE h : Drops(h, l, m.drops), l, m.drops)
  OBVIOUS
<1> QED  BY <1>1, <1>2

\* Dropped equipment is out of force.
LEMMA DropEquipmentIs ==
    ASSUME ledger \in Books, revision \in Nat, NEW l \in Grown, NEW m, IsFiniteSet(m.drops)
    PROVE  LET k == DropEquipment(l, m)
           IN  /\ k \in Grown /\ Noted(k) = Noted(l) /\ Figure(k) = Figure(l)
               /\ InForce(k) = {x \in InForce(l) : ~(IsEquipment(x) /\ x.value \in m.drops)}
               /\ Settled(l) /\ (\A x \in Noted(l) : IsEquipment(x) => x.turn # Now) => Settled(k)
<1> DEFINE V == m.drops
           Done(k, s) ==
              /\ k \in Grown /\ Noted(k) = Noted(l) /\ Figure(k) = Figure(l)
              /\ InForce(k) = {x \in InForce(l) : ~(IsEquipment(x) /\ x.value \in s)}
              /\ Settled(l) /\ (\A x \in Noted(l) : IsEquipment(x) => x.turn # Now) => Settled(k)
           step == [v \in V |-> [k \in Grown |-> ClearAt(k, LastEquipment(k, v))]]
<1>1. step \in [V -> [Grown -> Grown]]
  BY DroppingIs
<1>2. PICK g \in SetFolds(V, Grown, l, step) : TRUE
  <2> HIDE DEF step
  <2> QED  BY <1>1, SetFoldExists
<1>3. ASSUME NEW s \in SUBSET V
      PROVE  /\ s # {} => One(s) \in s
             /\ g[s] = IF s = {} THEN l
                       ELSE ClearAt(g[s \ {One(s)}], LastEquipment(g[s \ {One(s)}], One(s)))
  <2>1. s # {} => One(s) \in s
    BY OneIsPicked
  <2>2. /\ g[s] = IF s = {} THEN l ELSE step[One(s)][g[s \ {One(s)}]]
        /\ g[s \ {One(s)}] \in Grown
    BY <1>2 DEF SetFolds
  <2> QED  BY <2>1, <2>2
<1>4. Drops(g, l, V)
  BY <1>2, <1>3 DEF SetFolds, Drops
<1>5. PICK f : DropEquipment(l, m) = f[V] /\ Drops(f, l, V)
  BY <1>4, DropEquipmentFolds
<1> DEFINE G == {s \in SUBSET V : Done(f[s], s)}
<1>6. {} \in G
  BY <1>5 DEF Drops
<1>7. ASSUME NEW s \in SUBSET V, s # {} PROVE \E x \in s : s \ {x} \in G => s \in G
  <2> DEFINE v == One(s)
             k == f[s \ {v}]
  <2>1. v \in s /\ v \in V /\ s \ {v} \in SUBSET V
    BY <1>3, <1>7
  <2>2. f[s] = ClearAt(k, LastEquipment(k, v))
    BY <1>5, <1>7 DEF Drops
  <2> HIDE DEF v, k
  <2>3. SUFFICES ASSUME Done(k, s \ {v}) PROVE Done(f[s], s)
    BY <2>1 DEF k
  <2>4. /\ f[s] \in Grown /\ Noted(f[s]) = Noted(k) /\ Figure(f[s]) = Figure(k)
        /\ InForce(f[s]) = {x \in InForce(k) : ~(IsEquipment(x) /\ x.value = v)}
        /\ Settled(k) /\ (\A x \in Noted(k) : IsEquipment(x) => x.turn # Now) => Settled(f[s])
    BY <2>2, <2>3, DroppingIs
  <2>5. InForce(f[s]) = {x \in InForce(l) : ~(IsEquipment(x) /\ x.value \in s)}
    BY <2>1, <2>3, <2>4
  <2> QED  BY <2>3, <2>4, <2>5
<1>8. V \in G
  <2> HIDE DEF G
  <2> QED  BY <1>6, <1>7, SubsetsOf
<1> QED  BY <1>5, <1>8

Wanted(v) == Stated(Wish("equipmentFeature", v, "HARD_FILTER"))

\* The event of a wanted piece of equipment is one of the turn's own.
LEMMA WantedIsOwn ==
    ASSUME revision \in Nat, NEW v \in Values
    PROVE  LET e == Wanted(v)
           IN  /\ IsOwn(e) /\ e.status = "ACTIVE" /\ e.turn = Now /\ e.strength = "EXPLICIT_STRONG"
               /\ IsEquipment(e) /\ e.value = v /\ e.use = "HARD_FILTER" /\ e.concept \notin Budgets
<1>1. "equipmentFeature" \in Concepts /\ "equipmentFeature" \notin Budgets
  BY DEF Concepts, Budgets
<1>2. WellFormed("equipmentFeature", v, "HARD_FILTER", "EXPLICIT_STRONG")
  BY <1>1, HintsAreNotStated DEF WellFormed
<1> QED  BY <1>1, <1>2, EventIsOwn DEF Wanted, Stated, IsEquipment

Wants(f, l, V) ==
    f = [s \in SUBSET V |-> IF s = {} THEN l
                            ELSE SupersedeAt(f[s \ {One(s)}], LastEquipment(f[s \ {One(s)}], One(s)),
                                             Wanted(One(s)))]

\* Wanting several pieces of equipment, piece by piece.
LEMMA WantEquipmentFolds ==
    ASSUME NEW l, NEW m, NEW g, Wants(g, l, m.wants)
    PROVE  \E f : WantEquipment(l, m) = f[m.wants] /\ Wants(f, l, m.wants)
<1>1. PICK f : WantEquipment(l, m) = f[m.wants] /\ f = CHOOSE h : Wants(h, l, m.wants)
  BY DEF WantEquipment, FoldSet, MapThenFoldSet, One, Wants, Wanted
<1>2. Wants(CHOOSE h : Wants(h, l, m.wants), l, m.wants)
  OBVIOUS
<1> QED  BY <1>1, <1>2

\* Every piece of equipment that is wanted is in force, beside the others.
LEMMA WantEquipmentIs ==
    ASSUME ledger \in Books, revision \in Nat, NEW l \in Grown, Settled(l),
           NEW m, IsFiniteSet(m.wants), m.wants \subseteq Values
    PROVE  LET k == WantEquipment(l, m)
           IN  /\ k \in Grown /\ Settled(k) /\ Figure(k) = Figure(l)
               /\ Noted(k) = Noted(l) \cup {Wanted(v) : v \in m.wants}
               /\ InForce(k) = {x \in InForce(l) : ~(IsEquipment(x) /\ x.value \in m.wants)}
                                  \cup {Wanted(v) : v \in m.wants}
<1> DEFINE V == m.wants
           L == {k \in Grown : Settled(k)}
           Done(k, s) ==
              /\ k \in L /\ Figure(k) = Figure(l)
              /\ Noted(k) = Noted(l) \cup {Wanted(v) : v \in s}
              /\ InForce(k) = {x \in InForce(l) : ~(IsEquipment(x) /\ x.value \in s)}
                                 \cup {Wanted(v) : v \in s}
           step == [v \in V |-> [k \in L |-> SupersedeAt(k, LastEquipment(k, v), Wanted(v))]]
<1>0. ASSUME NEW k \in L, NEW v \in V
      PROVE  LET j == SupersedeAt(k, LastEquipment(k, v), Wanted(v))
             IN  /\ j \in L /\ Noted(j) = Noted(k) \cup {Wanted(v)} /\ Figure(j) = Figure(k)
                 /\ InForce(j) = {x \in InForce(k) : ~(IsEquipment(x) /\ x.value = v)} \cup {Wanted(v)}
  <2> DEFINE j == SupersedeAt(k, LastEquipment(k, v), Wanted(v))
             e == Wanted(v)
  <2>1. /\ IsOwn(e) /\ e.status = "ACTIVE" /\ IsEquipment(e) /\ e.value = v /\ e.concept \notin Budgets
    BY WantedIsOwn
  <2>2. LastEquipment(k, v) \in 0..Len(k)
    BY LastEquipmentIs DEF Grown
  <2> HIDE DEF e
  <2>3. /\ j \in L /\ Noted(j) = Noted(k) \cup {e} /\ Figure(j) = Figure(k)
        /\ InForce(j) = {x \in InForce(k) : ~SameKey(e, x)} \cup {e}
    BY <2>1, <2>2, SupersedeAtIs DEF e
  <2>4. \A x : SameKey(e, x) <=> IsEquipment(x) /\ x.value = v
    BY <2>1 DEF SameKey, IsEquipment
  <2>5. InForce(j) = {x \in InForce(k) : ~(IsEquipment(x) /\ x.value = v)} \cup {e}
    BY <2>3, <2>4
  <2> QED  BY <2>3, <2>5 DEF e
<1>1. step \in [V -> [L -> L]]
  BY <1>0
<1>2. PICK g \in SetFolds(V, L, l, step) : TRUE
  <2>1. l \in L
    OBVIOUS
  <2> HIDE DEF step, L
  <2> QED  BY <1>1, <2>1, SetFoldExists
<1>3. ASSUME NEW s \in SUBSET V
      PROVE  /\ s # {} => One(s) \in s
             /\ g[s] = IF s = {} THEN l
                       ELSE SupersedeAt(g[s \ {One(s)}], LastEquipment(g[s \ {One(s)}], One(s)),
                                        Wanted(One(s)))
  <2>1. s # {} => One(s) \in s
    BY OneIsPicked
  <2>2. /\ g[s] = IF s = {} THEN l ELSE step[One(s)][g[s \ {One(s)}]]
        /\ g[s \ {One(s)}] \in L
    BY <1>2 DEF SetFolds
  <2> HIDE DEF L
  <2> QED  BY <2>1, <2>2
<1>4. Wants(g, l, V)
  BY <1>2, <1>3 DEF SetFolds, Wants
<1>5. PICK f : WantEquipment(l, m) = f[V] /\ Wants(f, l, V)
  BY <1>4, WantEquipmentFolds
<1> DEFINE G == {s \in SUBSET V : Done(f[s], s)}
<1>6. {} \in G
  BY <1>5 DEF Wants
<1>7. ASSUME NEW s \in SUBSET V, s # {} PROVE \E x \in s : s \ {x} \in G => s \in G
  <2> DEFINE v == One(s)
             k == f[s \ {v}]
  <2>1. v \in s /\ v \in V /\ s \ {v} \in SUBSET V
    BY <1>3, <1>7
  <2>2. f[s] = SupersedeAt(k, LastEquipment(k, v), Wanted(v))
    BY <1>5, <1>7 DEF Wants
  <2> HIDE DEF v, k
  <2>3. SUFFICES ASSUME Done(k, s \ {v}) PROVE Done(f[s], s)
    BY <2>1 DEF k
  <2> DEFINE A == {Wanted(u) : u \in s \ {v}}
             e == Wanted(v)
  <2>4. /\ f[s] \in L /\ Noted(f[s]) = Noted(k) \cup {e} /\ Figure(f[s]) = Figure(k)
        /\ InForce(f[s]) = {x \in InForce(k) : ~(IsEquipment(x) /\ x.value = v)} \cup {e}
    BY <1>0, <2>1, <2>2, <2>3
  <2>5. {Wanted(u) : u \in s} = A \cup {e}
    BY <2>1
  <2>6. \A x \in A : x.value # v
    BY <2>1, WantedIsOwn
  <2> HIDE DEF A, e
  <2>7. /\ Noted(k) = Noted(l) \cup A
        /\ InForce(k) = {x \in InForce(l) : ~(IsEquipment(x) /\ x.value \in s \ {v})} \cup A
    BY <2>3 DEF A
  <2>8. InForce(f[s]) = {x \in InForce(l) : ~(IsEquipment(x) /\ x.value \in s)} \cup A \cup {e}
    BY <2>1, <2>4, <2>6, <2>7
  <2> QED  BY <2>3, <2>4, <2>5, <2>7, <2>8
<1>8. V \in G
  <2> HIDE DEF G
  <2> QED  BY <1>6, <1>7, SubsetsOf
<1> QED  BY <1>5, <1>8

(***************************************************************************)
(* Hints.                                                                  *)
(***************************************************************************)
Lasts(n) == [s \in (SUBSET (1..n)) \ {{}} |-> Max(s)]

\* FoldLeft takes the last index first.
LEMMA MaxIsPicked ==
    ASSUME NEW n \in Nat
    PROVE  /\ Lasts(n) \in Picks(1..n)
           /\ \A s \in SUBSET (1..n) : s # {} =>
                 Lasts(n)[s] = Max(s) /\ Max(s) \in s /\ \A i \in s : Max(s) >= i
<1>1. ASSUME NEW s \in SUBSET (1..n), s # {} PROVE Max(s) \in s /\ \A i \in s : Max(s) >= i
  <2>1. PICK i \in s : \A j \in s : i >= j
    BY <1>1, LargestIndex
  <2> QED  BY <2>1 DEF Max
<1>2. \A s \in (SUBSET (1..n)) \ {{}} : Max(s) \in s /\ Max(s) \in 1..n
  BY <1>1
<1>3. Lasts(n) \in [(SUBSET (1..n)) \ {{}} -> 1..n]
  BY <1>2 DEF Lasts
<1>4. \A s \in (SUBSET (1..n)) \ {{}} : Lasts(n)[s] = Max(s)
  BY DEF Lasts
<1> QED  BY <1>1, <1>2, <1>3, <1>4 DEF Picks

\* The functions that FoldLeft iterates.
SeqFolds(n, L, base, step) ==
    {g \in [SUBSET (1..n) -> L] : \A s \in SUBSET (1..n) :
        g[s] = IF s = {} THEN base ELSE step[Max(s)][g[s \ {Max(s)}]]}

\* FoldLeft over a sequence is given by one of its iterations.
LEMMA SeqFoldExists ==
    ASSUME NEW n \in Nat, NEW L, NEW base \in L, NEW step \in [1..n -> [L -> L]]
    PROVE  SeqFolds(n, L, base, step) # {}
<1> DEFINE pick == Lasts(n)
<1>1. pick \in Picks(1..n) /\ \A s \in SUBSET (1..n) : s # {} => pick[s] = Max(s)
  BY MaxIsPicked
<1>2. IsFiniteSet(1..n)
  BY FS_Interval
<1> HIDE DEF pick
<1>3. PICK g \in Folds(1..n, L, base, step, pick) : TRUE
  BY <1>1, <1>2, FoldExists
<1>4. g \in SeqFolds(n, L, base, step)
  BY <1>1, <1>3 DEF Folds, SeqFolds
<1> QED  BY <1>4

WeakIn(acc, m, resolved, h) == IF IsNew(h, m, acc, resolved) THEN Append(acc, Weak(h)) ELSE acc

Notices(f, l, m, resolved) ==
    f = [s \in SUBSET (DOMAIN HintOrder) |->
            IF s = {} THEN l ELSE WeakIn(f[s \ {Max(s)}], m, resolved, HintOrder[Max(s)])]

\* Noticing several hints, hint by hint.
LEMMA NoticeFolds ==
    ASSUME NEW l, NEW m, NEW resolved, NEW g, Notices(g, l, m, resolved)
    PROVE  \E f : Notice(m, l, resolved) = f[DOMAIN HintOrder] /\ Notices(f, l, m, resolved)
<1>1. PICK f : /\ Notice(m, l, resolved) = f[DOMAIN HintOrder]
               /\ f = CHOOSE h : Notices(h, l, m, resolved)
  BY DEF Notice, FoldLeft, MapThenFoldSet, Notices, WeakIn
<1>2. Notices(CHOOSE h : Notices(h, l, m, resolved), l, m, resolved)
  OBVIOUS
<1> QED  BY <1>1, <1>2

\* A hint is a concept of its own, neither a price nor equipment nor a use.
LEMMA HintsAreConcepts ==
    ASSUME NEW h \in Hints
    PROVE  /\ h \in Concepts /\ h \in Values /\ h \notin Budgets /\ h # "equipmentFeature"
           /\ h # "primaryUsage"
<1>1. h \in Concepts
  BY DEF Concepts
<1>2. h \in Values
  BY DEF Values
<1>3. \A c \in Hints : c \notin Budgets /\ c # "equipmentFeature" /\ c # "primaryUsage"
  BY HintsAreNotStated
<1> QED  BY <1>1, <1>2, <1>3

\* The weak signal of a hint is one of the turn's own events.
LEMMA WeakIsOwn ==
    ASSUME revision \in Nat, NEW h \in Hints
    PROVE  LET e == Weak(h)
           IN  /\ IsOwn(e) /\ e.status = "ACTIVE" /\ e.turn = Now /\ e.strength = "WEAK_SIGNAL"
               /\ e.concept = h /\ e.use = "QUESTION_INPUT" /\ ~IsEquipment(e) /\ h \notin Budgets
<1>1. h \in Concepts /\ h \in Values /\ h \notin Budgets /\ h # "equipmentFeature" /\ h # "primaryUsage"
  BY HintsAreConcepts
<1>2. WellFormed(h, h, "QUESTION_INPUT", "WEAK_SIGNAL")
  BY <1>1 DEF WellFormed, Budgets
<1> QED  BY <1>1, <1>2, EventIsOwn DEF Weak, IsEquipment

\* A concept has no active event when none was ever put in force.
LEMMA NotSeenIs ==
    ASSUME NEW l \in Books, NEW c
    PROVE  LastActive(l, {c}) = 0 <=> \A x \in Noted(l) : x.concept # c
BY LastActiveIs

\* The hints of m that are new to l.
NewHints(m, l, resolved) == {h \in Hints : IsNew(h, m, l, resolved)}

\* One hint more enters the ledger when it is new.
LEMMA WeakInIs ==
    ASSUME ledger \in Books, revision \in Nat, NEW l \in Grown, Settled(l),
           NEW m, NEW resolved, NEW h \in Hints
    PROVE  LET k == WeakIn(l, m, resolved, h)
           IN  /\ k \in Grown /\ Settled(k) /\ Figure(k) = Figure(l)
               /\ ~IsNew(h, m, l, resolved) => k = l
               /\ IsNew(h, m, l, resolved) =>
                     /\ Noted(k) = Noted(l) \cup {Weak(h)}
                     /\ InForce(k) = InForce(l) \cup {Weak(h)}
<1> DEFINE e == Weak(h)
           k == Append(l, e)
<1>1. IsOwn(e) /\ e.status = "ACTIVE" /\ e.concept = h /\ ~IsEquipment(e) /\ h \notin Budgets
  BY WeakIsOwn
<1>2. l \in Books
  BY DEF Grown
<1> HIDE DEF e
<1>3. /\ k \in Grown /\ Noted(k) = Noted(l) \cup {e}
      /\ InForce(k) = {x \in InForce(l) : ~SameKey(e, x)} \cup {e}
      /\ Figure(k) = Figure(l) /\ Settled(k)
  BY <1>1, NotingIs
<1> HIDE DEF k
<1>4. ASSUME IsNew(h, m, l, resolved) PROVE InForce(k) = InForce(l) \cup {e}
  <2>1. \A x \in Noted(l) : x.concept # h
    BY <1>2, <1>4, NotSeenIs DEF IsNew
  <2>2. \A x \in InForce(l) : ~SameKey(e, x)
    BY <1>1, <1>2, <2>1, ForceIsNoted DEF SameKey
  <2> QED  BY <1>3, <2>2
<1> QED  BY <1>3, <1>4 DEF WeakIn, k, e

\* Exactly the new hints enter the ledger, in force as weak signals.
LEMMA NoticeIs ==
    ASSUME ledger \in Books, revision \in Nat, NEW l \in Grown, Settled(l),
           NEW m, NEW resolved
    PROVE  LET k == Notice(m, l, resolved)
           IN  /\ k \in Grown /\ Settled(k) /\ Figure(k) = Figure(l)
               /\ Noted(k) = Noted(l) \cup {Weak(h) : h \in NewHints(m, l, resolved)}
               /\ InForce(k) = InForce(l) \cup {Weak(h) : h \in NewHints(m, l, resolved)}
<1> DEFINE n == Len(HintOrder)
           L == {k \in Grown : Settled(k)}
           New(s) == {h \in NewHints(m, l, resolved) : \E i \in s : HintOrder[i] = h}
           Done(k, s) ==
              /\ k \in L /\ Figure(k) = Figure(l)
              /\ Noted(k) = Noted(l) \cup {Weak(h) : h \in New(s)}
              /\ InForce(k) = InForce(l) \cup {Weak(h) : h \in New(s)}
           step == [i \in 1..n |-> [k \in L |-> WeakIn(k, m, resolved, HintOrder[i])]]
<1>0. n \in Nat /\ DOMAIN HintOrder = 1..n /\ \A i \in 1..n : HintOrder[i] \in Hints
  BY HintsAssumption
<1>1. step \in [1..n -> [L -> L]]
  BY <1>0, WeakInIs
<1>2. PICK g \in SeqFolds(n, L, l, step) : TRUE
  <2>1. l \in L
    OBVIOUS
  <2> HIDE DEF step, L, n
  <2> QED  BY <1>0, <1>1, <2>1, SeqFoldExists
<1>3. ASSUME NEW s \in SUBSET (1..n)
      PROVE  /\ s # {} => Max(s) \in s
             /\ g[s] = IF s = {} THEN l ELSE WeakIn(g[s \ {Max(s)}], m, resolved, HintOrder[Max(s)])
  <2>1. s # {} => Max(s) \in s
    BY <1>0, MaxIsPicked
  <2>2. /\ g[s] = IF s = {} THEN l ELSE step[Max(s)][g[s \ {Max(s)}]]
        /\ g[s \ {Max(s)}] \in L
    BY <1>2 DEF SeqFolds
  <2> HIDE DEF L, n
  <2> QED  BY <2>1, <2>2
<1>4. Notices(g, l, m, resolved)
  BY <1>0, <1>2, <1>3 DEF SeqFolds, Notices
<1>5. PICK f : Notice(m, l, resolved) = f[1..n] /\ Notices(f, l, m, resolved)
  BY <1>0, <1>4, NoticeFolds
<1> DEFINE G == {s \in SUBSET (1..n) : Done(f[s], s)}
<1>6. {} \in G
  BY <1>0, <1>5 DEF Notices
<1>7. ASSUME NEW s \in SUBSET (1..n), s # {} PROVE \E x \in s : s \ {x} \in G => s \in G
  <2> DEFINE i == Max(s)
             h == HintOrder[i]
             k == f[s \ {i}]
  <2>1. i \in s /\ i \in 1..n /\ s \ {i} \in SUBSET (1..n) /\ h \in Hints
    BY <1>0, <1>3, <1>7
  <2>2. f[s] = WeakIn(k, m, resolved, h)
    BY <1>0, <1>5, <1>7 DEF Notices
  <2>3. \A d \in Hints : Weak(d).concept = d
    BY WeakIsOwn
  <2>4. \A d : d \in New(s) <=> d \in New(s \ {i}) \/ (d = h /\ IsNew(h, m, l, resolved))
    BY <2>1 DEF NewHints
  <2>5. New(s \ {i}) \subseteq NewHints(m, l, resolved)
    OBVIOUS
  <2> DEFINE S == New(s \ {i})
             T == New(s)
  <2>6. SUFFICES ASSUME Done(k, s \ {i}) PROVE Done(f[s], s)
    BY <2>1
  <2>7. /\ k \in L /\ Figure(k) = Figure(l)
        /\ Noted(k) = Noted(l) \cup {Weak(d) : d \in S}
        /\ InForce(k) = InForce(l) \cup {Weak(d) : d \in S}
    BY <2>6
  <2>8. SUFFICES /\ f[s] \in L /\ Figure(f[s]) = Figure(l)
                 /\ Noted(f[s]) = Noted(l) \cup {Weak(d) : d \in T}
                 /\ InForce(f[s]) = InForce(l) \cup {Weak(d) : d \in T}
    OBVIOUS
  <2> HIDE DEF i, h, k, S, T, New
  <2>9. k \in Books /\ l \in Books /\ S \subseteq Hints
    BY <2>5, <2>7 DEF Grown, NewHints, S
  <2>10. IsNew(h, m, k, resolved) <=> IsNew(h, m, l, resolved) /\ h \notin S
    <3>1. (\A x \in Noted(k) : x.concept # h) <=> (\A x \in Noted(l) : x.concept # h) /\ h \notin S
      BY <2>3, <2>7, <2>9
    <3> QED  BY <2>9, <3>1, NotSeenIs DEF IsNew
  <2>11. /\ f[s] \in L /\ Figure(f[s]) = Figure(k)
         /\ ~IsNew(h, m, k, resolved) => f[s] = k
         /\ IsNew(h, m, k, resolved) => /\ Noted(f[s]) = Noted(k) \cup {Weak(h)}
                                        /\ InForce(f[s]) = InForce(k) \cup {Weak(h)}
    BY <2>1, <2>2, <2>7, WeakInIs
  <2>12. CASE IsNew(h, m, k, resolved)
    <3>1. T = S \cup {h}
      BY <2>4, <2>10, <2>12 DEF S, T
    <3> QED  BY <2>7, <2>11, <2>12, <3>1
  <2>13. CASE ~IsNew(h, m, k, resolved)
    <3>1. T = S
      BY <2>4, <2>10, <2>13 DEF S, T
    <3> QED  BY <2>7, <2>11, <2>13, <3>1
  <2> QED  BY <2>12, <2>13
<1>8. 1..n \in G
  <2>1. IsFiniteSet(1..n)
    BY <1>0, FS_Interval
  <2> HIDE DEF G, n
  <2> QED  BY <1>6, <1>7, <2>1, SubsetsOf
<1>9. New(1..n) = NewHints(m, l, resolved)
  BY <1>0, HintsAssumption DEF NewHints
<1> QED  BY <1>5, <1>8, <1>9

(***************************************************************************)
(* A use that nobody meant.                                                *)
(***************************************************************************)
PassedOn(acc, e) == IF IsLoadInference(e) THEN acc ELSE Append(acc, e)

Rejected(l) ==
    FoldLeft(LAMBDA acc, e : IF IsLoadInference(e) THEN acc ELSE Append(acc, e), <<>>, l)

Filters(f, l) ==
    f = [s \in SUBSET (DOMAIN l) |-> IF s = {} THEN <<>> ELSE PassedOn(f[s \ {Max(s)}], l[Max(s)])]

\* Reading a ledger for inferred uses, event by event.
LEMMA RejectedFolds ==
    ASSUME NEW l, NEW g, Filters(g, l)
    PROVE  \E f : Rejected(l) = f[DOMAIN l] /\ Filters(f, l)
<1>1. PICK f : Rejected(l) = f[DOMAIN l] /\ f = CHOOSE h : Filters(h, l)
  BY DEF Rejected, FoldLeft, MapThenFoldSet, Filters, PassedOn
<1>2. Filters(CHOOSE h : Filters(h, l), l)
  OBVIOUS
<1> QED  BY <1>1, <1>2

\* What is kept of the first n events.
KeptOf(h, l) ==
    /\ h \in [0..Len(l) -> Books]
    /\ h[0] = <<>>
    /\ \A n \in 0..Len(l) : n < Len(l) => h[n + 1] = PassedOn(h[n], l[n + 1])

\* The same, from the first event on.
LEMMA RejectedSteps ==
    ASSUME NEW l \in Books
    PROVE  \E h : KeptOf(h, l) /\ Rejected(l) = h[Len(l)]
<1> DEFINE n == Len(l)
           step == [i \in 1..n |-> [k \in Books |-> PassedOn(k, l[i])]]
<1>1. n \in Nat /\ DOMAIN l = 1..n /\ \A i \in 1..n : l[i] \in PreferenceEvent
  BY DEF Books
<1>2. <<>> \in Books
  BY DEF Books
<1>3. step \in [1..n -> [Books -> Books]]
  BY <1>1 DEF PassedOn, Books
<1>4. PICK g \in SeqFolds(n, Books, <<>>, step) : TRUE
  <2> HIDE DEF step, n
  <2> QED  BY <1>1, <1>2, <1>3, SeqFoldExists
<1>5. ASSUME NEW s \in SUBSET (1..n)
      PROVE  /\ s # {} => Max(s) \in s
             /\ g[s] = IF s = {} THEN <<>> ELSE PassedOn(g[s \ {Max(s)}], l[Max(s)])
  <2>1. s # {} => Max(s) \in s
    BY <1>1, MaxIsPicked
  <2>2. /\ g[s] = IF s = {} THEN <<>> ELSE step[Max(s)][g[s \ {Max(s)}]]
        /\ g[s \ {Max(s)}] \in Books
    BY <1>4 DEF SeqFolds
  <2> HIDE DEF n
  <2> QED  BY <2>1, <2>2
<1>6. Filters(g, l)
  BY <1>1, <1>4, <1>5 DEF SeqFolds, Filters
<1>7. PICK f : Rejected(l) = f[1..n] /\ Filters(f, l)
  BY <1>1, <1>6, RejectedFolds
<1>8. ASSUME NEW i \in 0..n, i < n PROVE f[1..(i + 1)] = PassedOn(f[1..i], l[i + 1])
  <2>1. 1..(i + 1) \in SUBSET (1..n) /\ 1..(i + 1) # {}
    <3>1. i \in Nat /\ i + 1 <= n
      BY <1>1, <1>8
    <3>2. \A j \in 1..(i + 1) : j \in 1..n
      BY <1>1, <3>1
    <3>3. 1 \in 1..(i + 1)
      BY <3>1
    <3> HIDE DEF n
    <3> QED  BY <3>2, <3>3
  <2>2. Max(1..(i + 1)) \in 1..(i + 1) /\ \A j \in 1..(i + 1) : Max(1..(i + 1)) >= j
    BY <1>1, <2>1, MaxIsPicked
  <2>3. Max(1..(i + 1)) = i + 1
    BY <2>2
  <2>4. (1..(i + 1)) \ {i + 1} = 1..i
    OBVIOUS
  <2> QED  BY <1>1, <1>7, <2>1, <2>3, <2>4 DEF Filters
<1>9. f[1..0] = <<>>
  <2>1. 1..0 = {}
    OBVIOUS
  <2> QED  BY <1>1, <1>7, <2>1 DEF Filters
<1> DEFINE G == {i \in Nat : i <= n => f[1..i] \in Books}
<1>10. 0 \in G
  BY <1>2, <1>9
<1>11. ASSUME NEW i \in Nat, i \in G PROVE i + 1 \in G
  <2> SUFFICES ASSUME i + 1 <= n PROVE f[1..(i + 1)] \in Books
    OBVIOUS
  <2>1. f[1..i] \in Books /\ f[1..(i + 1)] = PassedOn(f[1..i], l[i + 1]) /\ l[i + 1] \in PreferenceEvent
    BY <1>1, <1>8, <1>11
  <2> QED  BY <2>1, AppendNotes DEF PassedOn
<1>12. \A i \in Nat : i \in G
  <2> HIDE DEF G
  <2> QED  BY <1>10, <1>11, NatsOf
<1> DEFINE h == [i \in 0..n |-> f[1..i]]
<1>13. KeptOf(h, l)
  <2>1. h \in [0..n -> Books]
    BY <1>1, <1>12
  <2>2. h[0] = <<>>
    BY <1>1, <1>9
  <2>3. \A i \in 0..n : i < n => h[i + 1] = PassedOn(h[i], l[i + 1])
    BY <1>1, <1>8
  <2> HIDE DEF h
  <2> QED  BY <2>1, <2>2, <2>3 DEF KeptOf
<1>14. Rejected(l) = h[n]
  BY <1>1, <1>7
<1> HIDE DEF h
<1> QED  BY <1>13, <1>14

\* The last event of the concepts that was put in force, or Nothing.
LastOf(l, C) == IF LastActive(l, C) = 0 THEN Nothing ELSE l[LastActive(l, C)]

\* The price, and that the last word counts, in terms of last events.
LEMMA LastOfIs ==
    ASSUME NEW l \in Books
    PROVE  /\ Figure(l) = IF LastActive(l, Budgets) = 0 THEN Nothing ELSE LastOf(l, Budgets).value
           /\ \A C : LastActive(l, C) = 0 <=> \A x \in Noted(l) : x.concept \notin C
           /\ \A C : LastActive(l, C) # 0 => LastOf(l, C) \in Noted(l) /\ LastOf(l, C).concept \in C
           /\ Settled(l) <=> \A c \in Concepts :
                 LastActive(l, {c}) # 0 /\ LastOf(l, {c}).turn = Now => LastOf(l, {c}) \in InForce(l)
BY LastActiveIs DEF Figure, LastOf, Settled

\* How an entry changes the last event of some concepts.
LEMMA LastOfAppends ==
    ASSUME NEW l \in Books, NEW e \in PreferenceEvent, NEW C
    PROVE  LastOf(Append(l, e), C) = IF e.status = "ACTIVE" /\ e.concept \in C THEN e ELSE LastOf(l, C)
<1>1. Len(l) \in Nat
  BY DEF Books
<1>2. /\ e.status = "ACTIVE" /\ e.concept \in C =>
            LastActive(Append(l, e), C) = Len(l) + 1 /\ Append(l, e)[Len(l) + 1] = e
      /\ ~(e.status = "ACTIVE" /\ e.concept \in C) => LastActive(Append(l, e), C) = LastActive(l, C)
      /\ LastActive(l, C) # 0 => Append(l, e)[LastActive(l, C)] = l[LastActive(l, C)]
  BY LastActiveAppends
<1> DEFINE k == Append(l, e)
<1> HIDE DEF k
<1>3. CASE e.status = "ACTIVE" /\ e.concept \in C
  BY <1>1, <1>2, <1>3 DEF LastOf
<1>4. CASE ~(e.status = "ACTIVE" /\ e.concept \in C)
  BY <1>2, <1>4 DEF LastOf
<1> QED  BY <1>3, <1>4

\* A prefix and the next event make the next prefix.
LEMMA PrefixAppends ==
    ASSUME NEW l \in Books, NEW n \in 0..Len(l), n < Len(l)
    PROVE  /\ SubSeq(l, 1, n) \in Books /\ l[n + 1] \in PreferenceEvent
           /\ SubSeq(l, 1, n + 1) = Append(SubSeq(l, 1, n), l[n + 1])
BY DEF Books

IsUse(x) == x.concept = "primaryUsage"
Inferred(l) == {x \in Noted(l) : IsLoadInference(x)}

\* One event of l more: p is what of l was read, h what was kept of it.
LEMMA KeepingIs ==
    ASSUME NEW h \in Books, NEW p \in Books, NEW e \in PreferenceEvent
    PROVE  LET k == PassedOn(h, e)
               q == Append(p, e)
           IN  /\ k \in Books
               /\ Noted(h) = Noted(p) \ Inferred(p) => Noted(k) = Noted(q) \ Inferred(q)
               /\ \A C : "primaryUsage" \notin C /\ LastOf(h, C) = LastOf(p, C) => LastOf(k, C) = LastOf(q, C)
               /\ (\A x : ~IsUse(x) => (x \in InForce(h) <=> x \in InForce(p))) =>
                     \A x : ~IsUse(x) => (x \in InForce(k) <=> x \in InForce(q))
               /\ (IsLoadInference(e) => e.status = "SUPERSEDED") =>
                     /\ InForce(h) = InForce(p) => InForce(k) = InForce(q)
                     /\ \A C : LastOf(h, C) = LastOf(p, C) => LastOf(k, C) = LastOf(q, C)
               /\ (IsUse(e) /\ ~IsLoadInference(e) => e.status = "SUPERSEDED") =>
                     \A x : IsUse(x) => (x \in InForce(k) <=> x \in InForce(h))
<1> DEFINE k == PassedOn(h, e)
           q == Append(p, e)
<1> USE DEF PreferenceEvent, EventRecord
<1>1. /\ q \in Books
      /\ e.status = "ACTIVE" => Noted(q) = Noted(p) \cup {e}
      /\ e.status # "ACTIVE" => Noted(q) = Noted(p)
      /\ e.status = "SUPERSEDED" => InForce(q) = InForce(p)
      /\ e.status \in {"CLEARED", "REJECTED"} => InForce(q) = {x \in InForce(p) : ~SameKey(e, x)}
      /\ e.status = "ACTIVE" => InForce(q) = {x \in InForce(p) : ~SameKey(e, x)} \cup {e}
      /\ \A C : LastOf(q, C) = IF e.status = "ACTIVE" /\ e.concept \in C THEN e ELSE LastOf(p, C)
  BY AppendNotes, AppendForce, LastOfAppends
<1>2. ~IsLoadInference(e) =>
      /\ k = Append(h, e) /\ k \in Books
      /\ e.status = "ACTIVE" => Noted(k) = Noted(h) \cup {e}
      /\ e.status # "ACTIVE" => Noted(k) = Noted(h)
      /\ e.status = "SUPERSEDED" => InForce(k) = InForce(h)
      /\ e.status \in {"CLEARED", "REJECTED"} => InForce(k) = {x \in InForce(h) : ~SameKey(e, x)}
      /\ e.status = "ACTIVE" => InForce(k) = {x \in InForce(h) : ~SameKey(e, x)} \cup {e}
      /\ \A C : LastOf(k, C) = IF e.status = "ACTIVE" /\ e.concept \in C THEN e ELSE LastOf(h, C)
  BY AppendNotes, AppendForce, LastOfAppends DEF PassedOn
<1>3. IsLoadInference(e) => k = h /\ IsUse(e)
  BY DEF PassedOn, IsLoadInference, IsUse
<1>4. e.status \in {"ACTIVE", "SUPERSEDED", "CLEARED", "REJECTED"}
  OBVIOUS
<1>5. \A x : SameKey(e, x) => (IsUse(e) <=> IsUse(x))
  BY DEF SameKey, IsUse
<1> SUFFICES
       /\ k \in Books
       /\ Noted(h) = Noted(p) \ Inferred(p) => Noted(k) = Noted(q) \ Inferred(q)
       /\ \A C : "primaryUsage" \notin C /\ LastOf(h, C) = LastOf(p, C) => LastOf(k, C) = LastOf(q, C)
       /\ (\A x : ~IsUse(x) => (x \in InForce(h) <=> x \in InForce(p))) =>
             \A x : ~IsUse(x) => (x \in InForce(k) <=> x \in InForce(q))
       /\ (IsLoadInference(e) => e.status = "SUPERSEDED") =>
             /\ InForce(h) = InForce(p) => InForce(k) = InForce(q)
             /\ \A C : LastOf(h, C) = LastOf(p, C) => LastOf(k, C) = LastOf(q, C)
       /\ (IsUse(e) /\ ~IsLoadInference(e) => e.status = "SUPERSEDED") =>
             \A x : IsUse(x) => (x \in InForce(k) <=> x \in InForce(h))
  OBVIOUS
<1> HIDE DEF k, q, PreferenceEvent, EventRecord
<1>6. k \in Books
  BY <1>2, <1>3
<1>7. ASSUME Noted(h) = Noted(p) \ Inferred(p) PROVE Noted(k) = Noted(q) \ Inferred(q)
  BY <1>1, <1>2, <1>3, <1>4, <1>7 DEF Inferred
<1>8. ASSUME NEW C, "primaryUsage" \notin C, LastOf(h, C) = LastOf(p, C) PROVE LastOf(k, C) = LastOf(q, C)
  BY <1>1, <1>2, <1>3, <1>8 DEF IsUse
<1>9. ASSUME \A x : ~IsUse(x) => (x \in InForce(h) <=> x \in InForce(p)), NEW x, ~IsUse(x)
      PROVE  x \in InForce(k) <=> x \in InForce(q)
  <2>1. CASE IsLoadInference(e)
    <3>1. x # e /\ ~SameKey(e, x)
      BY <1>3, <1>5, <1>9, <2>1
    <3> QED  BY <1>1, <1>3, <1>4, <1>9, <2>1, <3>1
  <2>2. CASE ~IsLoadInference(e)
    BY <1>1, <1>2, <1>4, <1>9, <2>2
  <2> QED  BY <2>1, <2>2
<1>10. ASSUME IsLoadInference(e) => e.status = "SUPERSEDED"
       PROVE  /\ InForce(h) = InForce(p) => InForce(k) = InForce(q)
              /\ \A C : LastOf(h, C) = LastOf(p, C) => LastOf(k, C) = LastOf(q, C)
  BY <1>1, <1>2, <1>3, <1>4, <1>10
<1>11. ASSUME IsUse(e) /\ ~IsLoadInference(e) => e.status = "SUPERSEDED", NEW x, IsUse(x)
       PROVE  x \in InForce(k) <=> x \in InForce(h)
  <2>1. CASE IsLoadInference(e) \/ IsUse(e)
    BY <1>2, <1>3, <1>11, <2>1
  <2>2. CASE ~IsLoadInference(e) /\ ~IsUse(e)
    <3>1. x # e /\ ~SameKey(e, x)
      BY <1>5, <1>11, <2>2
    <3> QED  BY <1>2, <1>4, <2>2, <3>1
  <2> QED  BY <2>1, <2>2
<1> QED  BY <1>6, <1>7, <1>8, <1>9, <1>10, <1>11

\* The events of earlier turns.
Past == \A i \in 1..Len(ledger) : ledger[i].turn # Now

\* The ledger that a turn finds is a turn's ledger without events of its own.
LEMMA LedgerIsGrown == ASSUME ledger \in Books PROVE ledger \in Grown
BY DEF Grown, Books

\* A turn's ledger starts with what the turn found.
LEMMA GrownPrefix ==
    ASSUME ledger \in Books, NEW l \in Grown
    PROVE  SubSeq(l, 1, Len(ledger)) = ledger /\ Len(ledger) \in 0..Len(l)
<1>1. Len(ledger) \in 0..Len(l) /\ Len(l) \in Nat /\ \A i \in 1..Len(ledger) : l[i] = ledger[i]
  BY DEF Grown, Books
<1>2. ledger = [i \in 1..Len(ledger) |-> ledger[i]]
  BY DEF Books
<1>3. SubSeq(l, 1, Len(ledger)) = [i \in 1..Len(ledger) |-> l[i]]
  BY <1>1 DEF Grown, Books
<1>4. [i \in 1..Len(ledger) |-> l[i]] = [i \in 1..Len(ledger) |-> ledger[i]]
  BY <1>1
<1> QED  BY <1>1, <1>2, <1>3, <1>4

\* A use inferred in this turn gives way to the use before it.
LEMMA RejectedIs ==
    ASSUME ledger \in Books, revision \in Nat, Past, NEW l \in Grown, Settled(l),
           \A x, y \in Noted(l) : IsUse(x) /\ IsUse(y) /\ x.turn = Now /\ y.turn = Now => x = y
    PROVE  LET k == Rejected(l)
           IN  /\ k \in Grown /\ Settled(k) /\ Figure(k) = Figure(l)
               /\ Noted(k) = Noted(l) \ Inferred(l)
               /\ Inferred(l) = {} => InForce(k) = InForce(l)
               /\ Inferred(l) # {} =>
                     \A x : x \in InForce(k) <=> IF IsUse(x) THEN x \in InForce(ledger) ELSE x \in InForce(l)
<1>1. PICK h : KeptOf(h, l) /\ Rejected(l) = h[Len(l)]
  BY RejectedSteps DEF Grown
<1>2. /\ l \in Books /\ Len(l) \in Nat /\ Len(ledger) \in Nat /\ Len(ledger) <= Len(l)
      /\ \A i \in 1..Len(ledger) : l[i] = ledger[i] /\ l[i].turn # Now
      /\ \A i \in 1..Len(l) : i > Len(ledger) => IsOwn(l[i])
      /\ DOMAIN l = 1..Len(l) /\ \A i \in 1..Len(l) : l[i] \in PreferenceEvent
  BY DEF Grown, Books, Past
<1>3. ASSUME NEW i \in 1..Len(l), IsLoadInference(l[i]) \/ (IsUse(l[i]) /\ i > Len(ledger))
      PROVE  /\ i > Len(ledger) /\ IsUse(l[i]) /\ l[i].turn = Now
             /\ l[i].status \in {"ACTIVE", "SUPERSEDED"}
             /\ l[i].status = "ACTIVE" => l[i] \in Noted(l)
  <2>1. i > Len(ledger) /\ IsUse(l[i])
    BY <1>2, <1>3 DEF IsLoadInference, IsUse, Now
  <2>2. IsOwn(l[i])
    BY <1>2, <2>1
  <2> QED  BY <1>2, <2>1, <2>2 DEF IsOwn, IsUse, Now, Noted
<1>4. ASSUME Inferred(l) = {}, NEW i \in 1..Len(l), IsLoadInference(l[i]) PROVE l[i].status = "SUPERSEDED"
  BY <1>3, <1>4 DEF Inferred
<1>5. ASSUME Inferred(l) # {}, NEW i \in 1..Len(l), i > Len(ledger), IsUse(l[i]), ~IsLoadInference(l[i])
      PROVE  l[i].status = "SUPERSEDED"
  <2>1. PICK y \in Noted(l) : IsLoadInference(y)
    BY <1>5 DEF Inferred
  <2>2. IsUse(y) /\ y.turn = Now
    BY <2>1 DEF IsLoadInference, IsUse, Now
  <2> QED  BY <1>3, <1>5, <2>1, <2>2
<1> DEFINE p(n) == SubSeq(l, 1, n)
           Same(k, q) ==
              /\ Noted(k) = Noted(q) \ Inferred(q)
              /\ \A C : "primaryUsage" \notin C => LastOf(k, C) = LastOf(q, C)
              /\ \A x : ~IsUse(x) => (x \in InForce(k) <=> x \in InForce(q))
              /\ Inferred(l) = {} => InForce(k) = InForce(q) /\ \A C : LastOf(k, C) = LastOf(q, C)
           Before(k) ==
              /\ k \in Grown
              /\ Inferred(l) # {} => \A x : IsUse(x) => (x \in InForce(k) <=> x \in InForce(ledger))
           G == {n \in Nat : n <= Len(l) =>
                    /\ Same(h[n], p(n))
                    /\ n <= Len(ledger) => h[n] = p(n)
                    /\ n >= Len(ledger) => Before(h[n])}
<1>6. \A n \in 0..Len(l) : h[n] \in Books /\ (n < Len(l) => h[n + 1] = PassedOn(h[n], l[n + 1])) /\ h[0] = <<>>
  BY <1>1 DEF KeptOf
<1>7. ledger \in Grown /\ p(Len(ledger)) = ledger
  BY LedgerIsGrown, GrownPrefix
<1>8. 0 \in G
  <2>1. p(0) = <<>> /\ h[0] = <<>> /\ <<>> \in Books
    BY <1>2, <1>6 DEF Books
  <2>2. Noted(<<>>) = {} /\ Inferred(<<>>) = {}
    BY DEF Noted, Inferred
  <2>3. Len(ledger) <= 0 => h[0] = ledger
    BY <1>2, <1>7, <2>1
  <2>4. Same(h[0], p(0))
    BY <2>1, <2>2
  <2>5. 0 >= Len(ledger) => Before(h[0])
    BY <1>2, <1>7, <2>3
  <2> HIDE DEF Same, Before, p
  <2> QED  BY <2>1, <2>4, <2>5
<1>9. ASSUME NEW n \in Nat, n \in G PROVE n + 1 \in G
  <2> SUFFICES ASSUME n + 1 <= Len(l)
               PROVE  /\ Same(h[n + 1], p(n + 1))
                      /\ n + 1 <= Len(ledger) => h[n + 1] = p(n + 1)
                      /\ n + 1 >= Len(ledger) => Before(h[n + 1])
    OBVIOUS
  <2> DEFINE e == l[n + 1]
  <2>1. /\ n \in 0..Len(l) /\ n < Len(l) /\ n + 1 \in 1..Len(l)
        /\ h[n] \in Books /\ h[n + 1] = PassedOn(h[n], e) /\ e \in PreferenceEvent
    BY <1>2, <1>6
  <2>2. p(n) \in Books /\ p(n + 1) = Append(p(n), e)
    BY <1>2, <2>1, PrefixAppends
  <2> HIDE DEF p
  <2>3. /\ Same(h[n], p(n))
        /\ n <= Len(ledger) => h[n] = p(n)
        /\ n >= Len(ledger) => Before(h[n])
    BY <1>9, <2>1
  <2> HIDE DEF e
  <2> DEFINE a == h[n]
             b == p(n)
             k == PassedOn(a, e)
             q == Append(b, e)
  <2>0. k = h[n + 1] /\ q = p(n + 1) /\ a \in Books /\ b \in Books
    BY <2>1, <2>2
  <2> HIDE DEF a, b
  <2>4. /\ k \in Books
        /\ Noted(a) = Noted(b) \ Inferred(b) => Noted(k) = Noted(q) \ Inferred(q)
        /\ \A C : "primaryUsage" \notin C /\ LastOf(a, C) = LastOf(b, C) => LastOf(k, C) = LastOf(q, C)
        /\ (\A x : ~IsUse(x) => (x \in InForce(a) <=> x \in InForce(b))) =>
              \A x : ~IsUse(x) => (x \in InForce(k) <=> x \in InForce(q))
        /\ (IsLoadInference(e) => e.status = "SUPERSEDED") =>
              /\ InForce(a) = InForce(b) => InForce(k) = InForce(q)
              /\ \A C : LastOf(a, C) = LastOf(b, C) => LastOf(k, C) = LastOf(q, C)
        /\ (IsUse(e) /\ ~IsLoadInference(e) => e.status = "SUPERSEDED") =>
              \A x : IsUse(x) => (x \in InForce(k) <=> x \in InForce(a))
    BY <2>0, <2>1, KeepingIs
  <2> HIDE DEF k, q
  <2>5. Same(k, q)
    <3>1. Inferred(l) = {} => (IsLoadInference(e) => e.status = "SUPERSEDED")
      BY <1>4, <2>1 DEF e
    <3> QED  BY <2>3, <2>4, <3>1 DEF a, b
  <2>6. ASSUME n + 1 <= Len(ledger) PROVE k = q
    <3>1. ~IsLoadInference(e)
      BY <1>2, <1>3, <2>1, <2>6 DEF e
    <3>2. k = Append(a, e)
      BY <3>1 DEF PassedOn, k
    <3>3. a = b
      BY <1>2, <2>3, <2>6 DEF a, b
    <3> QED  BY <3>2, <3>3 DEF q
  <2>7. ASSUME n + 1 >= Len(ledger) PROVE Before(k)
    <3>1. CASE n + 1 = Len(ledger)
      <4>1. k = ledger
        BY <1>7, <2>0, <2>6, <3>1 DEF p
      <4> QED  BY <1>7, <4>1
    <3>2. CASE n + 1 # Len(ledger)
      <4>1. n >= Len(ledger) /\ n + 1 > Len(ledger) /\ Before(a)
        BY <1>2, <2>3, <2>7, <3>2 DEF a
      <4>2. IsOwn(e)
        BY <1>2, <2>1, <4>1 DEF e
      <4>3. k \in Grown
        BY <4>1, <4>2, AppendGrows DEF PassedOn, k
      <4>4. Inferred(l) # {} => (IsUse(e) /\ ~IsLoadInference(e) => e.status = "SUPERSEDED")
        BY <1>5, <2>1, <4>1 DEF e
      <4> QED  BY <2>4, <4>1, <4>3, <4>4
    <3> QED  BY <3>1, <3>2
  <2> QED  BY <2>0, <2>5, <2>6, <2>7
<1>10. \A n \in Nat : n \in G
  <2> HIDE DEF G
  <2> QED  BY <1>8, <1>9, NatsOf
<1> DEFINE k == Rejected(l)
<1>11. Same(k, l) /\ Before(k)
  <2>1. p(Len(l)) = l
    BY <1>2 DEF Books
  <2>2. Same(h[Len(l)], p(Len(l))) /\ Before(h[Len(l)])
    BY <1>2, <1>10
  <2> HIDE DEF Same, Before, p
  <2> QED  BY <1>1, <2>1, <2>2
<1> HIDE DEF k
<1>12. k \in Books
  BY <1>11 DEF Grown
<1>13. Figure(k) = Figure(l)
  <2>1. "primaryUsage" \notin Budgets
    BY DEF Budgets
  <2>2. LastOf(k, Budgets) = LastOf(l, Budgets)
    BY <1>11, <2>1
  <2>3. LastActive(k, Budgets) = 0 <=> LastActive(l, Budgets) = 0
    <3>1. \A x : x.concept \in Budgets /\ IsLoadInference(x) => FALSE
      BY <2>1 DEF IsLoadInference
    <3>2. (\A x \in Noted(k) : x.concept \notin Budgets) <=> (\A x \in Noted(l) : x.concept \notin Budgets)
      BY <1>11, <3>1 DEF Inferred
    <3> QED  BY <1>2, <1>12, <3>2, LastOfIs
  <2> QED  BY <1>2, <1>12, <2>2, <2>3, LastOfIs
<1>14. Settled(k)
  <2> SUFFICES ASSUME NEW c \in Concepts, LastActive(k, {c}) # 0, LastOf(k, {c}).turn = Now
               PROVE  LastOf(k, {c}) \in InForce(k)
    BY <1>12, LastOfIs
  <2>1. /\ LastOf(k, {c}) \in Noted(k) /\ LastOf(k, {c}).concept = c
        /\ LastOf(k, {c}) \in Noted(l)
    BY <1>11, <1>12, LastOfIs
  <2>2. LastActive(l, {c}) # 0
    BY <1>2, <2>1, LastOfIs
  <2>3. LastOf(l, {c}).turn = Now => LastOf(l, {c}) \in InForce(l)
    BY <1>2, <2>2, LastOfIs
  <2>4. CASE c # "primaryUsage"
    <3>1. LastOf(k, {c}) = LastOf(l, {c})
      BY <1>11, <2>4
    <3>2. ~IsUse(LastOf(k, {c}))
      BY <2>1, <2>4 DEF IsUse
    <3> QED  BY <1>11, <2>3, <3>1, <3>2
  <2>5. CASE c = "primaryUsage" /\ Inferred(l) = {}
    <3>1. LastOf(k, {c}) = LastOf(l, {c}) /\ InForce(k) = InForce(l)
      BY <1>11, <2>5
    <3> QED  BY <2>3, <3>1
  <2>6. CASE c = "primaryUsage" /\ Inferred(l) # {}
    <3>1. PICK y \in Noted(l) : IsLoadInference(y)
      BY <2>6 DEF Inferred
    <3>2. IsUse(y) /\ y.turn = Now /\ IsUse(LastOf(k, {c}))
      BY <2>1, <2>6, <3>1 DEF IsLoadInference, IsUse, Now
    <3>3. y = LastOf(k, {c})
      BY <2>1, <3>2
    <3> QED  BY <1>11, <2>1, <3>1, <3>3 DEF Inferred
  <2> QED  BY <2>4, <2>5, <2>6
<1>15. \A x : Inferred(l) # {} =>
          (x \in InForce(k) <=> IF IsUse(x) THEN x \in InForce(ledger) ELSE x \in InForce(l))
  BY <1>11
<1> QED  BY <1>11, <1>13, <1>14, <1>15 DEF k

(***************************************************************************)
(* What a turn collects besides the wording of its message.                *)
(***************************************************************************)
Own(l) == {x \in Noted(l) : x.turn = Now}
OwnUses(l) == {x \in Own(l) : IsUse(x)}
Rejects(m) == m.disowns /\ ~MeantLoads

\* A turn that names no use leaves the use in force.
LEMMA UsesRemain ==
    ASSUME ledger \in Books, NEW l \in Grown, OwnUses(l) = {}, NEW x, IsUse(x)
    PROVE  x \in InForce(l) <=> x \in InForce(ledger)
<1>1. /\ Len(l) \in Nat /\ Len(ledger) \in Nat /\ Len(ledger) <= Len(l)
      /\ DOMAIN l = 1..Len(l) /\ DOMAIN ledger = 1..Len(ledger)
      /\ \A i \in 1..Len(ledger) : l[i] = ledger[i]
      /\ \A i \in 1..Len(l) : i > Len(ledger) => IsOwn(l[i])
  BY DEF Grown, Books
<1>2. ASSUME NEW i \in 1..Len(l), i > Len(ledger), IsUse(l[i]) PROVE l[i].status = "SUPERSEDED"
  <2>1. IsOwn(l[i]) /\ l[i].status \in {"ACTIVE", "SUPERSEDED"} /\ l[i].turn = Now
    BY <1>1, <1>2 DEF IsOwn, IsUse, Now
  <2>2. l[i].status = "ACTIVE" => l[i] \in OwnUses(l)
    BY <1>1, <1>2, <2>1 DEF OwnUses, Own, Noted
  <2> QED  BY <2>1, <2>2
<1>3. ASSUME x \in InForce(l) PROVE x \in InForce(ledger)
  <2>1. PICK i \in Terminal(l) : x = l[i]
    BY <1>3 DEF InForce
  <2>2. i \in 1..Len(ledger)
    BY <1>1, <1>2, <2>1 DEF Terminal
  <2>3. i \in Terminal(ledger)
    BY <1>1, <2>1, <2>2 DEF Terminal
  <2> QED  BY <1>1, <2>1, <2>2, <2>3 DEF InForce
<1>4. ASSUME x \in InForce(ledger) PROVE x \in InForce(l)
  <2>1. PICK i \in Terminal(ledger) : x = ledger[i]
    BY <1>4 DEF InForce
  <2>2. i \in 1..Len(ledger) /\ i \in 1..Len(l) /\ l[i] = ledger[i] /\ l[i].status = "ACTIVE"
    BY <1>1, <2>1 DEF Terminal
  <2>3. ASSUME NEW j \in (i + 1)..Len(l), SameKey(l[j], l[i]) PROVE l[j].status = "SUPERSEDED"
    <3>1. CASE j \in 1..Len(ledger)
      BY <1>1, <2>1, <2>2, <2>3, <3>1 DEF Terminal
    <3>2. CASE j \notin 1..Len(ledger)
      <4>1. j \in 1..Len(l) /\ j > Len(ledger)
        BY <1>1, <2>2, <3>2
      <4>2. IsUse(l[j])
        BY <2>1, <2>2, <2>3 DEF SameKey, IsUse
      <4> QED  BY <1>2, <4>1, <4>2
    <3> QED  BY <3>1, <3>2
  <2>4. i \in Terminal(l)
    BY <1>1, <2>2, <2>3 DEF Terminal
  <2> QED  BY <2>1, <2>2, <2>4 DEF InForce
<1> QED  BY <1>3, <1>4

\* What of a turn's events a rejection removes.
Taken(m, l) == IF Rejects(m) THEN Inferred(l) ELSE {}

\* A rejected use is gone and the use before it is back in force; nothing else changes.
LEMMA RejectionIs ==
    ASSUME ledger \in Books, revision \in Nat, Past, NEW m, NEW l \in Grown, Settled(l),
           OwnUses(l) \subseteq InForce(l), \A x, y \in OwnUses(l) : x = y
    PROVE  LET k == WithoutRejectedLoadInference(l, m)
           IN  /\ k \in Grown /\ Settled(k) /\ OwnUses(k) \subseteq InForce(k) /\ Figure(k) = Figure(l)
               /\ Noted(k) = Noted(l) \ Taken(m, l)
               /\ Taken(m, l) = {} => InForce(k) = InForce(l)
               /\ Taken(m, l) # {} =>
                     \A x : x \in InForce(k) <=> IF IsUse(x) THEN x \in InForce(ledger) ELSE x \in InForce(l)
<1> DEFINE k == WithoutRejectedLoadInference(l, m)
<1>1. k = IF Rejects(m) THEN Rejected(l) ELSE l
  BY DEF WithoutRejectedLoadInference, Rejects, Rejected
<1> SUFFICES /\ k \in Grown /\ Settled(k) /\ OwnUses(k) \subseteq InForce(k) /\ Figure(k) = Figure(l)
             /\ Noted(k) = Noted(l) \ Taken(m, l)
             /\ Taken(m, l) = {} => InForce(k) = InForce(l)
             /\ Taken(m, l) # {} =>
                   \A x : x \in InForce(k) <=> IF IsUse(x) THEN x \in InForce(ledger) ELSE x \in InForce(l)
  OBVIOUS
<1> HIDE DEF k
<1>2. CASE ~Rejects(m)
  BY <1>1, <1>2 DEF Taken
<1>3. CASE Rejects(m)
  <2>1. \A x, y \in Noted(l) : IsUse(x) /\ IsUse(y) /\ x.turn = Now /\ y.turn = Now => x = y
    BY DEF OwnUses, Own
  <2>2. /\ k \in Grown /\ Settled(k) /\ Figure(k) = Figure(l)
        /\ Noted(k) = Noted(l) \ Inferred(l)
        /\ Inferred(l) = {} => InForce(k) = InForce(l)
        /\ Inferred(l) # {} =>
              \A x : x \in InForce(k) <=> IF IsUse(x) THEN x \in InForce(ledger) ELSE x \in InForce(l)
    BY <1>1, <1>3, <2>1, RejectedIs
  <2>3. OwnUses(k) \subseteq InForce(k)
    <3> SUFFICES ASSUME NEW x \in OwnUses(k) PROVE x \in InForce(k)
      OBVIOUS
    <3>1. x \in OwnUses(l) /\ x \notin Inferred(l)
      BY <2>2 DEF OwnUses, Own
    <3>2. Inferred(l) \subseteq OwnUses(l)
      BY DEF Inferred, OwnUses, Own, IsLoadInference, IsUse, Now
    <3>3. Inferred(l) = {}
      BY <3>1, <3>2
    <3> QED  BY <2>2, <3>1, <3>3
  <2> QED  BY <1>3, <2>2, <2>3 DEF Taken
<1> QED  BY <1>2, <1>3

\* What the assumptions on messages say of the statements a turn makes.
LEMMA SayableCanBeStated ==
    ASSUME NEW m \in Messages
    PROVE  /\ \A w \in m.states \cup m.names : CanBeStated(w)
           /\ \A w \in m.names : w.concept # "primaryUsage"
           /\ m.usage # Nothing => CanBeStated(Wish("primaryUsage", m.usage, "HARD_FILTER"))
           /\ IsFiniteSet(m.states) /\ IsFiniteSet(m.names) /\ IsFiniteSet(m.wants) /\ IsFiniteSet(m.drops)
           /\ m.wants \subseteq Values
           /\ \A v, w \in m.states : v.concept = w.concept => v = w
           /\ \A v, w \in m.names : v.concept = w.concept => v = w
<1>1. \A w \in m.states \cup m.names : w \in Sayable
  BY DEF Sayable
<1>2. \A w \in Sayable : w.concept \in Concepts /\ w.value \in SaidValues
  BY DEF Concepts, SaidValues
<1>3. m.usage \in SaidValues /\ m.wants \subseteq SaidValues
  BY DEF SaidValues
<1>4. SaidValues \subseteq Values
  BY DEF Values
<1>5. /\ \A w \in m.states \cup m.names :
            /\ w = Wish(w.concept, w.value, w.use)
            /\ w.use \in {"HARD_FILTER", "SOFT_RANK"}
            /\ w.concept \notin Hints \cup Budgets \cup {"equipmentFeature"}
      /\ \A w \in m.states : w.concept = "primaryUsage" => w.use = "HARD_FILTER"
      /\ \A w \in m.names : w.concept # "primaryUsage"
  BY MessagesAssumption
<1>6. \A w \in m.states \cup m.names : CanBeStated(w)
  BY <1>1, <1>2, <1>4, <1>5 DEF CanBeStated
<1>7. CanBeStated(Wish("primaryUsage", m.usage, "HARD_FILTER"))
  <2>1. "primaryUsage" \in Concepts \ (Hints \cup Budgets \cup {"equipmentFeature"})
    BY HintsAreNotStated DEF Concepts, Budgets
  <2> QED  BY <1>3, <1>4, <2>1 DEF CanBeStated, Wish
<1> QED  BY <1>3, <1>4, <1>5, <1>6, <1>7, MessagesAssumption

Use(v) == Wish("primaryUsage", v, "HARD_FILTER")

\* The turn names no use that it does not take back.
NoUseHeard(m, l) == OwnUses(l) \ Taken(m, l) = {}

\* The use that a turn takes from what it recognises.
TakesUsage(m, l) ==
    /\ m.usage # Nothing /\ NoUseHeard(m, l)
    /\ ~(Rejects(m) /\ m.usage = "COMMERCIAL")

UseBefore(m, l, x) == IF Taken(m, l) # {} THEN x \in InForce(ledger) ELSE x \in InForce(l)

\* What collectDeterministicEvents() adds and takes, use and other concepts apart.
LEMMA CollectedIs ==
    ASSUME ledger \in Books, revision \in Nat, Past, NEW m \in Messages, NEW l \in Grown, Settled(l),
           OwnUses(l) \subseteq InForce(l), \A x, y \in OwnUses(l) : x = y
    PROVE  LET k == Collected(l, m)
               N == News(l, m.names)
           IN  /\ k \in Grown /\ Figure(k) = Figure(l)
               /\ \A x : ~IsUse(x) => (x \in Noted(k) <=> x \in Noted(l) \/ \E w \in N : x = Stated(w))
               /\ \A x : ~IsUse(x) =>
                     (x \in InForce(k) <=> \/ x \in InForce(l) /\ \A w \in N : w.concept # x.concept
                                           \/ \E w \in N : x = Stated(w))
               /\ \A x : IsUse(x) =>
                     (x \in InForce(k) <=> IF TakesUsage(m, l) THEN x = Stated(Use(m.usage))
                                                               ELSE UseBefore(m, l, x))
<1> DEFINE k1 == WithoutRejectedLoadInference(l, m)
           k2 == StateAll(k1, m.names)
           k3 == ApplySemanticPreferenceSignals(k2, m)
           k4 == WithoutRejectedLoadInference(k3, m)
           N == News(l, m.names)
           u == Stated(Use(m.usage))
<1>1. Collected(l, m) = k4
  BY DEF Collected, ApplyCatalogEntitySignals
<1>2. /\ k1 \in Grown /\ Settled(k1) /\ OwnUses(k1) \subseteq InForce(k1) /\ Figure(k1) = Figure(l)
      /\ Noted(k1) = Noted(l) \ Taken(m, l)
      /\ Taken(m, l) = {} => InForce(k1) = InForce(l)
      /\ Taken(m, l) # {} =>
            \A x : x \in InForce(k1) <=> IF IsUse(x) THEN x \in InForce(ledger) ELSE x \in InForce(l)
  BY RejectionIs
<1> HIDE DEF k1
<1>3. \A x \in Taken(m, l) : IsUse(x) /\ x.turn = Now
  BY DEF Taken, Inferred, IsLoadInference, IsUse, Now
<1>4. OwnUses(k1) = OwnUses(l) \ Taken(m, l)
  BY <1>2 DEF OwnUses, Own
<1>5. \A x : /\ ~IsUse(x) => (x \in Noted(k1) <=> x \in Noted(l)) /\ (x \in InForce(k1) <=> x \in InForce(l))
             /\ IsUse(x) => (x \in InForce(k1) <=> UseBefore(m, l, x))
  BY <1>2, <1>3 DEF UseBefore
<1>6. /\ \A w \in m.names : /\ CanBeStated(w) /\ w.concept # "primaryUsage"
                            /\ Stated(w).concept = w.concept /\ ~IsUse(Stated(w))
      /\ IsFiniteSet(m.names) /\ \A v, w \in m.names : v.concept = w.concept => v = w
  BY SayableCanBeStated, StatedIsOwn DEF IsUse
<1>7. News(k1, m.names) = N
  <2>1. \A w \in m.names : Repeats(k1, Stated(w)) <=> Repeats(l, Stated(w))
    BY <1>5, <1>6 DEF Repeats, IsUse
  <2> QED  BY <2>1 DEF News
<1>8. /\ k2 \in Grown /\ Settled(k2) /\ Figure(k2) = Figure(k1)
      /\ Noted(k2) = Noted(k1) \cup {Stated(w) : w \in N}
      /\ InForce(k2) = {x \in InForce(k1) : \A w \in N : w.concept # x.concept} \cup {Stated(w) : w \in N}
  BY <1>2, <1>6, <1>7, StateAllIs
<1>9. N \subseteq m.names
  BY DEF News
<1> HIDE DEF k2, N
<1>10. \A x : IsUse(x) => /\ x \in InForce(k2) <=> x \in InForce(k1)
                          /\ x \in Noted(k2) <=> x \in Noted(k1)
  BY <1>6, <1>8, <1>9 DEF IsUse
<1>11. /\ OwnUses(k2) = OwnUses(k1) /\ OwnUses(k2) \subseteq InForce(k2)
       /\ \A x, y \in OwnUses(k2) : x = y
  BY <1>2, <1>4, <1>10 DEF OwnUses, Own
<1>12. \A x : ~IsUse(x) =>
          /\ x \in Noted(k2) <=> x \in Noted(l) \/ \E w \in N : x = Stated(w)
          /\ x \in InForce(k2) <=> \/ x \in InForce(l) /\ \A w \in N : w.concept # x.concept
                                   \/ \E w \in N : x = Stated(w)
  BY <1>5, <1>8
<1>13. NoUseHeard(m, l) <=> ~(\E i \in LatestActive(k2, "primaryUsage") : k2[i].turn = revision + 1)
  <2>1. (\E i \in LatestActive(k2, "primaryUsage") : k2[i].turn = revision + 1)
           <=> \E x \in InForce(k2) : IsUse(x) /\ x.turn = Now
    BY DEF LatestActive, InForce, IsUse, Now
  <2>2. InForce(k2) \subseteq Noted(k2)
    BY <1>8, ForceIsNoted DEF Grown
  <2>3. (\E x \in InForce(k2) : IsUse(x) /\ x.turn = Now) <=> OwnUses(k2) # {}
    BY <1>11, <2>2 DEF OwnUses, Own
  <2> QED  BY <1>4, <1>11, <2>1, <2>3 DEF NoUseHeard
<1> DEFINE adds == m.usage # Nothing /\ NoUseHeard(m, l)
<1>14. k3 = IF adds THEN SupersedeActive(k2, u) ELSE k2
  BY <1>13 DEF ApplySemanticPreferenceSignals, Use
<1>15. ASSUME m.usage # Nothing
       PROVE  /\ IsOwn(u) /\ u.status = "ACTIVE" /\ u.turn = Now /\ IsUse(u) /\ ~IsEquipment(u)
              /\ u.concept \notin Budgets /\ u.value = m.usage /\ u.concept = "primaryUsage"
  <2>1. CanBeStated(Use(m.usage))
    BY <1>15, SayableCanBeStated DEF Use
  <2>2. Use(m.usage).concept = "primaryUsage" /\ Use(m.usage).value = m.usage
    BY DEF Use, Wish
  <2> QED  BY <2>1, <2>2, StatedIsOwn DEF IsUse
<1> HIDE DEF u, k3
<1>16. ASSUME adds
       PROVE  /\ k3 \in Grown /\ Settled(k3) /\ Figure(k3) = Figure(l)
              /\ Noted(k3) = Noted(k2) \cup {u}
              /\ InForce(k3) = {x \in InForce(k2) : ~IsUse(x)} \cup {u}
              /\ OwnUses(k3) = {u}
  <2>1. ~Repeats(k2, u)
    <3>1. InForce(k2) \subseteq Noted(k2)
      BY <1>8, ForceIsNoted DEF Grown
    <3>2. OwnUses(k2) = {}
      BY <1>4, <1>11, <1>16 DEF NoUseHeard
    <3> QED  BY <1>15, <1>16, <3>1, <3>2 DEF Repeats, OwnUses, Own, IsUse
  <2>2. /\ k3 \in Grown /\ Settled(k3)
        /\ Noted(k3) = Noted(k2) \cup {u}
        /\ InForce(k3) = {x \in InForce(k2) : x.concept # u.concept} \cup {u}
        /\ Figure(k3) = Figure(k2)
    BY <1>8, <1>14, <1>15, <1>16, <2>1, SupersedeActiveIs
  <2>3. InForce(k3) = {x \in InForce(k2) : ~IsUse(x)} \cup {u}
    BY <1>15, <1>16, <2>2 DEF IsUse
  <2>4. OwnUses(k3) = {u}
    BY <1>4, <1>11, <1>15, <1>16, <2>2 DEF OwnUses, Own, NoUseHeard
  <2> QED  BY <1>2, <1>8, <2>2, <2>3, <2>4
<1>17. ~adds => k3 = k2
  BY <1>14
<1>18. /\ k3 \in Grown /\ Settled(k3) /\ Figure(k3) = Figure(l)
       /\ OwnUses(k3) \subseteq InForce(k3) /\ \A x, y \in OwnUses(k3) : x = y
  <2>1. CASE adds
    BY <1>16, <2>1
  <2>2. CASE ~adds
    BY <1>2, <1>8, <1>11, <1>17, <2>2
  <2> QED  BY <2>1, <2>2
<1>19. /\ k4 \in Grown /\ Figure(k4) = Figure(l)
       /\ Noted(k4) = Noted(k3) \ Taken(m, k3)
       /\ Taken(m, k3) = {} => InForce(k4) = InForce(k3)
       /\ Taken(m, k3) # {} =>
             \A x : x \in InForce(k4) <=> IF IsUse(x) THEN x \in InForce(ledger) ELSE x \in InForce(k3)
  BY <1>18, RejectionIs
<1> HIDE DEF k4
<1>20. \A x \in Taken(m, k3) : IsUse(x)
  BY DEF Taken, Inferred, IsLoadInference, IsUse
<1>21. \A x : ~IsUse(x) => /\ x \in Noted(k4) <=> x \in Noted(k2)
                           /\ x \in InForce(k4) <=> x \in InForce(k2)
  <2>1. \A x : ~IsUse(x) => /\ x \in Noted(k3) <=> x \in Noted(k2)
                            /\ x \in InForce(k3) <=> x \in InForce(k2)
    BY <1>15, <1>16, <1>17
  <2> QED  BY <1>19, <1>20, <2>1
<1>22. ASSUME NEW x, IsUse(x)
       PROVE  x \in InForce(k4) <=> IF TakesUsage(m, l) THEN x = u ELSE UseBefore(m, l, x)
  <2>1. CASE ~adds
    <3>1. Taken(m, k3) = {}
      <4>1. Taken(m, k2) \subseteq Noted(k2) /\ \A y \in Taken(m, k2) : IsUse(y)
        BY <1>17, <1>20, <2>1 DEF Taken, Inferred
      <4>2. \A y \in Taken(m, k2) : y \in Noted(l) /\ y \notin Taken(m, l) /\ Rejects(m) /\ IsLoadInference(y)
        BY <1>2, <1>10, <4>1 DEF Taken, Inferred
      <4>3. Taken(m, k2) = {}
        BY <4>2 DEF Taken, Inferred
      <4> QED  BY <1>17, <2>1, <4>3
    <3> QED  BY <1>5, <1>10, <1>17, <1>19, <1>22, <2>1, <3>1 DEF TakesUsage
  <2>2. CASE adds /\ ~(Rejects(m) /\ m.usage = "COMMERCIAL")
    <3>1. Taken(m, k3) = {}
      <4>1. Taken(m, k3) \subseteq OwnUses(k3)
        BY DEF Taken, Inferred, OwnUses, Own, IsLoadInference, IsUse, Now
      <4>2. Rejects(m) => ~IsLoadInference(u)
        BY <1>15, <2>2 DEF IsLoadInference
      <4> QED  BY <1>16, <2>2, <4>1, <4>2 DEF Taken, Inferred
    <3>2. x \in InForce(k4) <=> x = u
      BY <1>16, <1>19, <1>22, <2>2, <3>1
    <3> QED  BY <2>2, <3>2 DEF TakesUsage
  <2>3. CASE adds /\ Rejects(m) /\ m.usage = "COMMERCIAL"
    <3>1. u \in Taken(m, k3)
      BY <1>15, <1>16, <2>3 DEF Taken, Inferred, IsLoadInference, Now
    <3>2. x \in InForce(k4) <=> x \in InForce(ledger)
      BY <1>19, <1>22, <3>1
    <3>3. Taken(m, l) = {} => (x \in InForce(l) <=> x \in InForce(ledger))
      <4>1. Taken(m, l) = {} => OwnUses(l) = {}
        BY <2>3 DEF NoUseHeard
      <4> QED  BY <1>22, <4>1, UsesRemain
    <3> QED  BY <2>3, <3>2, <3>3 DEF TakesUsage, UseBefore
  <2> QED  BY <2>1, <2>2, <2>3
<1>23. \A x : ~IsUse(x) =>
          /\ x \in Noted(k4) <=> x \in Noted(l) \/ \E w \in N : x = Stated(w)
          /\ x \in InForce(k4) <=> \/ x \in InForce(l) /\ \A w \in N : w.concept # x.concept
                                   \/ \E w \in N : x = Stated(w)
  BY <1>12, <1>21
<1> QED  BY <1>1, <1>19, <1>22, <1>23 DEF u, N

(***************************************************************************)
(* The question.                                                           *)
(***************************************************************************)
\* Indices have a smallest one.
LEMMA SmallestIndex ==
    ASSUME NEW n \in Nat, NEW I, I \subseteq 1..n, I # {}
    PROVE  \E i \in I : \A j \in I : i <= j
<1>1. I \subseteq Nat
  OBVIOUS
<1>2. PICK i \in I : \A j \in I : ~ (<<j, i>> \in OpToRel(<, Nat))
  BY <1>1, NatLessThanWellFounded, WFMin
<1>3. \A j \in I : ~ (j < i)
  BY <1>1, <1>2 DEF OpToRel
<1> QED  BY <1>1, <1>3

\* The event that a question is about is the weak signal of its hint and turn.
LEMMA SourceIs ==
    ASSUME NEW l \in Books
    PROVE  /\ Source(l) \in 0..Len(l)
           /\ Source(l) = 0 => \A x \in Noted(l) :
                 ~(/\ pending # Nothing /\ x.strength = "WEAK_SIGNAL"
                   /\ x.concept = pending.concept /\ x.turn = pending.turn)
           /\ Source(l) # 0 => /\ pending # Nothing /\ l[Source(l)] \in Noted(l)
                               /\ l[Source(l)].concept = pending.concept
                               /\ l[Source(l)].strength = "WEAK_SIGNAL"
                               /\ l[Source(l)].turn = pending.turn
<1> DEFINE I == {i \in 1..Len(l) : /\ pending # Nothing /\ l[i].status = "ACTIVE"
                                   /\ l[i].strength = "WEAK_SIGNAL"
                                   /\ l[i].concept = pending.concept /\ l[i].turn = pending.turn}
<1>1. Source(l) = IF I # {} THEN CHOOSE i \in I : \A j \in I : i <= j ELSE 0
  BY DEF Source, SelectInSeq, Min
<1>2. Len(l) \in Nat /\ I \subseteq 1..Len(l) /\ DOMAIN l = 1..Len(l)
  BY DEF Books
<1>3. CASE I = {}
  BY <1>1, <1>2, <1>3 DEF Noted
<1>4. CASE I # {}
  <2>1. PICK i \in I : \A j \in I : i <= j
    BY <1>2, <1>4, SmallestIndex
  <2>2. Source(l) \in I
    BY <1>1, <1>4, <2>1
  <2> QED  BY <1>2, <2>2 DEF Noted
<1> QED  BY <1>3, <1>4

\* A hint is confirmed when a confirmed event of it was put in force.
LEMMA IsConfirmedIs ==
    ASSUME NEW l \in Books, NEW h
    PROVE  IsConfirmed(l, h) <=> \E x \in Noted(l) : x.concept = h /\ x.strength = "CONFIRMED_STRONG"
BY DEF IsConfirmed, Noted

\* The next question is about a weak signal that is not confirmed, if one is left
\* and has a text to ask it with.
LEMMA NextWeakIs ==
    ASSUME NEW l \in Books, NEW excluded
    PROVE  LET p == NextWeakConfirmation(l, excluded)
           IN  \/ /\ p = Nothing
                  /\ \A x \in Noted(l) : x.strength = "WEAK_SIGNAL" /\ x.concept # excluded =>
                        IsConfirmed(l, x.concept)
               \/ \E x \in Noted(l) : /\ x.strength = "WEAK_SIGNAL" /\ x.concept # excluded
                                      /\ ~IsConfirmed(l, x.concept)
                                      /\ p = IF x.concept \in Unasked THEN Nothing
                                            ELSE [concept |-> x.concept, turn |-> x.turn]
<1> DEFINE I == {i \in 1..Len(l) : /\ l[i].status = "ACTIVE" /\ l[i].strength = "WEAK_SIGNAL"
                                   /\ l[i].concept # excluded /\ ~IsConfirmed(l, l[i].concept)}
           s == IF I # {} THEN CHOOSE i \in I : \A j \in I : i <= j ELSE 0
<1>1. NextWeakConfirmation(l, excluded) = PendingAt(l, s)
  BY DEF NextWeakConfirmation, SelectInSeq, Min
<1>2. Len(l) \in Nat /\ I \subseteq 1..Len(l) /\ DOMAIN l = 1..Len(l)
  BY DEF Books
<1>3. CASE I = {}
  BY <1>1, <1>2, <1>3 DEF Noted, PendingAt
<1>4. CASE I # {}
  <2>1. PICK i \in I : \A j \in I : i <= j
    BY <1>2, <1>4, SmallestIndex
  <2>2. s \in I
    BY <1>4, <2>1
  <2> HIDE DEF s
  <2>3. l[s] \in Noted(l) /\ s # 0
    BY <1>2, <2>2 DEF Noted
  <2>4. PendingAt(l, s) = IF l[s].concept \in Unasked THEN Nothing
                          ELSE [concept |-> l[s].concept, turn |-> l[s].turn]
    BY <2>3 DEF PendingAt
  <2> QED  BY <1>1, <2>2, <2>3, <2>4
<1> QED  BY <1>3, <1>4

\* The first question of a turn is about one of its new hints, if there is one.
LEMMA AskFirstIs ==
    ASSUME NEW m, NEW l, NEW resolved
    PROVE  LET p == AskFirst(m, l, resolved)
           IN  \/ p = Nothing /\ NewHints(m, l, resolved) = {}
               \/ \E h \in NewHints(m, l, resolved) : p = [concept |-> h, turn |-> revision + 1]
<1> DEFINE I == {i \in 1..Len(HintOrder) : IsNew(HintOrder[i], m, l, resolved)}
           s == IF I # {} THEN CHOOSE i \in I : \A j \in I : i <= j ELSE 0
<1>1. AskFirst(m, l, resolved) = IF s = 0 THEN Nothing ELSE [concept |-> HintOrder[s], turn |-> revision + 1]
  BY DEF AskFirst, SelectInSeq, Min
<1>2. /\ Len(HintOrder) \in Nat /\ DOMAIN HintOrder = 1..Len(HintOrder)
      /\ \A i \in 1..Len(HintOrder) : HintOrder[i] \in Hints
  BY HintsAssumption
<1>3. CASE I = {}
  BY <1>1, <1>2, <1>3, HintsAssumption DEF NewHints
<1>4. CASE I # {}
  <2>1. PICK i \in I : \A j \in I : i <= j
    BY <1>2, <1>4, SmallestIndex
  <2>2. s \in I
    BY <1>4, <2>1
  <2> HIDE DEF s
  <2>3. HintOrder[s] \in NewHints(m, l, resolved) /\ s # 0
    BY <1>2, <2>2 DEF NewHints
  <2> QED  BY <1>1, <2>3
<1> QED  BY <1>3, <1>4

(***************************************************************************)
(* The wording of a message, by the exit that it takes.                    *)
(***************************************************************************)
\* What a turn may collect from: it names at most one use, and that is in force.
Worded(l) ==
    /\ l \in Grown /\ Settled(l)
    /\ OwnUses(l) \subseteq InForce(l) /\ \A x, y \in OwnUses(l) : x = y

\* A ledger that noted nothing in this turn has nothing of this turn in force.
LEMMA NothingOwn ==
    ASSUME Past, ledger \in Books, NEW l \in Grown, Noted(l) = Noted(ledger)
    PROVE  /\ \A x \in Noted(l) : x.turn # Now
           /\ Settled(l) /\ Worded(l) /\ \A e : e.turn = Now => ~Repeats(l, e)
<1>1. l \in Books
  BY DEF Grown
<1>2. \A x \in Noted(l) : x.turn # Now
  BY DEF Noted, Past, Books
<1>3. Settled(l)
  BY <1>1, <1>2, LastActiveIs DEF Settled
<1>4. OwnUses(l) = {}
  BY <1>2 DEF OwnUses, Own
<1>5. \A e : e.turn = Now => ~Repeats(l, e)
  BY <1>1, <1>2, ForceIsNoted DEF Repeats
<1> QED  BY <1>2, <1>3, <1>4, <1>5 DEF Worded

\* Freed concepts are out of force.
LEMMA LoosenedIs ==
    ASSUME ledger \in Books, revision \in Nat, Past, NEW m \in Messages
    PROVE  LET l == Loosened(m)
           IN  /\ l \in Grown /\ Noted(l) = Noted(ledger) /\ Figure(l) = Figure(ledger)
               /\ InForce(l) = {x \in InForce(ledger) : x.concept \notin m.frees}
<1>1. m.frees \subseteq {"bodyStyle", "fuelType", "transmission"}
  BY MessagesAssumption
<1>2. IsFiniteSet({"bodyStyle", "fuelType", "transmission"})
  <2>1. IsFiniteSet({"bodyStyle"})
    BY FS_Singleton
  <2>2. IsFiniteSet({"bodyStyle"} \cup {"fuelType"})
    BY <2>1, FS_AddElement
  <2>3. IsFiniteSet(({"bodyStyle"} \cup {"fuelType"}) \cup {"transmission"})
    BY <2>2, FS_AddElement
  <2>4. ({"bodyStyle"} \cup {"fuelType"}) \cup {"transmission"} = {"bodyStyle", "fuelType", "transmission"}
    OBVIOUS
  <2> QED  BY <2>3, <2>4
<1>3. IsFiniteSet(m.frees)
  BY <1>1, <1>2, FS_Subset
<1>4. m.frees \subseteq Concepts \ {"equipmentFeature", "primaryUsage"}
  BY <1>1 DEF Concepts
<1>5. ledger \in Grown
  BY LedgerIsGrown
<1> QED  BY <1>3, <1>4, <1>5, ClearAllIs DEF Loosened

\* Giving up the brand.
LEMMA GivenUpIs ==
    ASSUME ledger \in Books, revision \in Nat, Past, NEW m \in Messages
    PROVE  LET l == ClearActive(Loosened(m), "brandPreference")
           IN  /\ Worded(l) /\ Noted(l) = Noted(ledger) /\ Figure(l) = Figure(ledger)
               /\ InForce(l) = {x \in InForce(ledger) : x.concept \notin m.frees \cup {"brandPreference"}}
<1> DEFINE k == Loosened(m)
           l == ClearActive(k, "brandPreference")
<1>1. /\ k \in Grown /\ Noted(k) = Noted(ledger) /\ Figure(k) = Figure(ledger)
      /\ InForce(k) = {x \in InForce(ledger) : x.concept \notin m.frees}
  BY LoosenedIs
<1> HIDE DEF k
<1>2. "brandPreference" \in Concepts \ {"equipmentFeature", "primaryUsage"}
  BY DEF Concepts
<1>3. /\ l \in Grown /\ Noted(l) = Noted(k) /\ Figure(l) = Figure(k)
      /\ InForce(l) = {x \in InForce(k) : x.concept # "brandPreference"}
  BY <1>1, <1>2, ClearActiveIs
<1> HIDE DEF l
<1>4. Worded(l)
  BY <1>1, <1>3, NothingOwn
<1>5. InForce(l) = {x \in InForce(ledger) : x.concept \notin m.frees \cup {"brandPreference"}}
  BY <1>1, <1>3
<1> QED  BY <1>1, <1>3, <1>4, <1>5 DEF l, k

\* The event of a confirmed hint is one of the turn's own.
LEMMA ConfirmedHintIsOwn ==
    ASSUME revision \in Nat, NEW h \in Hints
    PROVE  LET e == ConfirmedHint(h)
           IN  /\ IsOwn(e) /\ e.status = "ACTIVE" /\ e.turn = Now /\ e.strength = "CONFIRMED_STRONG"
               /\ e.concept = h /\ e.value = h /\ e.use = UseOf(h)
               /\ ~IsEquipment(e) /\ ~IsUse(e) /\ h \notin Budgets
<1>1. h \in Concepts /\ h \in Values /\ h \notin Budgets /\ h # "equipmentFeature" /\ h # "primaryUsage"
  BY HintsAreConcepts
<1>2. UseOf(h) \in {"HARD_FILTER", "SOFT_RANK"}
  BY DEF UseOf
<1>3. WellFormed(h, h, UseOf(h), "CONFIRMED_STRONG")
  BY <1>1, <1>2 DEF WellFormed, Budgets
<1> QED  BY <1>1, <1>2, <1>3, EventIsOwn DEF ConfirmedHint, IsEquipment, IsUse

\* A confirmed hint takes the place of its weak signal.
LEMMA ConfirmIs ==
    ASSUME ledger \in Books, revision \in Nat, NEW k, Worded(k), Source(k) # 0,
           pending # Nothing, pending.concept \in Hints
    PROVE  LET l == Confirm(k)
               e == ConfirmedHint(pending.concept)
           IN  /\ Worded(l) /\ Noted(l) = Noted(k) \cup {e} /\ Figure(l) = Figure(k)
               /\ InForce(l) = {x \in InForce(k) : x.concept # pending.concept} \cup {e}
<1> DEFINE e == ConfirmedHint(pending.concept)
           l == Append(k, e)
<1>1. /\ IsOwn(e) /\ e.status = "ACTIVE" /\ e.concept = pending.concept
      /\ ~IsEquipment(e) /\ ~IsUse(e) /\ e.concept \notin Budgets
  BY ConfirmedHintIsOwn
<1>2. Confirm(k) = l /\ k \in Grown
  BY DEF Confirm, Worded
<1> HIDE DEF e
<1>3. /\ l \in Grown /\ Noted(l) = Noted(k) \cup {e} /\ Figure(l) = Figure(k) /\ Settled(l)
      /\ InForce(l) = {x \in InForce(k) : ~SameKey(e, x)} \cup {e}
  BY <1>1, <1>2, NotingIs DEF Worded
<1> HIDE DEF l
<1>4. \A x : SameKey(e, x) <=> x.concept = pending.concept
  BY <1>1 DEF SameKey, IsEquipment
<1>5. InForce(l) = {x \in InForce(k) : x.concept # pending.concept} \cup {e}
  BY <1>3, <1>4
<1>6. OwnUses(l) = OwnUses(k) /\ \A x : IsUse(x) => x.concept # pending.concept
  BY <1>1, <1>3 DEF OwnUses, Own, IsUse
<1>7. OwnUses(l) \subseteq InForce(l)
  BY <1>5, <1>6 DEF Worded, OwnUses
<1> QED  BY <1>2, <1>3, <1>5, <1>6, <1>7 DEF Worded, l, e

\* A refused hint is out of force.
LEMMA RefusedIs ==
    ASSUME ledger \in Books, revision \in Nat, Past, NEW m \in Messages, Source(Loosened(m)) # 0,
           pending # Nothing, pending.concept \in Hints
    PROVE  LET l == End(Loosened(m), Source(Loosened(m)), "REJECTED")
           IN  /\ Worded(l) /\ Noted(l) = Noted(ledger) /\ Figure(l) = Figure(ledger)
               /\ InForce(l) = {x \in InForce(ledger) : x.concept \notin m.frees \cup {pending.concept}}
<1> DEFINE k == Loosened(m)
           i == Source(k)
           l == End(k, i, "REJECTED")
<1>1. /\ k \in Grown /\ Noted(k) = Noted(ledger) /\ Figure(k) = Figure(ledger)
      /\ InForce(k) = {x \in InForce(ledger) : x.concept \notin m.frees}
  BY LoosenedIs
<1>2. k \in Books
  BY <1>1 DEF Grown
<1>3. i \in 1..Len(k) /\ k[i].concept = pending.concept
  <2>1. i \in 0..Len(k) /\ i # 0 /\ Len(k) \in Nat /\ k[i].concept = pending.concept
    BY <1>2, SourceIs DEF Books
  <2> QED  BY <2>1
<1>4. pending.concept # "primaryUsage" /\ pending.concept # "equipmentFeature"
  BY HintsAreConcepts
<1> HIDE DEF i, k
<1>5. /\ l \in Grown /\ Noted(l) = Noted(k) /\ Figure(l) = Figure(k)
      /\ InForce(l) = {x \in InForce(k) : ~SameKey(k[i], x)}
  BY <1>1, <1>3, <1>4, EndingIs
<1> HIDE DEF l
<1>6. \A x : SameKey(k[i], x) <=> x.concept = pending.concept
  BY <1>3, <1>4 DEF SameKey, IsEquipment
<1>7. InForce(l) = {x \in InForce(ledger) : x.concept \notin m.frees \cup {pending.concept}}
  BY <1>1, <1>5, <1>6
<1>8. Worded(l)
  BY <1>1, <1>5, NothingOwn
<1> QED  BY <1>1, <1>5, <1>7, <1>8 DEF l, i, k

\* A weighed cost takes the place of the one before.
LEMMA CostIs ==
    ASSUME ledger \in Books, revision \in Nat, Past, NEW m \in Messages,
           NEW w \in {TotalCost, OperatingCost}, NEW s \in {"EXPLICIT_STRONG", "CONFIRMED_STRONG"}
    PROVE  LET l == SupersedeActive(Loosened(m), Event(w, s))
               e == Event(w, s)
           IN  /\ IsOwn(e) /\ e.status = "ACTIVE" /\ e.turn = Now /\ e.strength = s
               /\ e.concept = w.concept /\ e.value = w.value /\ e.use = w.use
               /\ ~IsEquipment(e) /\ ~IsUse(e) /\ e.concept \notin Budgets \cup Hints
               /\ Worded(l) /\ Noted(l) = Noted(ledger) \cup {e} /\ Figure(l) = Figure(ledger)
               /\ InForce(l) = {x \in InForce(ledger) : x.concept \notin m.frees \cup {w.concept}} \cup {e}
<1> DEFINE k == Loosened(m)
           e == Event(w, s)
           l == SupersedeActive(k, e)
<1>1. /\ k \in Grown /\ Noted(k) = Noted(ledger) /\ Figure(k) = Figure(ledger)
      /\ InForce(k) = {x \in InForce(ledger) : x.concept \notin m.frees}
  BY LoosenedIs
<1>2. /\ w = Wish(w.concept, w.value, w.use) /\ w.use = "SOFT_RANK"
      /\ w.concept \in {"totalCostPriority", "operatingCostPriority"}
      /\ w.value \in {"OPERATING_COST", "TOTAL_COST"}
  BY DEF TotalCost, OperatingCost, Wish
<1>3. /\ w.concept \in Concepts /\ w.value \in Values /\ w.concept \notin Budgets \cup Hints
      /\ w.concept # "equipmentFeature" /\ w.concept # "primaryUsage"
  BY <1>2, HintsAreNotStated DEF Concepts, Values, Budgets
<1>4. WellFormed(w.concept, w.value, w.use, s)
  BY <1>2, <1>3 DEF WellFormed, Budgets
<1>5. /\ IsOwn(e) /\ e.status = "ACTIVE" /\ e.turn = Now /\ e.strength = s
      /\ e.concept = w.concept /\ e.value = w.value /\ e.use = w.use
  BY <1>2, <1>3, <1>4, EventIsOwn
<1>6. ~IsEquipment(e) /\ ~IsUse(e) /\ e.concept \notin Budgets \cup Hints
  BY <1>3, <1>5 DEF IsEquipment, IsUse
<1> HIDE DEF k, e
<1>7. ~Repeats(k, e) /\ Settled(k) /\ Worded(k)
  BY <1>1, <1>5, NothingOwn
<1>8. /\ l \in Grown /\ Settled(l) /\ Noted(l) = Noted(k) \cup {e} /\ Figure(l) = Figure(k)
      /\ InForce(l) = {x \in InForce(k) : x.concept # e.concept} \cup {e}
  BY <1>1, <1>5, <1>6, <1>7, SupersedeActiveIs
<1> HIDE DEF l
<1>9. InForce(l) = {x \in InForce(ledger) : x.concept \notin m.frees \cup {w.concept}} \cup {e}
  BY <1>1, <1>5, <1>8
<1>10. OwnUses(l) = {}
  BY <1>1, <1>6, <1>8, NothingOwn DEF OwnUses, Own
<1> QED  BY <1>1, <1>5, <1>6, <1>8, <1>9, <1>10 DEF Worded, l, k, e

\* The events of a message's statements.
CostEvents(resolved) == IF resolved THEN {Event(OperatingCost, "CONFIRMED_STRONG")} ELSE {}

StatedEvents(m, resolved) ==
    {Stated(w) : w \in {v \in m.states : ~(resolved /\ v.concept = "operatingCostPriority")}}

WantedEvents(m) == {Wanted(v) : v \in m.wants}

PriceEvents(l, budget) ==
    CASE budget.kind \in {"none", "drop"} -> {}
      [] budget.kind \in {"exact", "raise"} /\ budget.soft ->
             {Stated(Wish("budgetTarget", Amount(l, budget), "SOFT_RANK"))}
      [] OTHER -> {Stated(Wish("budgetMax", Amount(l, budget), "HARD_FILTER"))}

Freed(l, m) == ClearAll(l, IF m.budget.kind = "drop" THEN Budgets ELSE {})

\* There are finitely many concepts of a price.
LEMMA BudgetsAreFinite == IsFiniteSet(Budgets) /\ Budgets \subseteq Concepts
<1>1. IsFiniteSet({"budgetMax"} \cup {"budgetTarget"})
  BY FS_Singleton, FS_AddElement
<1>2. Budgets = {"budgetMax"} \cup {"budgetTarget"}
  BY DEF Budgets
<1> QED  BY <1>1, <1>2 DEF Concepts

\* The costs, when the answer was about them, and a budget that is dropped.
LEMMA FreedIs ==
    ASSUME ledger \in Books, revision \in Nat, Past, NEW m \in Messages, NEW resolved \in BOOLEAN
    PROVE  LET l == Freed(IF resolved
                             THEN SupersedeActive(Loosened(m), Event(OperatingCost, "CONFIRMED_STRONG"))
                             ELSE Loosened(m), m)
               C == CostEvents(resolved)
           IN  /\ l \in Grown /\ Settled(l) /\ OwnUses(l) = {} /\ Figure(l) = Figure(ledger)
               /\ Noted(l) = Noted(ledger) \cup C
               /\ \A x : x \in InForce(l) <=>
                     \/ x \in C
                     \/ /\ x \in InForce(ledger) /\ x.concept \notin m.frees
                        /\ m.budget.kind = "drop" => x.concept \notin Budgets
                        /\ resolved => x.concept # "operatingCostPriority"
<1> DEFINE C == CostEvents(resolved)
           k == IF resolved THEN SupersedeActive(Loosened(m), Event(OperatingCost, "CONFIRMED_STRONG"))
                ELSE Loosened(m)
           D == IF m.budget.kind = "drop" THEN Budgets ELSE {}
           l == ClearAll(k, D)
           e == Event(OperatingCost, "CONFIRMED_STRONG")
<1>1. OperatingCost.concept = "operatingCostPriority"
  BY DEF OperatingCost, Wish
<1>2. /\ Worded(k) /\ Figure(k) = Figure(ledger) /\ Noted(k) = Noted(ledger) \cup C
      /\ \A x : x \in InForce(k) <=> \/ x \in C
                                     \/ /\ x \in InForce(ledger) /\ x.concept \notin m.frees
                                        /\ resolved => x.concept # "operatingCostPriority"
      /\ \A x \in C : ~IsUse(x) /\ x.concept \notin Budgets
  <2>1. CASE resolved
    <3>1. /\ Worded(k) /\ Noted(k) = Noted(ledger) \cup {e} /\ Figure(k) = Figure(ledger)
          /\ InForce(k) =
                {x \in InForce(ledger) : x.concept \notin m.frees \cup {OperatingCost.concept}} \cup {e}
          /\ ~IsUse(e) /\ e.concept \notin Budgets
      BY <2>1, CostIs
    <3> HIDE DEF k, e
    <3>2. C = {e}
      BY <2>1 DEF CostEvents, e
    <3> QED  BY <1>1, <2>1, <3>1, <3>2
  <2>2. CASE ~resolved
    <3>1. /\ k \in Grown /\ Noted(k) = Noted(ledger) /\ Figure(k) = Figure(ledger)
          /\ InForce(k) = {x \in InForce(ledger) : x.concept \notin m.frees}
      BY <2>2, LoosenedIs
    <3>2. C = {}
      BY <2>2 DEF CostEvents
    <3> HIDE DEF k
    <3>3. Worded(k)
      BY <3>1, NothingOwn
    <3> QED  BY <2>2, <3>1, <3>2, <3>3
  <2> QED  BY <2>1, <2>2
<1> HIDE DEF k
<1>3. IsFiniteSet(D) /\ D \subseteq Concepts \ {"equipmentFeature", "primaryUsage"} /\ D \subseteq Budgets
  BY BudgetsAreFinite, FS_EmptySet DEF Budgets
<1>4. \A x \in Noted(k) : x.concept \in D => x.turn # Now
  BY <1>2, <1>3, LedgerIsGrown, NothingOwn
<1> HIDE DEF D, C
<1>5. /\ l \in Grown /\ Noted(l) = Noted(k) /\ Figure(l) = Figure(k) /\ Settled(l)
      /\ InForce(l) = {x \in InForce(k) : x.concept \notin D}
  BY <1>2, <1>3, <1>4, ClearAllIs DEF Worded
<1> HIDE DEF l
<1>6. OwnUses(l) = {}
  BY <1>2, <1>5, LedgerIsGrown, NothingOwn DEF OwnUses, Own
<1>7. \A x : x \in InForce(l) <=>
          \/ x \in C
          \/ /\ x \in InForce(ledger) /\ x.concept \notin m.frees
             /\ m.budget.kind = "drop" => x.concept \notin Budgets
             /\ resolved => x.concept # "operatingCostPriority"
  BY <1>2, <1>3, <1>5 DEF D
<1> QED  BY <1>2, <1>5, <1>6, <1>7 DEF l, k, D, C, Freed

\* A price is a natural number, and a raise starts from the last one.
LEMMA AmountIs ==
    ASSUME NEW l \in Books, NEW m \in Messages
    PROVE  /\ Amount(l, m.budget) \in Nat
           /\ Figure(l) \in Nat \cup {Nothing}
           /\ Amount(l, m.budget) = IF m.budget.kind = "raise" /\ Figure(l) # Nothing
                                    THEN Percent(Figure(l), m.budget.amount) ELSE m.budget.amount
<1> DEFINE p == LastActive(l, Budgets)
<1>1. p # 0 => l[p].value \in Nat
  <2>1. p # 0 => /\ l[p].concept \in Budgets
                 /\ WellFormed(l[p].concept, l[p].value, l[p].use, l[p].strength)
    BY LastActiveIs, ForceIsNoted
  <2> QED  BY <2>1 DEF WellFormed
<1>2. Figure(l) = IF p = 0 THEN Nothing ELSE l[p].value
  BY DEF Figure
<1>3. p # 0 <=> Figure(l) # Nothing
  BY <1>1, <1>2, NothingIsNew
<1>4. m.budget.amount \in Nat
  BY MessagesAssumption
<1>5. Amount(l, m.budget) = IF m.budget.kind = "raise" /\ p # 0
                            THEN Percent(l[p].value, m.budget.amount) ELSE m.budget.amount
  BY DEF Amount
<1>6. ASSUME NEW a \in Nat, NEW b \in Nat PROVE Percent(a, b) \in Nat
  <2>1. a * (100 + b) \in Nat
    OBVIOUS
  <2>2. \A n \in Nat : (n + 50) \div 100 \in Nat
    OBVIOUS
  <2> QED  BY <2>1, <2>2 DEF Percent
<1> HIDE DEF p
<1> QED  BY <1>1, <1>2, <1>3, <1>4, <1>5, <1>6

\* A price that is named takes the place of the price of its kind, and is the last price.
LEMMA PriceIs ==
    ASSUME ledger \in Books, revision \in Nat, Past, NEW m \in Messages,
           NEW l \in Grown, Settled(l), Figure(l) = Figure(ledger),
           \A x \in Own(l) : x.concept \notin Budgets
    PROVE  LET k == NamePrice(l, m.budget)
               P == PriceEvents(ledger, m.budget)
           IN  /\ k \in Grown /\ Settled(k) /\ Noted(k) = Noted(l) \cup P
               /\ \A e \in P : /\ IsOwn(e) /\ e.status = "ACTIVE" /\ e.turn = Now
                               /\ e.concept \in Budgets /\ ~IsEquipment(e) /\ ~IsUse(e)
                               /\ e.strength = "EXPLICIT_STRONG"
               /\ \A x : x \in InForce(k) <=> x \in P \/ (x \in InForce(l) /\ \A e \in P : ~SameKey(e, x))
               /\ Figure(k) = IF m.budget.kind \in {"none", "drop"} THEN Figure(ledger)
                              ELSE Amount(ledger, m.budget)
<1> DEFINE b == m.budget
           k == NamePrice(l, b)
           P == PriceEvents(ledger, b)
           about == Stated(Wish("budgetTarget", Amount(ledger, b), "SOFT_RANK"))
           exact == Stated(Wish("budgetMax", Amount(ledger, b), "HARD_FILTER"))
<1>1. l \in Books /\ Amount(l, b) = Amount(ledger, b) /\ Amount(ledger, b) \in Nat
  BY AmountIs DEF Grown
<1>2. k = CASE b.kind \in {"none", "drop"} -> l
            [] b.kind \in {"exact", "raise"} /\ b.soft -> SupersedeActive(l, about)
            [] OTHER -> SupersedeActive(l, exact)
  BY <1>1 DEF NamePrice
<1>3. ASSUME NEW c \in Budgets, NEW u \in {"HARD_FILTER", "SOFT_RANK"}, c = "budgetMax" => u = "HARD_FILTER"
      PROVE  LET e == Stated(Wish(c, Amount(ledger, b), u))
             IN  /\ IsOwn(e) /\ e.status = "ACTIVE" /\ e.turn = Now /\ e.strength = "EXPLICIT_STRONG"
                 /\ e.concept = c /\ e.value = Amount(ledger, b) /\ ~IsEquipment(e) /\ ~IsUse(e)
  <2>1. c \in Concepts /\ c # "equipmentFeature" /\ c # "primaryUsage" /\ c \notin Hints
    BY HintsAreNotStated DEF Concepts, Budgets
  <2>2. Amount(ledger, b) \in Values
    BY <1>1 DEF Values
  <2>3. WellFormed(c, Amount(ledger, b), u, "EXPLICIT_STRONG")
    BY <1>1, <1>3, <2>1 DEF WellFormed
  <2> QED  BY <2>1, <2>2, <2>3, EventIsOwn DEF Stated, IsEquipment, IsUse
<1>4. ASSUME NEW e, IsOwn(e), e.status = "ACTIVE", e.turn = Now, e.concept \in Budgets, ~IsEquipment(e),
             e.value = Amount(ledger, b)
      PROVE  LET j == SupersedeActive(l, e)
             IN  /\ j \in Grown /\ Settled(j) /\ Noted(j) = Noted(l) \cup {e}
                 /\ \A x : x \in InForce(j) <=> x = e \/ (x \in InForce(l) /\ ~SameKey(e, x))
                 /\ Figure(j) = Amount(ledger, b)
  <2> DEFINE j == SupersedeActive(l, e)
  <2>1. ~Repeats(l, e)
    BY <1>1, <1>4, ForceIsNoted DEF Repeats, Own
  <2>2. /\ j \in Grown /\ Settled(j) /\ Noted(j) = Noted(l) \cup {e}
        /\ InForce(j) = {x \in InForce(l) : x.concept # e.concept} \cup {e}
        /\ Figure(j) = e.value
    BY <1>4, <2>1, SupersedeActiveIs
  <2> HIDE DEF j
  <2>3. \A x : SameKey(e, x) <=> x.concept = e.concept
    BY <1>4 DEF SameKey, IsEquipment
  <2> QED  BY <1>4, <2>2, <2>3 DEF j
<1>5. CASE b.kind \in {"none", "drop"}
  BY <1>2, <1>5 DEF PriceEvents
<1>6. CASE b.kind \in {"exact", "raise"} /\ b.soft
  <2>1. k = SupersedeActive(l, about) /\ P = {about}
    BY <1>2, <1>6 DEF PriceEvents
  <2>2. /\ IsOwn(about) /\ about.status = "ACTIVE" /\ about.turn = Now /\ about.concept \in Budgets
        /\ ~IsEquipment(about) /\ ~IsUse(about) /\ about.value = Amount(ledger, b)
        /\ about.strength = "EXPLICIT_STRONG"
    <3>1. "budgetTarget" \in Budgets
      BY DEF Budgets
    <3> QED  BY <1>3, <3>1
  <2> HIDE DEF about, k, P
  <2>3. /\ k \in Grown /\ Settled(k) /\ Noted(k) = Noted(l) \cup {about}
        /\ \A x : x \in InForce(k) <=> x = about \/ (x \in InForce(l) /\ ~SameKey(about, x))
        /\ Figure(k) = Amount(ledger, b)
    BY <1>4, <2>1, <2>2
  <2> QED  BY <1>6, <2>1, <2>2, <2>3 DEF k, P
<1>7. CASE b.kind \notin {"none", "drop"} /\ ~(b.kind \in {"exact", "raise"} /\ b.soft)
  <2>1. k = SupersedeActive(l, exact) /\ P = {exact}
    BY <1>2, <1>7 DEF PriceEvents
  <2>2. /\ IsOwn(exact) /\ exact.status = "ACTIVE" /\ exact.turn = Now /\ exact.concept \in Budgets
        /\ ~IsEquipment(exact) /\ ~IsUse(exact) /\ exact.value = Amount(ledger, b)
        /\ exact.strength = "EXPLICIT_STRONG"
    <3>1. "budgetMax" \in Budgets
      BY DEF Budgets
    <3> QED  BY <1>3, <3>1
  <2> HIDE DEF exact, k, P
  <2>3. /\ k \in Grown /\ Settled(k) /\ Noted(k) = Noted(l) \cup {exact}
        /\ \A x : x \in InForce(k) <=> x = exact \/ (x \in InForce(l) /\ ~SameKey(exact, x))
        /\ Figure(k) = Amount(ledger, b)
    BY <1>4, <2>1, <2>2
  <2> QED  BY <1>7, <2>1, <2>2, <2>3 DEF k, P
<1> QED  BY <1>5, <1>6, <1>7

MessageEvents(m, resolved) ==
    CostEvents(resolved) \cup StatedEvents(m, resolved) \cup WantedEvents(m) \cup PriceEvents(ledger, m.budget)

\* An event of an earlier turn that message m takes back.
TakenBack(m, x) ==
    \/ x.concept \in m.frees
    \/ m.budget.kind = "drop" /\ x.concept \in Budgets
    \/ IsEquipment(x) /\ x.value \in m.drops

\* The events of a message's statements are strong and about no hint.
LEMMA MessageEventsAre ==
    ASSUME ledger \in Books, revision \in Nat, Past, NEW m \in Messages, NEW resolved \in BOOLEAN
    PROVE  /\ \A e \in MessageEvents(m, resolved) :
                 /\ e.status = "ACTIVE" /\ e.turn = Now /\ e.concept \notin Hints
                 /\ e.strength \in {"EXPLICIT_STRONG", "CONFIRMED_STRONG"}
           /\ \A e \in CostEvents(resolved) :
                 /\ resolved /\ e.concept = "operatingCostPriority" /\ e.value = "OPERATING_COST"
                 /\ e.use = "SOFT_RANK" /\ ~IsEquipment(e) /\ ~IsUse(e) /\ e.concept \notin Budgets
           /\ \A e \in StatedEvents(m, resolved) :
                 ~IsEquipment(e) /\ e.concept \notin Budgets
           /\ \A e \in WantedEvents(m) : IsEquipment(e) /\ ~IsUse(e) /\ e.concept \notin Budgets
           /\ \A e \in PriceEvents(ledger, m.budget) :
                 e.concept \in Budgets /\ ~IsEquipment(e) /\ ~IsUse(e)
<1>1. \A e \in CostEvents(resolved) :
         /\ e.status = "ACTIVE" /\ e.turn = Now /\ e.concept \notin Hints
         /\ e.strength \in {"EXPLICIT_STRONG", "CONFIRMED_STRONG"}
         /\ resolved /\ e.concept = "operatingCostPriority" /\ e.value = "OPERATING_COST"
         /\ e.use = "SOFT_RANK" /\ ~IsEquipment(e) /\ ~IsUse(e) /\ e.concept \notin Budgets
  <2> DEFINE e == Event(OperatingCost, "CONFIRMED_STRONG")
  <2>1. /\ e.status = "ACTIVE" /\ e.turn = Now /\ e.strength = "CONFIRMED_STRONG"
        /\ e.concept = OperatingCost.concept /\ e.value = OperatingCost.value /\ e.use = OperatingCost.use
        /\ ~IsEquipment(e) /\ ~IsUse(e) /\ e.concept \notin Budgets \cup Hints
    BY CostIs
  <2>2. OperatingCost = [concept |-> "operatingCostPriority", value |-> "OPERATING_COST", use |-> "SOFT_RANK"]
    BY DEF OperatingCost, Wish
  <2>3. \A x \in CostEvents(resolved) : x = e /\ resolved
    BY DEF CostEvents
  <2> HIDE DEF e
  <2> QED  BY <2>1, <2>2, <2>3
<1>2. \A e \in StatedEvents(m, resolved) :
         /\ e.status = "ACTIVE" /\ e.turn = Now /\ e.concept \notin Hints
         /\ e.strength \in {"EXPLICIT_STRONG", "CONFIRMED_STRONG"}
         /\ ~IsEquipment(e) /\ e.concept \notin Budgets
  <2>1. \A w \in m.states : CanBeStated(w) /\ w.concept \notin Hints
    BY SayableCanBeStated DEF CanBeStated
  <2> QED  BY <2>1, StatedIsOwn DEF StatedEvents
<1>3. \A e \in WantedEvents(m) :
         /\ e.status = "ACTIVE" /\ e.turn = Now /\ e.concept \notin Hints
         /\ e.strength \in {"EXPLICIT_STRONG", "CONFIRMED_STRONG"}
         /\ IsEquipment(e) /\ ~IsUse(e) /\ e.concept \notin Budgets
  <2>1. m.wants \subseteq Values
    BY SayableCanBeStated
  <2>2. "equipmentFeature" \notin Hints
    BY HintsAreNotStated
  <2> QED  BY <2>1, <2>2, WantedIsOwn DEF WantedEvents, IsEquipment, IsUse
<1>4. \A e \in PriceEvents(ledger, m.budget) :
         /\ e.status = "ACTIVE" /\ e.turn = Now /\ e.concept \notin Hints
         /\ e.strength \in {"EXPLICIT_STRONG", "CONFIRMED_STRONG"}
         /\ e.concept \in Budgets /\ ~IsEquipment(e) /\ ~IsUse(e)
  <2>1. Settled(ledger) /\ Own(ledger) = {} /\ ledger \in Grown
    BY LedgerIsGrown, NothingOwn DEF Own
  <2>2. \A c \in Budgets : c \notin Hints
    BY HintsAreConcepts
  <2> QED  BY <2>1, <2>2, PriceIs
<1> QED  BY <1>1, <1>2, <1>3, <1>4 DEF MessageEvents

\* After a message's statements its events are in force, and what it does not take back.
LEMMA StatementsIs ==
    ASSUME ledger \in Books, revision \in Nat, Past, NEW m \in Messages, NEW resolved \in BOOLEAN
    PROVE  LET l == Statements(m, resolved)
               H == MessageEvents(m, resolved)
           IN  /\ Worded(l) /\ Noted(l) = Noted(ledger) \cup H
               /\ \A x : x \in InForce(l) <=>
                     \/ x \in H
                     \/ x \in InForce(ledger) /\ ~TakenBack(m, x) /\ \A e \in H : ~SameKey(e, x)
               /\ Figure(l) = IF m.budget.kind \in {"none", "drop"} THEN Figure(ledger)
                              ELSE Amount(ledger, m.budget)
<1> DEFINE k0 == Freed(IF resolved THEN SupersedeActive(Loosened(m), Event(OperatingCost, "CONFIRMED_STRONG"))
                                   ELSE Loosened(m), m)
           k1 == StateAll(k0, m.states)
           k2 == DropEquipment(k1, m)
           k3 == WantEquipment(k2, m)
           k4 == NamePrice(k3, m.budget)
           C == CostEvents(resolved)
           S == StatedEvents(m, resolved)
           V == WantedEvents(m)
           P == PriceEvents(ledger, m.budget)
<1>0. Statements(m, resolved) = k4
  BY DEF Statements, Freed
<1>1. /\ k0 \in Grown /\ Settled(k0) /\ OwnUses(k0) = {} /\ Figure(k0) = Figure(ledger)
      /\ Noted(k0) = Noted(ledger) \cup C
      /\ \A x : x \in InForce(k0) <=>
            \/ x \in C
            \/ /\ x \in InForce(ledger) /\ x.concept \notin m.frees
               /\ m.budget.kind = "drop" => x.concept \notin Budgets
               /\ resolved => x.concept # "operatingCostPriority"
  BY FreedIs
<1> HIDE DEF k0
<1>2. /\ \A e \in C : /\ e.turn = Now /\ resolved /\ e.concept = "operatingCostPriority"
                      /\ e.value = "OPERATING_COST"
                      /\ ~IsEquipment(e) /\ ~IsUse(e) /\ e.concept \notin Budgets
      /\ \A e \in S : e.turn = Now /\ ~IsEquipment(e) /\ e.concept \notin Budgets
      /\ \A e \in V : e.turn = Now /\ IsEquipment(e) /\ ~IsUse(e) /\ e.concept \notin Budgets
      /\ \A e \in P : e.turn = Now /\ e.concept \in Budgets /\ ~IsEquipment(e) /\ ~IsUse(e)
  BY MessageEventsAre DEF MessageEvents
<1>3. /\ \A w \in m.states : CanBeStated(w)
      /\ IsFiniteSet(m.states) /\ \A v, w \in m.states : v.concept = w.concept => v = w
      /\ IsFiniteSet(m.wants) /\ IsFiniteSet(m.drops) /\ m.wants \subseteq Values
  BY SayableCanBeStated
<1>4. \A w \in m.states : /\ Stated(w).turn = Now /\ Stated(w).concept = w.concept
                          /\ Stated(w).value = w.value
  BY <1>3, StatedIsOwn
<1>5. \A x \in Noted(ledger) : x.turn # Now
  BY LedgerIsGrown, NothingOwn
<1>6. InForce(ledger) \subseteq Noted(ledger)
  BY ForceIsNoted
<1>7. resolved => \E e \in C : e.concept = "operatingCostPriority" /\ e.value = "OPERATING_COST" /\ e.turn = Now
  BY <1>2 DEF CostEvents
<1>8. {Stated(w) : w \in News(k0, m.states)} = S
  <2>1. ASSUME NEW w \in m.states
        PROVE  Repeats(k0, Stated(w)) <=> resolved /\ w.concept = "operatingCostPriority"
    <3>1. Repeats(k0, Stated(w)) <=> \E x \in C : x.concept = w.concept /\ x.value = w.value
      BY <1>1, <1>2, <1>4, <1>5, <1>6 DEF Repeats
    <3>2. w.concept = "operatingCostPriority" => w.value = "OPERATING_COST"
      BY MessagesAssumption DEF Wish
    <3> QED  BY <1>2, <1>7, <3>1, <3>2
  <2>2. News(k0, m.states) = {v \in m.states : ~(resolved /\ v.concept = "operatingCostPriority")}
    BY <2>1 DEF News
  <2> QED  BY <2>2 DEF StatedEvents
<1>9. /\ k1 \in Grown /\ Settled(k1) /\ Figure(k1) = Figure(k0)
      /\ Noted(k1) = Noted(k0) \cup S
      /\ \A x : x \in InForce(k1) <=> x \in S \/ (x \in InForce(k0) /\ \A e \in S : e.concept # x.concept)
  <2>1. /\ k1 \in Grown /\ Settled(k1) /\ Figure(k1) = Figure(k0)
        /\ Noted(k1) = Noted(k0) \cup S
        /\ InForce(k1) = {x \in InForce(k0) : \A w \in News(k0, m.states) : w.concept # x.concept} \cup S
    BY <1>1, <1>3, <1>8, StateAllIs
  <2>2. \A x : (\A w \in News(k0, m.states) : w.concept # x.concept) <=> \A e \in S : e.concept # x.concept
    BY <1>4, <1>8 DEF News
  <2> QED  BY <2>1, <2>2
<1> HIDE DEF k1, C, S, V, P
<1>10. \A x \in Noted(k1) : IsEquipment(x) => x.turn # Now
  BY <1>1, <1>2, <1>5, <1>9
<1>11. /\ k2 \in Grown /\ Settled(k2) /\ Noted(k2) = Noted(k1) /\ Figure(k2) = Figure(k1)
       /\ InForce(k2) = {x \in InForce(k1) : ~(IsEquipment(x) /\ x.value \in m.drops)}
  BY <1>3, <1>9, <1>10, DropEquipmentIs
<1> HIDE DEF k2
<1>12. /\ k3 \in Grown /\ Settled(k3) /\ Figure(k3) = Figure(k2)
       /\ Noted(k3) = Noted(k2) \cup V
       /\ InForce(k3) = {x \in InForce(k2) : ~(IsEquipment(x) /\ x.value \in m.wants)} \cup V
  BY <1>3, <1>11, WantEquipmentIs DEF V, WantedEvents
<1> HIDE DEF k3
<1>13. \A x : IsEquipment(x) => (x.value \in m.wants <=> \E e \in V : SameKey(e, x))
  BY <1>3, WantedIsOwn DEF V, WantedEvents, SameKey, IsEquipment
<1>14. Noted(k3) = Noted(ledger) \cup C \cup S \cup V
  BY <1>1, <1>9, <1>11, <1>12
<1>15. \A x \in Own(k3) : x.concept \notin Budgets
  BY <1>2, <1>5, <1>14 DEF Own
<1>16. /\ k4 \in Grown /\ Settled(k4) /\ Noted(k4) = Noted(k3) \cup P
       /\ \A x : x \in InForce(k4) <=> x \in P \/ (x \in InForce(k3) /\ \A e \in P : ~SameKey(e, x))
       /\ Figure(k4) = IF m.budget.kind \in {"none", "drop"} THEN Figure(ledger)
                       ELSE Amount(ledger, m.budget)
  BY <1>1, <1>9, <1>11, <1>12, <1>15, PriceIs DEF P
<1> HIDE DEF k4
<1> DEFINE H == C \cup S \cup V \cup P
<1>17. Noted(k4) = Noted(ledger) \cup H
  BY <1>14, <1>16
<1>18. ASSUME NEW x
       PROVE  x \in InForce(k4) <=>
                 x \in H \/ (x \in InForce(ledger) /\ ~TakenBack(m, x) /\ \A e \in H : ~SameKey(e, x))
  <2>1. /\ (\E e \in S : e.concept = x.concept) <=> \E e \in S : SameKey(e, x)
        /\ (\E e \in C : e.concept = x.concept) <=> \E e \in C : SameKey(e, x)
        /\ (IsEquipment(x) /\ x.value \in m.wants) <=> \E e \in V : SameKey(e, x)
    BY <1>2, <1>13 DEF SameKey, IsEquipment
  <2>2. (resolved /\ x.concept = "operatingCostPriority") <=> \E e \in C : SameKey(e, x)
    BY <1>2, <1>7, <2>1
  <2>3. x \in InForce(k1) <=>
          \/ x \in S
          \/ /\ x \in C \/ (/\ x \in InForce(ledger) /\ x.concept \notin m.frees
                            /\ m.budget.kind = "drop" => x.concept \notin Budgets
                            /\ ~\E e \in C : SameKey(e, x))
             /\ ~\E e \in S : SameKey(e, x)
    BY <1>1, <1>9, <2>1, <2>2
  <2>4. x \in C => ~\E e \in S : SameKey(e, x)
    <3>1. \A e \in S : resolved => e.concept # "operatingCostPriority"
      BY <1>4 DEF S, StatedEvents
    <3> QED  BY <1>2, <2>1, <3>1
  <2>5. x \in InForce(k3) <=>
          \/ x \in V
          \/ /\ x \in InForce(k1) /\ ~(IsEquipment(x) /\ x.value \in m.drops)
             /\ ~\E e \in V : SameKey(e, x)
    BY <1>11, <1>12, <2>1
  <2>6. /\ x \in C \cup S => ~IsEquipment(x) /\ (~\E e \in V : SameKey(e, x))
        /\ x \in C \cup S \cup V => ~\E e \in P : SameKey(e, x)
    BY <1>2 DEF SameKey, IsEquipment
  <2> QED  BY <1>16, <2>3, <2>4, <2>5, <2>6 DEF TakenBack
<1>19. OwnUses(k4) \subseteq S /\ S \subseteq H
  BY <1>2, <1>5, <1>17 DEF OwnUses, Own
<1>20. OwnUses(k4) \subseteq InForce(k4)
  BY <1>18, <1>19
<1>21. \A x, y \in OwnUses(k4) : x = y
  BY <1>3, <1>4, <1>19 DEF S, StatedEvents, OwnUses, IsUse
<1>22. MessageEvents(m, resolved) = H
  BY DEF MessageEvents, C, S, V, P
<1> HIDE DEF H
<1> QED  BY <1>0, <1>16, <1>17, <1>18, <1>20, <1>21, <1>22 DEF Worded

(***************************************************************************)
(* The inductive invariant of the ledger.                                  *)
(***************************************************************************)
\* The hint in question waits in the ledger, and a hint that was agreed to is
\* in force from then on.
Waits(l, p) ==
    /\ \E x \in Noted(l) : x.strength = "WEAK_SIGNAL" /\ x.concept = p.concept /\ x.turn = p.turn
    /\ \A x \in Noted(l) : x.concept = p.concept => x.strength # "CONFIRMED_STRONG"

AgreedIsInForce(l) ==
    \A x \in Noted(l) : x.concept \in Hints /\ x.strength = "CONFIRMED_STRONG" => x \in InForce(l)

BookInv ==
    /\ ledger \in Books /\ revision \in Nat
    /\ \A i \in 1..Len(ledger) : ledger[i].turn <= revision

QuestionInv ==
    /\ pending \in [concept : Hints, turn : Nat] \cup {Nothing}
    /\ pending # Nothing => Waits(ledger, pending)
    /\ AgreedIsInForce(ledger)

LedgerInv == BookInv /\ QuestionInv

\* The events of the ledger are from earlier turns.
LEMMA BookPast == ASSUME BookInv PROVE ledger \in Books /\ revision \in Nat /\ Past
<1>1. \A i \in 1..Len(ledger) : ledger[i].turn \in Nat
  BY DEF BookInv, Books, PreferenceEvent, EventRecord
<1> QED  BY <1>1 DEF BookInv, Past, Now

\* The ledger that a turn ends with.
LEMMA BookGrows ==
    ASSUME BookInv, ledger' \in Grown, revision' = revision + 1
    PROVE  BookInv'
<1> DEFINE k == ledger'
<1>1. /\ k \in Books /\ Len(k) \in Nat /\ Len(ledger) \in Nat
      /\ \A i \in 1..Len(ledger) : k[i] = ledger[i]
      /\ \A i \in 1..Len(k) : i > Len(ledger) => IsOwn(k[i])
      /\ \A i \in 1..Len(ledger) : ledger[i].turn \in Nat
  BY DEF Grown, Books, BookInv, PreferenceEvent, EventRecord
<1>2. ASSUME NEW i \in 1..Len(k) PROVE k[i].turn <= revision + 1
  <2>1. CASE i \in 1..Len(ledger)
    BY <1>1, <2>1 DEF BookInv
  <2>2. CASE i \notin 1..Len(ledger)
    <3>1. IsOwn(k[i])
      BY <1>1, <2>2
    <3> QED  BY <3>1 DEF IsOwn, BookInv
  <2> QED  BY <2>1, <2>2
<1> QED  BY <1>1, <1>2 DEF BookInv

\* What else a turn collects is no hint.
LEMMA CollectedKeepsHints ==
    ASSUME ledger \in Books, revision \in Nat, Past, NEW m \in Messages, NEW l, Worded(l)
    PROVE  LET k == Collected(l, m)
           IN  /\ k \in Grown
               /\ \A x : x.concept \in Hints =>
                     /\ x \in Noted(k) <=> x \in Noted(l)
                     /\ x \in InForce(k) <=> x \in InForce(l)
<1> DEFINE k == Collected(l, m)
           N == News(l, m.names)
<1>1. /\ k \in Grown
      /\ \A x : ~IsUse(x) => (x \in Noted(k) <=> x \in Noted(l) \/ \E w \in N : x = Stated(w))
      /\ \A x : ~IsUse(x) =>
            (x \in InForce(k) <=> \/ x \in InForce(l) /\ \A w \in N : w.concept # x.concept
                                  \/ \E w \in N : x = Stated(w))
  BY CollectedIs DEF Worded
<1>2. \A w \in N : w.concept \notin Hints /\ Stated(w).concept = w.concept
  BY SayableCanBeStated, StatedIsOwn DEF News, CanBeStated
<1>3. \A x : x.concept \in Hints => ~IsUse(x)
  BY HintsAreConcepts DEF IsUse
<1> HIDE DEF k, N
<1> QED  BY <1>1, <1>2, <1>3 DEF k

\* A weak signal is a hint's; a hint's other events are confirmations.
LEMMA HintEvents ==
    ASSUME NEW l \in Books, NEW x \in Noted(l)
    PROVE  /\ x.strength = "WEAK_SIGNAL" => x.concept \in Hints /\ x.turn \in Nat
           /\ x.concept \in Hints /\ x.strength # "WEAK_SIGNAL" => x.strength = "CONFIRMED_STRONG"
BY ForceIsNoted DEF WellFormed, PreferenceEvent, EventRecord

\* A turn that collects from l and leaves question p open.
LEMMA TurnKeeps ==
    ASSUME LedgerInv, NEW m \in Messages, NEW l, Worded(l),
           EndTurn(m, Collected(l, m)),
           AgreedIsInForce(l),
           pending' \in [concept : Hints, turn : Nat] \cup {Nothing},
           pending' # Nothing => Waits(l, pending')
    PROVE  LedgerInv'
<1> DEFINE k == Collected(l, m)
<1>1. /\ ledger \in Books /\ revision \in Nat /\ Past
  BY BookPast DEF LedgerInv
<1>2. /\ k \in Grown
      /\ \A x : x.concept \in Hints =>
            /\ x \in Noted(k) <=> x \in Noted(l)
            /\ x \in InForce(k) <=> x \in InForce(l)
  BY <1>1, CollectedKeepsHints
<1>3. ledger' = k /\ revision' = revision + 1
  BY DEF EndTurn
<1> HIDE DEF k
<1>4. BookInv'
  BY <1>2, <1>3, BookGrows DEF LedgerInv
<1>5. AgreedIsInForce(k)
  BY <1>2 DEF AgreedIsInForce
<1>6. pending' # Nothing => Waits(k, pending')
  BY <1>2, NothingIsNew DEF Waits
<1>7. QuestionInv'
  BY <1>3, <1>5, <1>6 DEF QuestionInv
<1> QED  BY <1>4, <1>7 DEF LedgerInv

(***************************************************************************)
(* Each turn keeps the invariant.                                          *)
(***************************************************************************)
\* Ledgers with the same hints.
SameHints(k, l) ==
    \A x : x.concept \in Hints => /\ x \in Noted(k) <=> x \in Noted(l)
                                  /\ x \in InForce(k) <=> x \in InForce(l)

\* A message's statements leave the hints alone.
LEMMA StatementsKeepHints ==
    ASSUME ledger \in Books, revision \in Nat, Past, NEW m \in Messages, NEW resolved \in BOOLEAN
    PROVE  Worded(Statements(m, resolved)) /\ SameHints(Statements(m, resolved), ledger)
<1> DEFINE l == Statements(m, resolved)
           H == MessageEvents(m, resolved)
<1>1. /\ Worded(l) /\ Noted(l) = Noted(ledger) \cup H
      /\ \A x : x \in InForce(l) <=>
            \/ x \in H
            \/ x \in InForce(ledger) /\ ~TakenBack(m, x) /\ \A e \in H : ~SameKey(e, x)
  BY StatementsIs
<1>2. \A e \in H : e.concept \notin Hints
  BY MessageEventsAre
<1> HIDE DEF l, H
<1>3. ASSUME NEW x, x.concept \in Hints
      PROVE  x \notin H /\ ~TakenBack(m, x) /\ \A e \in H : ~SameKey(e, x)
  <2>1. m.frees \subseteq {"bodyStyle", "fuelType", "transmission"}
    BY MessagesAssumption
  <2> QED  BY <1>2, <1>3, <2>1, HintsAreNotStated DEF TakenBack, SameKey, IsEquipment
<1> QED  BY <1>1, <1>3 DEF SameHints, l

\* Open questions stay open, and hints in force stay in force, when a turn
\* changes no hint.
LEMMA SameHintsKeep ==
    ASSUME NEW k, NEW l, SameHints(k, l)
    PROVE  /\ AgreedIsInForce(l) => AgreedIsInForce(k)
           /\ \A p : p.concept \in Hints /\ Waits(l, p) => Waits(k, p)
<1>1. AgreedIsInForce(l) => AgreedIsInForce(k)
  BY DEF AgreedIsInForce, SameHints
<1>2. \A p : p.concept \in Hints /\ Waits(l, p) => Waits(k, p)
  BY DEF Waits, SameHints
<1> QED  BY <1>1, <1>2

\* The hint in question waits for its answer.
LEMMA QuestionWaits ==
    ASSUME QuestionInv, pending # Nothing
    PROVE  pending.concept \in Hints /\ pending.turn \in Nat /\ Waits(ledger, pending)
BY DEF QuestionInv

\* A yes meets a hint that waits, and puts it in force.
LEMMA ConfirmKeeps ==
    ASSUME LedgerInv, NEW k, Worded(k), SameHints(k, ledger), pending # Nothing
    PROVE  /\ Source(k) # 0
           /\ Worded(Confirm(k)) /\ AgreedIsInForce(Confirm(k))
           /\ Noted(Confirm(k)) = Noted(k) \cup {ConfirmedHint(pending.concept)}
<1> DEFINE c == pending.concept
           l == Confirm(k)
           e == ConfirmedHint(c)
<1>1. /\ ledger \in Books /\ revision \in Nat /\ Past
      /\ c \in Hints /\ Waits(ledger, pending) /\ AgreedIsInForce(ledger)
  BY BookPast, QuestionWaits DEF LedgerInv, QuestionInv
<1>2. Waits(k, pending) /\ AgreedIsInForce(k) /\ k \in Books
  BY <1>1, SameHintsKeep DEF Worded, Grown
<1>3. Source(k) # 0
  BY <1>2, SourceIs DEF Waits
<1>4. /\ Worded(l) /\ Noted(l) = Noted(k) \cup {e}
      /\ InForce(l) = {x \in InForce(k) : x.concept # c} \cup {e}
  BY <1>1, <1>3, ConfirmIs
<1> HIDE DEF l, e
<1>5. AgreedIsInForce(l)
  BY <1>2, <1>4 DEF AgreedIsInForce, Waits
<1> QED  BY <1>3, <1>4, <1>5 DEF l, e

\* New hints wait for their question.
LEMMA NoticeKeeps ==
    ASSUME ledger \in Books, revision \in Nat, NEW l, Worded(l), AgreedIsInForce(l),
           NEW m, NEW resolved
    PROVE  LET k == Notice(m, l, resolved)
               p == AskFirst(m, l, resolved)
           IN  /\ Worded(k) /\ AgreedIsInForce(k)
               /\ p \in [concept : Hints, turn : Nat] \cup {Nothing}
               /\ p # Nothing => Waits(k, p)
<1> DEFINE k == Notice(m, l, resolved)
           p == AskFirst(m, l, resolved)
           N == NewHints(m, l, resolved)
<1>1. l \in Books /\ l \in Grown /\ Settled(l)
  BY DEF Worded, Grown
<1>2. /\ k \in Grown /\ Settled(k)
      /\ Noted(k) = Noted(l) \cup {Weak(h) : h \in N}
      /\ InForce(k) = InForce(l) \cup {Weak(h) : h \in N}
  BY <1>1, NoticeIs
<1>3. \A h \in N : h \in Hints /\ \A x \in Noted(l) : x.concept # h
  BY <1>1, NotSeenIs DEF NewHints, IsNew
<1>4. \/ p = Nothing
      \/ \E h \in N : p = [concept |-> h, turn |-> revision + 1]
  BY AskFirstIs
<1>5. \A h \in Hints : /\ Weak(h).turn = revision + 1 /\ Weak(h).strength = "WEAK_SIGNAL"
                       /\ Weak(h).concept = h /\ ~IsUse(Weak(h))
  BY WeakIsOwn, HintsAreConcepts DEF Now, IsUse
<1> HIDE DEF k, p, N
<1>6. OwnUses(k) = OwnUses(l)
  BY <1>2, <1>3, <1>5 DEF OwnUses, Own
<1>7. Worded(k)
  BY <1>2, <1>6 DEF Worded
<1>8. AgreedIsInForce(k)
  BY <1>2, <1>3, <1>5 DEF AgreedIsInForce
<1>9. p \in [concept : Hints, turn : Nat] \cup {Nothing}
  BY <1>3, <1>4
<1>10. ASSUME NEW h \in N, p = [concept |-> h, turn |-> revision + 1] PROVE Waits(k, p)
  <2>1. Weak(h) \in Noted(k)
    BY <1>2
  <2>2. \A x \in Noted(k) : x.concept = h => x.strength = "WEAK_SIGNAL"
    BY <1>2, <1>3, <1>5
  <2> QED  BY <1>3, <1>5, <1>10, <2>1, <2>2 DEF Waits
<1> QED  BY <1>4, <1>7, <1>8, <1>9, <1>10 DEF k, p

\* No hint can be freed.
LEMMA FreedAreNotHints ==
    ASSUME NEW m \in Messages PROVE m.frees \cap Hints = {}
BY MessagesAssumption, HintsAreNotStated

\* Freeing concepts leaves the hints alone.
LEMMA LoosenedKeepsHints ==
    ASSUME ledger \in Books, revision \in Nat, Past, NEW m \in Messages
    PROVE  Worded(Loosened(m)) /\ SameHints(Loosened(m), ledger)
BY LoosenedIs, NothingOwn, FreedAreNotHints DEF SameHints

\* Giving up the brand.
LEMMA RelaxBrandKeeps ==
    ASSUME LedgerInv, NEW m \in Messages, RelaxBrand(m) PROVE LedgerInv'
<1> DEFINE l == ClearActive(Loosened(m), "brandPreference")
<1>1. /\ ledger \in Books /\ revision \in Nat /\ Past
      /\ AgreedIsInForce(ledger)
      /\ pending \in [concept : Hints, turn : Nat] \cup {Nothing}
  BY BookPast DEF LedgerInv, QuestionInv
<1>2. /\ Worded(l) /\ Noted(l) = Noted(ledger)
      /\ InForce(l) = {x \in InForce(ledger) : x.concept \notin m.frees \cup {"brandPreference"}}
  BY <1>1, GivenUpIs
<1>3. EndTurn(m, Collected(l, m)) /\ pending' = pending
  BY DEF RelaxBrand
<1> HIDE DEF l
<1>4. SameHints(l, ledger)
  BY <1>2, FreedAreNotHints, HintsAreNotStated DEF SameHints
<1>5. AgreedIsInForce(l) /\ (pending # Nothing => Waits(l, pending))
  BY <1>1, <1>4, SameHintsKeep, QuestionWaits DEF LedgerInv
<1> QED  BY <1>1, <1>2, <1>3, <1>5, TurnKeeps

\* A yes to the question.
LEMMA ConfirmPendingKeeps ==
    ASSUME LedgerInv, NEW m \in Messages, ConfirmPending(m) PROVE LedgerInv'
<1> DEFINE l == Confirm(Loosened(m))
<1>1. ledger \in Books /\ revision \in Nat /\ Past
  BY BookPast DEF LedgerInv
<1>2. /\ pending # Nothing /\ EndTurn(m, Collected(l, m))
      /\ pending' = NextWeakConfirmation(l, pending.concept)
  BY DEF ConfirmPending, Answers
<1>3. Worded(l) /\ AgreedIsInForce(l)
  BY <1>1, <1>2, LoosenedKeepsHints, ConfirmKeeps
<1> HIDE DEF l
<1>4. l \in Books
  BY <1>3 DEF Worded, Grown
<1>5. CASE pending' = Nothing
  BY <1>2, <1>3, <1>5, TurnKeeps
<1>6. CASE pending' # Nothing
  <2>1. PICK x \in Noted(l) : /\ x.strength = "WEAK_SIGNAL" /\ ~IsConfirmed(l, x.concept)
                              /\ pending' = [concept |-> x.concept, turn |-> x.turn]
    BY <1>2, <1>4, <1>6, NextWeakIs
  <2>2. x.concept \in Hints /\ x.turn \in Nat
    BY <1>4, <2>1, HintEvents
  <2>3. Waits(l, pending')
    BY <1>4, <2>1, IsConfirmedIs DEF Waits
  <2> QED  BY <1>2, <1>3, <2>1, <2>2, <2>3, TurnKeeps
<1> QED  BY <1>5, <1>6

\* A no to the question.
LEMMA RejectPendingKeeps ==
    ASSUME LedgerInv, NEW m \in Messages, RejectPending(m) PROVE LedgerInv'
<1> DEFINE k == Loosened(m)
           l == End(k, Source(k), "REJECTED")
<1>1. ledger \in Books /\ revision \in Nat /\ Past /\ pending # Nothing
  BY BookPast DEF LedgerInv, RejectPending, Answers
<1>2. /\ pending.concept \in Hints /\ Waits(ledger, pending) /\ AgreedIsInForce(ledger)
  BY <1>1, QuestionWaits DEF LedgerInv, QuestionInv
<1>3. Source(k) # 0
  BY <1>1, LoosenedKeepsHints, ConfirmKeeps
<1>4. EndTurn(m, Collected(l, m)) /\ pending' = Nothing
  BY <1>3 DEF RejectPending
<1>5. /\ Worded(l) /\ Noted(l) = Noted(ledger)
      /\ InForce(l) = {x \in InForce(ledger) : x.concept \notin m.frees \cup {pending.concept}}
  BY <1>1, <1>2, <1>3, RefusedIs
<1> HIDE DEF k, l
<1>6. AgreedIsInForce(l)
  BY <1>2, <1>5, FreedAreNotHints DEF AgreedIsInForce, Waits
<1> QED  BY <1>4, <1>5, <1>6, TurnKeeps

\* An answer about the running costs.
LEMMA SettleCostsKeeps ==
    ASSUME LedgerInv, NEW m \in Messages, SettleCosts(m) PROVE LedgerInv'
<1>1. /\ ledger \in Books /\ revision \in Nat /\ Past
      /\ AgreedIsInForce(ledger)
  BY BookPast DEF LedgerInv, QuestionInv
<1>2. PICK s \in {"EXPLICIT_STRONG", "CONFIRMED_STRONG"} :
         EndTurn(m, Collected(SupersedeActive(Loosened(m), Event(TotalCost, s)), m)) /\ pending' = Nothing
  BY DEF SettleCosts
<1> DEFINE e == Event(TotalCost, s)
           l == SupersedeActive(Loosened(m), e)
<1>3. /\ e.concept = TotalCost.concept /\ e.concept \notin Budgets \cup Hints
      /\ Worded(l) /\ Noted(l) = Noted(ledger) \cup {e}
      /\ InForce(l) = {x \in InForce(ledger) : x.concept \notin m.frees \cup {TotalCost.concept}} \cup {e}
  BY <1>1, CostIs
<1> HIDE DEF l, e
<1>4. AgreedIsInForce(l)
  BY <1>1, <1>3, FreedAreNotHints DEF AgreedIsInForce
<1> QED  BY <1>2, <1>3, <1>4, TurnKeeps DEF l, e

\* What a turn settles before it looks for hints, and the question it leaves.
LEMMA ListenKeeps ==
    ASSUME LedgerInv, NEW m \in Messages, Listen(m) PROVE LedgerInv'
<1> DEFINE resolved == OnCosts(m, {"running"})
           open     == pending # Nothing /\ ~resolved
           said     == Statements(m, resolved)
           repeated == open /\ pending.concept \in m.hints /\ Source(said) # 0
           settled  == IF repeated THEN Confirm(said) ELSE said
           still    == open /\ ~repeated
           noticed  == IF still THEN settled ELSE Notice(m, settled, resolved)
<1>1. /\ ledger \in Books /\ revision \in Nat /\ Past
      /\ AgreedIsInForce(ledger)
      /\ pending \in [concept : Hints, turn : Nat] \cup {Nothing}
  BY BookPast DEF LedgerInv, QuestionInv
<1>2. /\ EndTurn(m, Collected(noticed, m))
      /\ pending' = IF still THEN pending ELSE AskFirst(m, settled, resolved)
  BY DEF Listen
<1>3. resolved \in BOOLEAN
  BY DEF OnCosts, Answers
<1> HIDE DEF resolved
<1>4. Worded(said) /\ SameHints(said, ledger)
  BY <1>1, <1>3, StatementsKeepHints
<1> HIDE DEF said
<1>5. AgreedIsInForce(said) /\ (pending # Nothing => Waits(said, pending))
  BY <1>1, <1>4, SameHintsKeep, QuestionWaits DEF LedgerInv
<1>6. Worded(settled) /\ AgreedIsInForce(settled)
  BY <1>4, <1>5, ConfirmKeeps
<1>7. CASE still
  BY <1>1, <1>2, <1>4, <1>5, <1>7, TurnKeeps
<1>8. CASE ~still
  <2> DEFINE k == Notice(m, settled, resolved)
             p == AskFirst(m, settled, resolved)
  <2>1. /\ Worded(k) /\ AgreedIsInForce(k)
        /\ p \in [concept : Hints, turn : Nat] \cup {Nothing}
        /\ p # Nothing => Waits(k, p)
    <3> HIDE DEF settled
    <3> QED  BY <1>1, <1>6, NoticeKeeps
  <2>2. EndTurn(m, Collected(k, m)) /\ pending' = p
    BY <1>2, <1>8
  <2> HIDE DEF k, p
  <2> QED  BY <2>1, <2>2, TurnKeeps
<1> QED  BY <1>7, <1>8

\* A message that says nothing about a car.
LEMMA ChatKeeps ==
    ASSUME LedgerInv, NEW m \in Idle, Chat(m) PROVE LedgerInv'
<1>1. ledger' = ledger /\ revision' = revision + 1 /\ pending' = pending
  BY DEF Chat, EndTurn
<1>2. \A i \in 1..Len(ledger) : ledger[i].turn \in Nat
  BY DEF LedgerInv, BookInv, Books, PreferenceEvent, EventRecord
<1>3. BookInv'
  BY <1>1, <1>2 DEF LedgerInv, BookInv
<1>4. QuestionInv'
  BY <1>1 DEF LedgerInv, QuestionInv
<1> QED  BY <1>3, <1>4 DEF LedgerInv

\* An empty ledger keeps the invariant.
LEMMA LedgerBegins == ASSUME LedgerInit PROVE LedgerInv
<1>1. ledger = <<>> /\ pending = Nothing /\ revision = 0
  BY DEF LedgerInit
<1>2. Noted(ledger) = {}
  BY <1>1 DEF Noted
<1> QED  BY <1>1, <1>2 DEF LedgerInv, BookInv, QuestionInv, Books, AgreedIsInForce

\* Every turn keeps it.
LEMMA LedgerSteps == ASSUME LedgerInv, [LedgerNext]_ledgerVars PROVE LedgerInv'
<1>1. CASE LedgerNext
  BY <1>1, RelaxBrandKeeps, ConfirmPendingKeeps, RejectPendingKeeps, SettleCostsKeeps,
     ListenKeeps, ChatKeeps DEF LedgerNext
<1>2. CASE UNCHANGED ledgerVars
  BY <1>2 DEF ledgerVars, LedgerInv, BookInv, QuestionInv
<1> QED  BY <1>1, <1>2

\* The invariant implies that the question is open.
LEMMA QuestionFollows == ASSUME LedgerInv PROVE QuestionIsOpen
<1>1. ledger \in Books
  BY DEF LedgerInv, BookInv
<1>2. pending # Nothing => Waits(ledger, pending)
  BY DEF LedgerInv, QuestionInv
<1> QED  BY <1>1, <1>2, SourceIs, IsConfirmedIs DEF Waits, QuestionIsOpen

\* Whenever the conversation waits for an answer about a hint, the weak signal
\* that it asked about is in the ledger and was not confirmed since, so that
\* the answer is applied to it: conversation.ts reads pendingConfirmation and
\* ledger.ts looks its event up, in a turn of its own, after any number of turns.
THEOREM QuestionStaysOpen == LedgerSpec => []QuestionIsOpen
<1>1. LedgerSpec => []LedgerInv
  BY LedgerBegins, LedgerSteps, PTL DEF LedgerSpec
<1> QED  BY <1>1, QuestionFollows, PTL

(***************************************************************************)
(* The ledger read as wishes.                                              *)
(***************************************************************************)
WishOf(x) == Wish(x.concept, x.value, x.use)
Deciding(l) == {x \in InForce(l) : x.strength # "WEAK_SIGNAL"}
Decisions(l) == {WishOf(x) : x \in Deciding(l)}

\* The fields of a wish.
LEMMA WishFields ==
    ASSUME NEW c, NEW v, NEW u
    PROVE  Wish(c, v, u).concept = c /\ Wish(c, v, u).value = v /\ Wish(c, v, u).use = u
BY DEF Wish

\* The wish of an event has the event's fields.
LEMMA WishOfFields ==
    ASSUME NEW x
    PROVE  WishOf(x).concept = x.concept /\ WishOf(x).value = x.value /\ WishOf(x).use = x.use
BY WishFields DEF WishOf

\* activeDecisionPreferences() returns the wishes of the deciding events.
LEMMA DecisionsAre ==
    ASSUME NEW l \in Books PROVE ActiveDecisionPreferences(l) = Decisions(l)
<1>1. \A i \in Terminal(l) :
         /\ l[i] \in InForce(l)
         /\ l[i].strength \in {"EXPLICIT_STRONG", "CONFIRMED_STRONG", "WEAK_SIGNAL"}
         /\ l[i].strength # "WEAK_SIGNAL" => l[i].use \in {"HARD_FILTER", "SOFT_RANK"}
         /\ l[i].strength = "WEAK_SIGNAL" => l[i].use = "QUESTION_INPUT"
  <2>1. \A i \in Terminal(l) : l[i] \in InForce(l)
    BY DEF InForce
  <2>2. \A x \in InForce(l) : /\ WellFormed(x.concept, x.value, x.use, x.strength)
                              /\ x.strength \in {"EXPLICIT_STRONG", "CONFIRMED_STRONG", "WEAK_SIGNAL"}
    BY ForceIsNoted DEF PreferenceEvent, EventRecord
  <2> QED  BY <2>1, <2>2 DEF WellFormed
<1>2. \A w \in ActiveDecisionPreferences(l) : w \in Decisions(l)
  BY <1>1 DEF ActiveDecisionPreferences, Decisions, Deciding, WishOf
<1>3. \A w \in Decisions(l) : w \in ActiveDecisionPreferences(l)
  <2> TAKE w \in Decisions(l)
  <2>1. PICK i \in Terminal(l) : w = WishOf(l[i]) /\ l[i].strength # "WEAK_SIGNAL"
    BY DEF Decisions, Deciding, InForce
  <2> QED  BY <1>1, <2>1 DEF ActiveDecisionPreferences, WishOf
<1> QED  BY <1>2, <1>3

\* What decides about a concept other than a hint is what is in force.
LEMMA ForceDecides ==
    ASSUME NEW l \in Books, NEW x \in InForce(l), x.concept \notin Hints
    PROVE  x \in Deciding(l) /\ WishOf(x) \in Decisions(l)
BY ForceIsNoted DEF Deciding, Decisions, WellFormed

\* A concept that is no hint has an event in force when it decides.
LEMMA LatestAre ==
    ASSUME NEW l \in Books, NEW c, c \notin Hints
    PROVE  LatestActive(l, c) # {} <=> \E w \in Decisions(l) : w.concept = c
<1>1. LatestActive(l, c) # {} <=> \E x \in InForce(l) : x.concept = c
  BY DEF LatestActive, InForce
<1>2. (\E x \in InForce(l) : x.concept = c) <=> \E w \in Decisions(l) : w.concept = c
  BY ForceDecides, WishOfFields DEF Decisions, Deciding
<1> QED  BY <1>1, <1>2

\* The buyer meant loads before when goods were spoken of or that use decides.
LEMMA LoadsAre ==
    ASSUME ledger \in Books
    PROVE  /\ MeantLoads <=> cargo \/ Use("COMMERCIAL") \in Decisions(ledger)
           /\ MeantLoads <=> Wishes!MeantLoads
<1>1. MeantLoads <=> cargo \/ \E x \in InForce(ledger) : IsUse(x) /\ x.value = "COMMERCIAL"
  BY DEF MeantLoads, LatestActive, InForce, IsUse
<1>2. ASSUME NEW x \in InForce(ledger), IsUse(x), x.value = "COMMERCIAL"
      PROVE  Use("COMMERCIAL") \in Decisions(ledger)
  <2>1. x.use = "HARD_FILTER" /\ x.concept = "primaryUsage" /\ x.concept \notin Hints
    BY <1>2, ForceIsNoted, HintsAreConcepts DEF WellFormed, IsUse
  <2>2. WishOf(x) = Use("COMMERCIAL")
    BY <1>2, <2>1 DEF WishOf, Use
  <2> QED  BY <2>1, <2>2, ForceDecides
<1>3. ASSUME Use("COMMERCIAL") \in Decisions(ledger)
      PROVE  \E x \in InForce(ledger) : IsUse(x) /\ x.value = "COMMERCIAL"
  <2>1. PICK x \in InForce(ledger) : WishOf(x) = Use("COMMERCIAL")
    BY <1>3 DEF Decisions, Deciding
  <2>2. x.concept = "primaryUsage" /\ x.value = "COMMERCIAL"
    BY <2>1, WishOfFields, WishFields DEF Use
  <2> QED  BY <2>2 DEF IsUse
<1>4. Wishes!CommercialUse = Use("COMMERCIAL")
  BY DEF Wishes!CommercialUse, Wishes!Wish, Use, Wish
<1>5. Wishes!MeantLoads <=> cargo \/ Use("COMMERCIAL") \in Decisions(ledger)
  BY <1>4, DecisionsAre DEF Wishes!MeantLoads
<1> QED  BY <1>1, <1>2, <1>3, <1>5

\* The search criteria depend on the deciding wishes and the budget mode only.
LEMMA CriteriaAre ==
    ASSUME NEW l \in Books, NEW md
    PROVE  ProjectDecision(l, md) = Wishes!CriteriaOf(Decisions(l), md)
<1>1. ProjectDecision(l, md) =
         {w \in Decisions(l) : w.concept \notin {"equipmentFeature"} \cup EquipmentHints \cup Budgets}
         \cup {Wish("budgetMax", x.value, "HARD_FILTER") :
                 x \in {y \in InForce(l) : y.concept = "budgetMax" /\ md = "filter"}}
  <2> DEFINE A == {Wish("budgetMax", l[i].value, "HARD_FILTER") :
                     i \in {j \in LatestActive(l, "budgetMax") : md = "filter"}}
             B == {Wish("budgetMax", x.value, "HARD_FILTER") :
                     x \in {y \in InForce(l) : y.concept = "budgetMax" /\ md = "filter"}}
  <2>1. \A w \in A : w \in B
    BY DEF LatestActive, InForce
  <2>2. \A w \in B : w \in A
    BY DEF LatestActive, InForce
  <2>3. ActiveDecisionPreferences(l) = Decisions(l)
    BY DecisionsAre
  <2> HIDE DEF A, B
  <2>4. A = B
    BY <2>1, <2>2
  <2> QED  BY <2>3, <2>4 DEF ProjectDecision, A, B
<1>2. \A x \in InForce(l) : x.concept = "budgetMax" =>
         WishOf(x) = Wish("budgetMax", x.value, "HARD_FILTER") /\ WishOf(x) \in Decisions(l)
  <2> TAKE x \in InForce(l)
  <2> HAVE x.concept = "budgetMax"
  <2>1. x.use = "HARD_FILTER" /\ x.concept \notin Hints
    BY ForceIsNoted, HintsAreConcepts DEF WellFormed, Budgets
  <2> QED  BY <2>1, ForceDecides DEF WishOf
<1>3. \A w \in Decisions(l) : \E x \in InForce(l) : w = WishOf(x) /\ w.concept = x.concept
  BY WishOfFields DEF Decisions, Deciding
<1> DEFINE C == {Wish("budgetMax", x.value, "HARD_FILTER") :
                   x \in {y \in InForce(l) : y.concept = "budgetMax" /\ md = "filter"}}
           D == {w \in Decisions(l) : w.concept = "budgetMax" /\ md = "filter"}
<1>4. \A w \in C : w \in D
  BY <1>2, WishFields
<1>5. \A w \in D : w \in C
  BY <1>2, <1>3
<1> HIDE DEF C, D
<1>6. C = D
  BY <1>4, <1>5
<1>7. D = {w \in Wishes!About(Decisions(l), "budgetMax") : md = "filter"}
  BY DEF D, Wishes!About
<1> QED  BY <1>1, <1>6, <1>7 DEF Wishes!CriteriaOf, Wishes!Without, Wishes!Budgets, Budgets, C

(***************************************************************************)
(* What a turn collects, in terms of wishes.                               *)
(***************************************************************************)
NewNames(m, heard) ==
    {n \in m.names : \A w \in heard : w.concept = n.concept => w.value # n.value}

\* A ledger l that says W and what was heard in the message.
Says(m, l, W, heard) ==
    /\ \A w : w.concept # "primaryUsage" =>
          (w \in Decisions(l) <=> w \in Wishes!Replace(W, heard))
    /\ \A n \in m.names :
          Repeats(l, Stated(n)) <=> \E w \in heard : w.concept = n.concept /\ w.value = n.value
    /\ \A w : w.concept = "primaryUsage" =>
          /\ w \in W <=> w \in Decisions(ledger)
          /\ w \in heard <=> \E x \in OwnUses(l) \ Taken(m, l) : w = WishOf(x)

\* Membership in a set of wishes of which some were replaced.
LEMMA ReplaceIs ==
    ASSUME NEW W, NEW new, NEW w
    PROVE  w \in Wishes!Replace(W, new) <=>
              \/ w \in new
              \/ /\ w \in W
                 /\ \A v \in new : v.concept = w.concept =>
                       v.concept = "equipmentFeature" /\ v.value # w.value
BY DEF Wishes!Replace, Wishes!Compete

\* What the catalogue and the use add, in the ledger and among the wishes.
LEMMA RecognisedIs ==
    ASSUME ledger \in Books, NEW m \in Messages, NEW l, NEW W, NEW heard, Says(m, l, W, heard), NEW w
    PROVE  w \in Wishes!Recognised(m, heard) <=>
              w \in NewNames(m, heard) \/ (TakesUsage(m, l) /\ w = Use(m.usage))
<1>1. Wishes!CommercialUse = Use("COMMERCIAL")
  BY DEF Wishes!CommercialUse, Wishes!Wish, Use, Wish
<1>2. Wishes!Wish("primaryUsage", m.usage, "HARD_FILTER") = Use(m.usage)
  BY DEF Wishes!Wish, Use, Wish
<1>3. Rejects(m) <=> m.disowns /\ ~Wishes!MeantLoads
  BY LoadsAre DEF Rejects
<1>4. NoUseHeard(m, l) <=> Wishes!About(heard, "primaryUsage") = {}
  <2>1. Wishes!About(heard, "primaryUsage") = {} <=> \A v \in heard : v.concept # "primaryUsage"
    BY DEF Wishes!About
  <2>2. \A x \in OwnUses(l) : WishOf(x).concept = "primaryUsage"
    BY WishOfFields DEF OwnUses, IsUse
  <2> QED  BY <2>1, <2>2 DEF NoUseHeard, Says
<1>5. Use(m.usage) = Use("COMMERCIAL") <=> m.usage = "COMMERCIAL"
  BY WishFields DEF Use
<1>6. Use(m.usage) \in Wishes!Meant(m, {Use(m.usage)}) <=> ~(Rejects(m) /\ m.usage = "COMMERCIAL")
  BY <1>1, <1>3, <1>5 DEF Wishes!Meant
<1>7. \A v \in Wishes!Meant(m, {Use(m.usage)}) : v = Use(m.usage)
  BY DEF Wishes!Meant
<1>8. Wishes!Recognised(m, heard) =
         NewNames(m, heard) \cup {v \in Wishes!Meant(m, {Use(m.usage)}) :
                                     m.usage # Nothing /\ Wishes!About(heard, "primaryUsage") = {}}
  BY <1>2 DEF Wishes!Recognised, NewNames
<1> HIDE DEF Use
<1> QED  BY <1>4, <1>6, <1>7, <1>8 DEF TakesUsage

\* What a turn collects replaces wishes as the buyer's account says it does.
LEMMA CollectedDecides ==
    ASSUME ledger \in Books, revision \in Nat, Past, NEW m \in Messages, NEW l, Worded(l),
           NEW W, NEW heard, Says(m, l, W, heard)
    PROVE  Decisions(Collected(l, m)) =
               Wishes!Replace(Wishes!Replace(W, heard), Wishes!Recognised(m, heard))
<1> DEFINE k == Collected(l, m)
           N == NewNames(m, heard)
           V == Wishes!Replace(W, heard)
           R == Wishes!Recognised(m, heard)
<1>1. News(l, m.names) = N
  BY DEF News, NewNames, Says
<1>2. /\ k \in Grown /\ l \in Grown /\ k \in Books /\ l \in Books
      /\ \A x : ~IsUse(x) =>
            (x \in InForce(k) <=> \/ x \in InForce(l) /\ \A w \in N : w.concept # x.concept
                                  \/ \E w \in N : x = Stated(w))
      /\ \A x : IsUse(x) =>
            (x \in InForce(k) <=> IF TakesUsage(m, l) THEN x = Stated(Use(m.usage))
                                                      ELSE UseBefore(m, l, x))
  BY <1>1, CollectedIs DEF Worded, Grown
<1>3. \A w \in N : /\ WishOf(Stated(w)) = w /\ Stated(w).strength = "EXPLICIT_STRONG"
                   /\ Stated(w).concept = w.concept
                   /\ w.concept # "primaryUsage" /\ w.concept # "equipmentFeature"
  BY SayableCanBeStated, StatedIsOwn DEF NewNames, CanBeStated, WishOf
<1>4. \A w : w \in R <=> w \in N \/ (TakesUsage(m, l) /\ w = Use(m.usage))
  BY RecognisedIs
<1>5. Use(m.usage).concept = "primaryUsage"
  BY WishFields DEF Use
<1> HIDE DEF k, N, R
<1>6. ASSUME NEW w, w.concept # "primaryUsage"
      PROVE  w \in Decisions(k) <=> w \in Wishes!Replace(V, R)
  <2>1. w \in Decisions(k) <=> \/ w \in N
                               \/ w \in Decisions(l) /\ \A n \in N : n.concept # w.concept
    <3>1. \A x : WishOf(x) = w => ~IsUse(x) /\ x.concept = w.concept
      BY <1>6, WishOfFields DEF IsUse
    <3>2. w \in Decisions(k) <=> \E x : x \in InForce(k) /\ x.strength # "WEAK_SIGNAL" /\ WishOf(x) = w
      BY DEF Decisions, Deciding
    <3>3. w \in Decisions(l) <=> \E x : x \in InForce(l) /\ x.strength # "WEAK_SIGNAL" /\ WishOf(x) = w
      BY DEF Decisions, Deciding
    <3>4. w \in N => Stated(w) \in InForce(k)
      BY <1>2, <1>3 DEF IsUse
    <3>5. ASSUME NEW x \in InForce(k), x.strength # "WEAK_SIGNAL", WishOf(x) = w
          PROVE  w \in N \/ (w \in Decisions(l) /\ \A n \in N : n.concept # w.concept)
      BY <1>2, <1>3, <3>1, <3>3, <3>5
    <3>6. ASSUME NEW x \in InForce(l), x.strength # "WEAK_SIGNAL", WishOf(x) = w,
                 \A n \in N : n.concept # w.concept
          PROVE  w \in Decisions(k)
      BY <1>2, <3>1, <3>2, <3>6
    <3> QED  BY <1>3, <3>2, <3>3, <3>4, <3>5, <3>6
  <2>2. w \in Decisions(l) <=> w \in V
    BY <1>6 DEF Says
  <2>3. w \in Wishes!Replace(V, R) <=>
           \/ w \in R
           \/ /\ w \in V
              /\ \A v \in R : v.concept = w.concept => v.concept = "equipmentFeature" /\ v.value # w.value
    BY ReplaceIs
  <2> HIDE DEF V
  <2> QED  BY <1>3, <1>4, <1>5, <1>6, <2>1, <2>2, <2>3
<1>7. ASSUME NEW w, w.concept = "primaryUsage"
      PROVE  w \in Decisions(k) <=> w \in Wishes!Replace(V, R)
  <2>1. \A x : WishOf(x) = w => IsUse(x)
    BY <1>7, WishOfFields DEF IsUse
  <2>2. /\ w \in Decisions(k) <=> \E x \in InForce(k) : WishOf(x) = w
        /\ w \in Decisions(l) <=> \E x \in InForce(l) : WishOf(x) = w
        /\ w \in Decisions(ledger) <=> \E x \in InForce(ledger) : WishOf(x) = w
    <3>1. \A x : WishOf(x) = w => x.concept \notin Hints
      BY <1>7, WishOfFields, HintsAreNotStated
    <3> QED  BY <1>2, <3>1, ForceDecides DEF Decisions, Deciding
  <2>3. w \in Wishes!Replace(V, R) <=> w \in R \/ (w \in V /\ \A v \in R : v.concept # "primaryUsage")
    BY <1>7, ReplaceIs
  <2>4. w \in V <=> \/ w \in heard
                    \/ w \in Decisions(ledger) /\ \A v \in heard : v.concept # "primaryUsage"
    BY <1>7, ReplaceIs DEF Says
  <2> HIDE DEF V
  <2>5. CASE TakesUsage(m, l)
    <3>1. WishOf(Stated(Use(m.usage))) = Use(m.usage) /\ IsUse(Stated(Use(m.usage)))
      <4>1. m.usage # Nothing
        BY <2>5 DEF TakesUsage
      <4>2. CanBeStated(Use(m.usage))
        BY <4>1, SayableCanBeStated DEF Use
      <4> QED  BY <1>5, <4>2, StatedIsOwn DEF WishOf, IsUse, CanBeStated
    <3>2. w \in Decisions(k) <=> w = Use(m.usage)
      BY <1>2, <2>1, <2>2, <2>5, <3>1
    <3>3. w \in R <=> w = Use(m.usage)
      BY <1>3, <1>4, <1>7, <2>5
    <3> QED  BY <1>4, <1>5, <2>3, <2>5, <3>2, <3>3
  <2>6. CASE ~TakesUsage(m, l)
    <3>1. w \in Wishes!Replace(V, R) <=> w \in V
      BY <1>3, <1>4, <1>7, <2>3, <2>6
    <3>2. w \in Decisions(k) <=> \E x : IsUse(x) /\ UseBefore(m, l, x) /\ WishOf(x) = w
      BY <1>2, <2>1, <2>2, <2>6
    <3>3. OwnUses(l) \subseteq InForce(l) /\ \A x, y \in OwnUses(l) : x = y
      BY DEF Worded
    <3>4. Taken(m, l) \subseteq OwnUses(l)
      BY DEF Taken, Inferred, IsLoadInference, OwnUses, Own, IsUse, Now
    <3>5. \A v : v.concept = "primaryUsage" =>
             (v \in heard <=> \E x \in OwnUses(l) \ Taken(m, l) : v = WishOf(x))
      BY DEF Says
    <3>6. \A x \in OwnUses(l) : WishOf(x).concept = "primaryUsage" /\ IsUse(x)
      BY WishOfFields DEF OwnUses, IsUse
    <3>7. (\A v \in heard : v.concept # "primaryUsage") <=> OwnUses(l) \ Taken(m, l) = {}
      BY <3>5, <3>6
    <3>8. CASE OwnUses(l) \ Taken(m, l) = {}
      <4>1. w \in V <=> w \in Decisions(ledger)
        BY <1>7, <2>4, <3>5, <3>7, <3>8
      <4>2. \A x : IsUse(x) => (UseBefore(m, l, x) <=> x \in InForce(ledger))
        <5>1. Taken(m, l) = {} => OwnUses(l) = {}
          BY <3>8
        <5> QED  BY <1>2, <5>1, UsesRemain DEF UseBefore
      <4> QED  BY <2>1, <2>2, <3>1, <3>2, <4>1, <4>2
    <3>9. CASE OwnUses(l) \ Taken(m, l) # {}
      <4>1. Taken(m, l) = {}
        BY <3>3, <3>4, <3>9
      <4>2. \A x : IsUse(x) /\ x \in InForce(l) => x \in OwnUses(l)
        <5>1. PICK y \in OwnUses(l) : TRUE
          BY <3>9
        <5>2. \A x : IsUse(x) => SameKey(x, y)
          BY <5>1 DEF SameKey, OwnUses, IsUse, IsEquipment
        <5> QED  BY <1>2, <3>3, <5>1, <5>2, ForceIsNoted
      <4>3. w \in Decisions(k) <=> \E x \in OwnUses(l) : WishOf(x) = w
        BY <3>2, <3>3, <3>6, <4>1, <4>2 DEF UseBefore
      <4>4. w \in V <=> \E x \in OwnUses(l) : WishOf(x) = w
        BY <1>7, <2>4, <3>5, <3>7, <3>9, <4>1
      <4> QED  BY <3>1, <4>3, <4>4
    <3> QED  BY <3>8, <3>9
  <2> QED  BY <2>5, <2>6
<1>8. \A w : w \in Decisions(k) <=> w \in Wishes!Replace(V, R)
  BY <1>6, <1>7
<1> HIDE DEF V
<1> QED  BY <1>8 DEF k, V, R

(***************************************************************************)
(* Each turn is one of the buyer's.                                        *)
(***************************************************************************)
BuyerInv == LedgerInv /\ relaxBrand \in BOOLEAN

Hinted(l) == {h \in Hints : LastActive(l, {h}) # 0}
Asked == IF pending = Nothing THEN Nothing ELSE pending.concept

\* The hints that were ever noticed.
LEMMA HintedAre ==
    ASSUME NEW l \in Books PROVE Hinted(l) = {h \in Hints : \E x \in Noted(l) : x.concept = h}
BY NotSeenIs DEF Hinted

\* The question, in the ledger and in the buyer's account.
LEMMA AskedIs ==
    ASSUME LedgerInv
    PROVE  /\ pending = Nothing <=> Asked = Nothing
           /\ pending # Nothing => /\ Asked = pending.concept /\ Asked \in Hinted(ledger)
                                   /\ \A x \in Noted(ledger) : x.concept = Asked =>
                                         x.strength # "CONFIRMED_STRONG"
           /\ \A m, answers : Wishes!ToQuestion(m, answers) <=> Answers(m, answers)
<1>1. pending # Nothing => pending.concept \in Hints /\ Waits(ledger, pending)
  BY QuestionWaits DEF LedgerInv
<1>2. pending # Nothing => Asked = pending.concept /\ Asked \in Hints
  BY <1>1 DEF Asked
<1>3. pending = Nothing <=> Asked = Nothing
  BY <1>2, NothingIsNew DEF Asked
<1>4. ledger \in Books
  BY DEF LedgerInv, BookInv
<1>5. pending # Nothing => /\ Asked \in Hinted(ledger)
                           /\ \A x \in Noted(ledger) : x.concept = Asked => x.strength # "CONFIRMED_STRONG"
  BY <1>1, <1>2, <1>4, HintedAre DEF Waits
<1>6. ASSUME NEW m, NEW answers PROVE Wishes!ToQuestion(m, answers) <=> Answers(m, answers)
  <2>1. Wishes!ToQuestion(m, answers) <=> ~Wishes!ToBrand(m) /\ Asked # Nothing /\ m.answer \in answers
    BY DEF Wishes!ToQuestion, Asked
  <2>2. Wishes!ToBrand(m) <=> AcceptsRelaxation(m)
    BY DEF Wishes!ToBrand, AcceptsRelaxation
  <2> QED  BY <1>3, <2>1, <2>2 DEF Answers
<1> QED  BY <1>2, <1>3, <1>5, <1>6

\* The end of a turn that may offer to give up the brand.
LEMMA RelaxingIs ==
    ASSUME NEW m, NEW l \in Books, EndTurn(m, l)
    PROVE  /\ relaxBrand' \in BOOLEAN
           /\ relaxBrand' =>
                 /\ ~Wishes!ToBrand(m)
                 /\ \/ relaxBrand
                    \/ /\ Wishes!About(Decisions(l), "brandPreference") # {}
                       /\ Wishes!About(Decisions(l), "fuelType") # {}
<1>1. Wishes!ToBrand(m) <=> AcceptsRelaxation(m)
  BY DEF Wishes!ToBrand, AcceptsRelaxation
<1>2. /\ relaxBrand' \in BOOLEAN
      /\ relaxBrand' =>
            /\ ~AcceptsRelaxation(m)
            /\ \/ relaxBrand
               \/ LatestActive(l, "brandPreference") # {} /\ LatestActive(l, "fuelType") # {}
  BY DEF EndTurn, AskToRelax
<1>3. /\ LatestActive(l, "brandPreference") # {} => Wishes!About(Decisions(l), "brandPreference") # {}
      /\ LatestActive(l, "fuelType") # {} => Wishes!About(Decisions(l), "fuelType") # {}
  BY LatestAre, HintsAreNotStated DEF Wishes!About
<1> QED  BY <1>1, <1>2, <1>3

\* The end of a turn.
LEMMA TurnDecides ==
    ASSUME BuyerInv, NEW m \in Messages, NEW l, Worded(l), EndTurn(m, Collected(l, m)),
           NEW W, NEW heard, Says(m, l, W, heard)
    PROVE  /\ Wishes!Decide(m, W, heard)
           /\ Hinted(ledger)' = Hinted(l)
           /\ Figure(ledger)' = Figure(l)
<1> DEFINE k == Collected(l, m)
<1>1. /\ ledger \in Books /\ revision \in Nat /\ Past
  BY BookPast DEF BuyerInv, LedgerInv
<1>2. /\ k \in Grown /\ k \in Books /\ l \in Books
      /\ \A x : x.concept \in Hints => (x \in Noted(k) <=> x \in Noted(l))
  BY <1>1, CollectedKeepsHints DEF Grown, Worded
<1>3. Figure(k) = Figure(l)
  BY <1>1, CollectedIs DEF Worded
<1>4. Decisions(k) = Wishes!Replace(Wishes!Replace(W, heard), Wishes!Recognised(m, heard))
  BY <1>1, CollectedDecides
<1>5. ledger' = k
  BY DEF EndTurn
<1> HIDE DEF k
<1>6. Hinted(k) = Hinted(l)
  BY <1>2, HintedAre
<1>7. ActiveDecisionPreferences(ledger)' = Decisions(k)
  BY <1>2, <1>5, DecisionsAre
<1>8. ProjectDecision(ledger', budgetMode') = Wishes!CriteriaOf(ActiveDecisionPreferences(ledger'), budgetMode')
  BY <1>2, <1>5, <1>7, CriteriaAre
<1>9. Wishes!MayStillAsk(m, Decisions(k))
  BY <1>2, RelaxingIs DEF Wishes!MayStillAsk, k
<1>10. Wishes!Decide(m, W, heard)
  <2>1. message' = m /\ budgetMode' = IF m.mode = "same" THEN budgetMode ELSE m.mode
    BY DEF EndTurn
  <2>2. Wishes!MayStillAsk(m, ActiveDecisionPreferences(ledger'))
    BY <1>7, <1>9 DEF Wishes!MayStillAsk
  <2> QED  BY <1>4, <1>7, <1>8, <2>1, <2>2 DEF Wishes!Decide
<1> QED  BY <1>3, <1>5, <1>6, <1>10

\* A turn whose wording states nothing itself.
LEMMA SaysNothing ==
    ASSUME ledger \in Books, revision \in Nat, NEW m \in Messages, NEW l, Worded(l),
           \A x \in Own(l) : x.concept # "primaryUsage" /\ \A n \in m.names : n.concept # x.concept,
           NEW W, \A w : w \in W <=> w \in Decisions(l),
           \A w : w.concept = "primaryUsage" => (w \in W <=> w \in Decisions(ledger))
    PROVE  Says(m, l, W, {})
<1>1. OwnUses(l) = {}
  BY DEF OwnUses, IsUse
<1>2. \A w : w \in Wishes!Replace(W, {}) <=> w \in W
  BY ReplaceIs
<1>3. ASSUME NEW n \in m.names PROVE ~Repeats(l, Stated(n))
  <2>1. Stated(n).turn = Now /\ Stated(n).concept = n.concept
    BY SayableCanBeStated, StatedIsOwn
  <2>2. InForce(l) \subseteq Noted(l)
    BY ForceIsNoted DEF Worded, Grown
  <2> QED  BY <2>1, <2>2 DEF Repeats, Own
<1> QED  BY <1>1, <1>2, <1>3 DEF Says

\* Concepts that go out of force go out of the wishes.
LEMMA Narrowed ==
    ASSUME NEW l, NEW k, NEW C, InForce(l) = {x \in InForce(k) : x.concept \notin C}, NEW w
    PROVE  w \in Decisions(l) <=> w \in Decisions(k) /\ w.concept \notin C
BY WishOfFields DEF Decisions, Deciding

\* An event that takes the place of its concept's does so among the wishes.
LEMMA Widened ==
    ASSUME NEW l, NEW k, NEW C, NEW e, e.strength # "WEAK_SIGNAL", ~IsEquipment(e),
           InForce(l) = {x \in InForce(k) : x.concept \notin C \cup {e.concept}} \cup {e},
           NEW W, \A w : w \in W <=> w \in Decisions(k) /\ w.concept \notin C,
           NEW w
    PROVE  w \in Decisions(l) <=> w \in Wishes!Replace(W, {WishOf(e)})
<1>1. w \in Decisions(l) <=> w = WishOf(e) \/ (w \in Decisions(k) /\ w.concept \notin C \cup {e.concept})
  BY WishOfFields DEF Decisions, Deciding
<1>2. WishOf(e).concept = e.concept /\ e.concept # "equipmentFeature"
  BY WishOfFields DEF IsEquipment
<1> QED  BY <1>1, <1>2, ReplaceIs

\* Wishes about concepts that were freed or are replaced are gone.
LEMMA FreedWishes ==
    ASSUME ledger \in Books, NEW m, NEW C, NEW w
    PROVE  w \in Wishes!Without(Wishes!Freed(m), C)
             <=> w \in Decisions(ledger) /\ w.concept \notin m.frees \cup C
BY DecisionsAre DEF Wishes!Without, Wishes!Freed

\* Wishes about freed concepts are gone.
LEMMA FreedWishesAre ==
    ASSUME ledger \in Books, NEW m, NEW w
    PROVE  w \in Wishes!Freed(m) <=> w \in Decisions(ledger) /\ w.concept \notin m.frees
BY DecisionsAre DEF Wishes!Without, Wishes!Freed

\* The question and the answers to it, in an action of the buyer.
LEMMA RelaxBrandIsGivenUp ==
    ASSUME BuyerInv, NEW m \in Messages, RelaxBrand(m) PROVE Wishes!GiveUpBrand(m)
<1> DEFINE l == ClearActive(Loosened(m), "brandPreference")
           W == Wishes!Without(Wishes!Freed(m), {"brandPreference"})
<1>1. /\ ledger \in Books /\ revision \in Nat /\ Past
  BY BookPast DEF BuyerInv, LedgerInv
<1>2. /\ Worded(l) /\ Noted(l) = Noted(ledger) /\ Figure(l) = Figure(ledger)
      /\ InForce(l) = {x \in InForce(ledger) : x.concept \notin m.frees \cup {"brandPreference"}}
  BY <1>1, GivenUpIs
<1>3. EndTurn(m, Collected(l, m)) /\ pending' = pending /\ cargo' = cargo /\ AcceptsRelaxation(m)
  BY DEF RelaxBrand
<1> HIDE DEF l
<1>4. /\ \A w : w \in W <=> w \in Decisions(l)
      /\ \A w : w.concept = "primaryUsage" => (w \in W <=> w \in Decisions(ledger))
  <2> DEFINE C == m.frees \cup {"brandPreference"}
  <2>1. \A w : w \in W <=> w \in Decisions(ledger) /\ w.concept \notin C
    BY <1>1, FreedWishes
  <2>2. InForce(l) = {x \in InForce(ledger) : x.concept \notin C}
    BY <1>2
  <2>3. "primaryUsage" \notin C
    BY MessagesAssumption
  <2> HIDE DEF W, C
  <2>4. \A w : w \in Decisions(l) <=> w \in Decisions(ledger) /\ w.concept \notin C
    BY <2>2, Narrowed
  <2> QED  BY <2>1, <2>3, <2>4
<1> HIDE DEF W
<1>5. l \in Grown /\ l \in Books /\ Own(l) = {}
  BY <1>1, <1>2, NothingOwn DEF Worded, Own, Grown
<1>6. Says(m, l, W, {})
  BY <1>1, <1>2, <1>4, <1>5, SaysNothing
<1>7. /\ Wishes!Decide(m, W, {})
      /\ Hinted(ledger)' = Hinted(l) /\ Figure(ledger)' = Figure(l)
  BY <1>2, <1>3, <1>6, TurnDecides
<1>8. Hinted(l) = Hinted(ledger)
  BY <1>1, <1>2, <1>5, HintedAre
<1>9. Wishes!ToBrand(m)
  BY <1>3 DEF Wishes!ToBrand, AcceptsRelaxation
<1> QED  BY <1>2, <1>3, <1>7, <1>8, <1>9 DEF Wishes!GiveUpBrand, Hinted, Figure, W

\* A no to the question is the buyer's refusal.
LEMMA RejectPendingIsRefused ==
    ASSUME BuyerInv, NEW m \in Messages, RejectPending(m) PROVE Wishes!Refuse(m)
<1> DEFINE k == Loosened(m)
           l == End(k, Source(k), "REJECTED")
           W == Wishes!Freed(m)
<1>1. ledger \in Books /\ revision \in Nat /\ Past /\ pending # Nothing
  BY BookPast DEF BuyerInv, LedgerInv, RejectPending, Answers
<1>2. /\ pending.concept \in Hints /\ Waits(ledger, pending)
  BY <1>1, QuestionWaits DEF BuyerInv, LedgerInv
<1>3. Source(k) # 0
  BY <1>1, LoosenedKeepsHints, ConfirmKeeps DEF BuyerInv
<1>4. EndTurn(m, Collected(l, m)) /\ pending' = Nothing /\ Answers(m, {"no"}) /\ cargo' = cargo
  BY <1>3 DEF RejectPending
<1>5. /\ Worded(l) /\ Noted(l) = Noted(ledger) /\ Figure(l) = Figure(ledger)
      /\ InForce(l) = {x \in InForce(ledger) : x.concept \notin m.frees \cup {pending.concept}}
  BY <1>1, <1>2, <1>3, RefusedIs
<1> HIDE DEF k, l
<1>6. \A w \in Decisions(ledger) : w.concept # pending.concept
  <2>1. InForce(ledger) \subseteq Noted(ledger)
    BY <1>1, ForceIsNoted
  <2>2. \A x \in Noted(ledger) : x.concept = pending.concept => x.strength = "WEAK_SIGNAL"
    BY <1>1, <1>2, HintEvents DEF Waits
  <2> QED  BY <2>1, <2>2, WishOfFields DEF Decisions, Deciding
<1>7. /\ \A w : w \in W <=> w \in Decisions(l)
      /\ \A w : w.concept = "primaryUsage" => (w \in W <=> w \in Decisions(ledger))
  <2> DEFINE C == m.frees \cup {pending.concept}
  <2>1. \A w : w \in W <=> w \in Decisions(ledger) /\ w.concept \notin m.frees
    BY <1>1, FreedWishesAre
  <2>2. InForce(l) = {x \in InForce(ledger) : x.concept \notin C}
    BY <1>5
  <2>3. "primaryUsage" \notin m.frees
    BY MessagesAssumption
  <2> HIDE DEF C
  <2>4. \A w : w \in Decisions(l) <=> w \in Decisions(ledger) /\ w.concept \notin C
    BY <2>2, Narrowed
  <2> HIDE DEF W
  <2> QED  BY <1>6, <2>1, <2>3, <2>4 DEF C
<1> HIDE DEF W
<1>8. l \in Grown /\ l \in Books /\ Own(l) = {}
  BY <1>1, <1>5, NothingOwn DEF Worded, Own, Grown
<1>9. Says(m, l, W, {})
  BY <1>1, <1>5, <1>7, <1>8, SaysNothing
<1>10. /\ Wishes!Decide(m, W, {})
       /\ Hinted(ledger)' = Hinted(l) /\ Figure(ledger)' = Figure(l)
  BY <1>4, <1>5, <1>9, TurnDecides
<1>11. Hinted(l) = Hinted(ledger)
  BY <1>1, <1>5, <1>8, HintedAre
<1>12. Wishes!ToQuestion(m, {"no"})
  BY <1>4, AskedIs DEF BuyerInv
<1> QED  BY <1>4, <1>5, <1>10, <1>11, <1>12 DEF Wishes!Refuse, Hinted, Figure, W

\* An answer about the running costs is the buyer's weighing of them.
LEMMA SettleCostsIsWeighed ==
    ASSUME BuyerInv, NEW m \in Messages, SettleCosts(m) PROVE Wishes!WeighCosts(m)
<1> DEFINE W == Wishes!Replace(Wishes!Freed(m), Wishes!CostWish(m.answer))
<1>1. /\ ledger \in Books /\ revision \in Nat /\ Past
  BY BookPast DEF BuyerInv, LedgerInv
<1>2. PICK s \in {"EXPLICIT_STRONG", "CONFIRMED_STRONG"} :
         EndTurn(m, Collected(SupersedeActive(Loosened(m), Event(TotalCost, s)), m)) /\ pending' = Nothing
  BY DEF SettleCosts
<1>3. Answers(m, {"both", "advise"}) /\ pending.concept = CostHint /\ pending # Nothing /\ cargo' = cargo
  BY DEF SettleCosts, OnCosts, Answers
<1> DEFINE e == Event(TotalCost, s)
           l == SupersedeActive(Loosened(m), e)
<1>4. /\ e.concept = TotalCost.concept /\ e.value = TotalCost.value /\ e.use = TotalCost.use
      /\ e.strength = s /\ ~IsEquipment(e) /\ ~IsUse(e) /\ e.concept \notin Budgets \cup Hints
      /\ Worded(l) /\ Noted(l) = Noted(ledger) \cup {e} /\ Figure(l) = Figure(ledger)
      /\ InForce(l) = {x \in InForce(ledger) : x.concept \notin m.frees \cup {TotalCost.concept}} \cup {e}
  BY <1>1, CostIs
<1>5. /\ TotalCost.concept = "totalCostPriority" /\ WishOf(e) = TotalCost
      /\ Wishes!CostWish(m.answer) = {TotalCost}
  <2>1. m.answer \in {"both", "advise"}
    BY <1>3 DEF Answers
  <2>2. Wishes!CostWish(m.answer) = {TotalCost}
    BY <2>1 DEF Wishes!CostWish, TotalCost, Wishes!Wish, Wish
  <2>3. TotalCost.concept = "totalCostPriority" /\ WishOf(e) = TotalCost
    BY <1>4, WishFields DEF WishOf, TotalCost
  <2> QED  BY <2>2, <2>3
<1> HIDE DEF e, l
<1>6. \A w : w \in W <=> w \in Decisions(l)
  <2> DEFINE F == Wishes!Freed(m)
             C == m.frees
  <2>1. \A w : w \in F <=> w \in Decisions(ledger) /\ w.concept \notin C
    BY <1>1, FreedWishesAre
  <2>2. /\ InForce(l) = {x \in InForce(ledger) : x.concept \notin C \cup {e.concept}} \cup {e}
        /\ e.strength # "WEAK_SIGNAL" /\ ~IsEquipment(e)
    BY <1>4
  <2> HIDE DEF F, C
  <2>3. \A w : w \in Decisions(l) <=> w \in Wishes!Replace(F, {WishOf(e)})
    BY <2>1, <2>2, Widened
  <2> QED  BY <1>5, <2>3 DEF F
<1>7. \A w : w.concept = "primaryUsage" => (w \in W <=> w \in Decisions(ledger))
  BY <1>1, <1>5, ReplaceIs, FreedWishesAre, MessagesAssumption
<1> HIDE DEF W
<1>8. l \in Grown /\ l \in Books /\ \A x \in Own(l) : x = e
  BY <1>1, <1>4, LedgerIsGrown, NothingOwn DEF Worded, Own, Grown
<1>9. Says(m, l, W, {})
  <2>1. \A n \in m.names : n.concept # "totalCostPriority"
    BY MessagesAssumption
  <2> QED  BY <1>1, <1>4, <1>5, <1>6, <1>7, <1>8, <2>1, SaysNothing
<1>10. /\ Wishes!Decide(m, W, {})
       /\ Hinted(ledger)' = Hinted(l) /\ Figure(ledger)' = Figure(l)
  BY <1>2, <1>4, <1>9, TurnDecides DEF l, e
<1>11. Hinted(l) = Hinted(ledger)
  BY <1>1, <1>4, <1>8, HintedAre
<1>12. Wishes!ToQuestion(m, {"both", "advise"})
  BY <1>3, AskedIs DEF BuyerInv
<1> QED  BY <1>2, <1>3, <1>4, <1>10, <1>11, <1>12 DEF Wishes!WeighCosts, Hinted, Figure, W

\* The hints that were noticed and not confirmed.
LEMMA WaitingAre ==
    ASSUME LedgerInv, NEW h
    PROVE  h \in Wishes!Waiting <=>
              /\ h \in Hinted(ledger)
              /\ \A x \in Noted(ledger) : x.concept = h => x.strength # "CONFIRMED_STRONG"
<1>1. ledger \in Books /\ AgreedIsInForce(ledger)
  BY DEF LedgerInv, BookInv, QuestionInv
<1>2. h \in Wishes!Waiting <=> h \in Hinted(ledger) /\ \A w \in Decisions(ledger) : w.concept # h
  BY <1>1, DecisionsAre DEF Wishes!Waiting, Wishes!About, Hinted
<1>3. ASSUME h \in Hints
      PROVE  (\E w \in Decisions(ledger) : w.concept = h) <=>
                \E x \in Noted(ledger) : x.concept = h /\ x.strength = "CONFIRMED_STRONG"
  <2>1. ASSUME NEW x \in Noted(ledger), x.concept = h, x.strength = "CONFIRMED_STRONG"
        PROVE  \E w \in Decisions(ledger) : w.concept = h
    <3>1. x \in Deciding(ledger)
      BY <1>1, <1>3, <2>1 DEF AgreedIsInForce, Deciding
    <3> QED  BY <2>1, <3>1, WishOfFields DEF Decisions
  <2>2. ASSUME NEW w \in Decisions(ledger), w.concept = h
        PROVE  \E x \in Noted(ledger) : x.concept = h /\ x.strength = "CONFIRMED_STRONG"
    <3>1. PICK x \in InForce(ledger) : x.strength # "WEAK_SIGNAL" /\ w = WishOf(x)
      BY <2>2 DEF Decisions, Deciding
    <3>2. x \in Noted(ledger) /\ x.concept = h
      BY <1>1, <2>2, <3>1, ForceIsNoted, WishOfFields
    <3> QED  BY <1>1, <1>3, <3>1, <3>2, HintEvents
  <2> QED  BY <2>1, <2>2
<1>4. h \in Hinted(ledger) => h \in Hints
  BY DEF Hinted
<1> QED  BY <1>2, <1>3, <1>4

\* The wish of a confirmed hint.
LEMMA ConfirmedIs ==
    ASSUME NEW h
    PROVE  Wishes!Confirmed(h) = {WishOf(ConfirmedHint(h))}
<1>1. WishOf(ConfirmedHint(h)) = Wish(h, h, UseOf(h))
  BY DEF WishOf, ConfirmedHint, Event, Wish
<1> QED  BY <1>1 DEF Wishes!Confirmed, Wishes!Wish, Wish, UseOf

\* The hint that is asked about after another was agreed to.
LEMMA NextQuestionIs ==
    ASSUME LedgerInv, pending # Nothing, NEW l \in Books,
           Noted(l) = Noted(ledger) \cup {ConfirmedHint(pending.concept)},
           pending' = NextWeakConfirmation(l, pending.concept)
    PROVE  LET others == Wishes!Waiting \ {pending.concept}
           IN  Asked' \in IF others = {} THEN {Nothing}
                          ELSE {IF h \in Unasked THEN Nothing ELSE h : h \in others}
<1> DEFINE c == pending.concept
           others == Wishes!Waiting \ {c}
<1>1. /\ ledger \in Books /\ revision \in Nat /\ c \in Hints
  BY BookPast, QuestionWaits DEF LedgerInv, BookInv
<1>2. ConfirmedHint(c).concept = c
  BY <1>1, ConfirmedHintIsOwn
<1>3. \A h : h \in others <=>
          /\ h \in Hints /\ h # c
          /\ \E x \in Noted(ledger) : x.concept = h
          /\ \A x \in Noted(ledger) : x.concept = h => x.strength # "CONFIRMED_STRONG"
  BY <1>1, WaitingAre, HintedAre
<1>4. \A x : x.concept # c => (x \in Noted(l) <=> x \in Noted(ledger))
  BY <1>2
<1>5. \A h : h # c =>
         (IsConfirmed(l, h) <=> \E x \in Noted(ledger) : x.concept = h /\ x.strength = "CONFIRMED_STRONG")
  BY <1>4, IsConfirmedIs
<1> HIDE DEF others
<1>6. CASE /\ pending' = Nothing
           /\ \A x \in Noted(l) : x.strength = "WEAK_SIGNAL" /\ x.concept # c => IsConfirmed(l, x.concept)
  <2>1. ASSUME NEW h \in others PROVE FALSE
    <3>1. PICK x \in Noted(ledger) : x.concept = h
      BY <1>3, <2>1
    <3>2. x.strength = "WEAK_SIGNAL"
      BY <1>1, <1>3, <2>1, <3>1, HintEvents
    <3>3. IsConfirmed(l, h)
      BY <1>3, <1>4, <1>6, <2>1, <3>1, <3>2
    <3> QED  BY <1>3, <1>5, <2>1, <3>3
  <2>2. others = {} /\ Asked' = Nothing
    BY <1>6, <2>1 DEF Asked
  <2> QED  BY <2>2 DEF others
<1>7. CASE \E x \in Noted(l) : /\ x.strength = "WEAK_SIGNAL" /\ x.concept # c
                               /\ ~IsConfirmed(l, x.concept)
                               /\ pending' = IF x.concept \in Unasked THEN Nothing
                                             ELSE [concept |-> x.concept, turn |-> x.turn]
  <2>1. PICK x \in Noted(l) : /\ x.strength = "WEAK_SIGNAL" /\ x.concept # c
                              /\ ~IsConfirmed(l, x.concept)
                              /\ pending' = IF x.concept \in Unasked THEN Nothing
                                            ELSE [concept |-> x.concept, turn |-> x.turn]
    BY <1>7
  <2>2. x.concept \in Hints /\ x.turn \in Nat
    BY <2>1, HintEvents
  <2>3. [concept |-> x.concept, turn |-> x.turn] # Nothing
    BY <2>2, NothingIsNew
  <2>4. Asked' = IF x.concept \in Unasked THEN Nothing ELSE x.concept
    BY <2>1, <2>3 DEF Asked
  <2>5. x.concept \in others
    BY <1>3, <1>4, <1>5, <2>1, <2>2
  <2> QED  BY <2>4, <2>5 DEF others
<1> QED  BY <1>6, <1>7, NextWeakIs DEF others

\* A yes to the question is the buyer's agreement.
LEMMA ConfirmPendingIsAgreed ==
    ASSUME BuyerInv, NEW m \in Messages, ConfirmPending(m) PROVE Wishes!Agree(m)
<1> DEFINE k == Loosened(m)
           l == Confirm(k)
           c == pending.concept
           e == ConfirmedHint(c)
           W == Wishes!Replace(Wishes!Freed(m), Wishes!Confirmed(Asked))
<1>1. ledger \in Books /\ revision \in Nat /\ Past
  BY BookPast DEF BuyerInv, LedgerInv
<1>2. /\ pending # Nothing /\ EndTurn(m, Collected(l, m)) /\ Answers(m, {"yes"})
      /\ pending' = NextWeakConfirmation(l, c) /\ cargo' = cargo
  BY DEF ConfirmPending, Answers
<1>3. c \in Hints /\ Asked = c /\ c \in Hinted(ledger)
  BY <1>2, QuestionWaits, AskedIs DEF BuyerInv, LedgerInv
<1>4. /\ k \in Grown /\ Noted(k) = Noted(ledger) /\ Figure(k) = Figure(ledger) /\ Worded(k)
      /\ InForce(k) = {x \in InForce(ledger) : x.concept \notin m.frees}
  BY <1>1, LoosenedIs, LoosenedKeepsHints
<1>5. Source(k) # 0
  BY <1>1, <1>2, LoosenedKeepsHints, ConfirmKeeps DEF BuyerInv
<1>6. /\ Worded(l) /\ Noted(l) = Noted(k) \cup {e} /\ Figure(l) = Figure(k)
      /\ InForce(l) = {x \in InForce(k) : x.concept # c} \cup {e}
  BY <1>1, <1>2, <1>3, <1>4, <1>5, ConfirmIs
<1>7. /\ e.strength = "CONFIRMED_STRONG" /\ e.concept = c /\ ~IsEquipment(e) /\ ~IsUse(e)
  BY <1>1, <1>3, ConfirmedHintIsOwn
<1>8. Wishes!Confirmed(Asked) = {WishOf(e)}
  BY <1>3, ConfirmedIs
<1> HIDE DEF k, l, e
<1> DEFINE F == Wishes!Freed(m)
           C == m.frees
<1>9. \A w : w \in F <=> w \in Decisions(ledger) /\ w.concept \notin C
  BY <1>1, FreedWishesAre
<1>10. InForce(l) = {x \in InForce(ledger) : x.concept \notin C \cup {e.concept}} \cup {e}
  BY <1>4, <1>6, <1>7
<1>11. "primaryUsage" \notin C
  BY MessagesAssumption
<1> HIDE DEF F, C, c
<1>12. \A w : w \in Decisions(l) <=> w \in Wishes!Replace(F, {WishOf(e)})
  BY <1>7, <1>9, <1>10, Widened
<1>13. W = Wishes!Replace(F, {WishOf(e)})
  BY <1>8 DEF F
<1> HIDE DEF W
<1>14. \A w : w \in W <=> w \in Decisions(l)
  BY <1>12, <1>13
<1>15. WishOf(e).concept = c /\ c # "primaryUsage"
  BY <1>3, <1>7, WishOfFields, HintsAreNotStated
<1>16. \A w : w.concept = "primaryUsage" => (w \in W <=> w \in Decisions(ledger))
  BY <1>9, <1>11, <1>13, <1>15, ReplaceIs
<1>17. l \in Grown /\ l \in Books /\ \A x \in Own(l) : x = e
  BY <1>1, <1>4, <1>6, NothingOwn DEF Worded, Own, Grown
<1>18. c # "primaryUsage" /\ \A n \in m.names : n.concept # c
  BY <1>3, <1>15, MessagesAssumption
<1>19. Says(m, l, W, {})
  BY <1>1, <1>6, <1>7, <1>14, <1>16, <1>17, <1>18, SaysNothing
<1>20. /\ Wishes!Decide(m, W, {})
       /\ Hinted(ledger)' = Hinted(l) /\ Figure(ledger)' = Figure(l)
  BY <1>2, <1>6, <1>19, TurnDecides
<1>21. Hinted(l) = Hinted(ledger)
  <2>1. Hinted(l) = {h \in Hints : \E x \in Noted(l) : x.concept = h}
    BY <1>17, HintedAre
  <2>2. Hinted(ledger) = {h \in Hints : \E x \in Noted(ledger) : x.concept = h}
    BY <1>1, HintedAre
  <2> QED  BY <1>3, <1>4, <1>6, <1>7, <2>1, <2>2
<1>22. Wishes!ToQuestion(m, {"yes"})
  BY <1>2, AskedIs DEF BuyerInv
<1>23. LET others == Wishes!Waiting \ {Asked}
       IN  Asked' \in IF others = {} THEN {Nothing}
                      ELSE {IF h \in Unasked THEN Nothing ELSE h : h \in others}
  BY <1>2, <1>3, <1>4, <1>6, <1>17, NextQuestionIs DEF BuyerInv, c, e
<1> QED  BY <1>2, <1>4, <1>6, <1>20, <1>21, <1>22, <1>23 DEF Wishes!Agree, Hinted, Figure, Asked, W

(***************************************************************************)
(* A message that is listened to.                                          *)
(***************************************************************************)
Running(m) == Asked = CostHint /\ m.answer = "running"

\* What the buyer keeps of the wishes of earlier turns, and what was heard.
Keeps(m) ==
    Wishes!Without(Wishes!Freed(m), IF m.budget.kind = "drop" THEN Budgets ELSE {})
        \ {w \in Decisions(ledger) : w.concept = "equipmentFeature" /\ w.value \in m.drops}

Heard(m) ==
    Wishes!Meant(m, m.states) \cup Wishes!PriceWish(m.budget)
        \cup {Wish("equipmentFeature", v, "HARD_FILTER") : v \in m.wants}
        \cup (IF Running(m) THEN Wishes!CostWish("running") ELSE {})

\* The running costs are what the answer is about.
LEMMA RunningIs ==
    ASSUME LedgerInv, NEW m, ~AcceptsRelaxation(m) PROVE Running(m) <=> OnCosts(m, {"running"})
<1>1. CostHint \in Hints /\ CostHint # Nothing
  BY HintsAssumption, NothingIsNew
<1> QED  BY <1>1, AskedIs DEF Running, OnCosts, Answers

\* A price that is named, raised or rounded, is the figure of the buyer's account.
LEMMA NewFigureIs ==
    ASSUME ledger \in Books, NEW m \in Messages
    PROVE  Wishes!NewFigure(m.budget) = IF m.budget.kind \in {"none", "drop"} THEN Nothing
                                        ELSE Amount(ledger, m.budget)
<1>1. m.budget.kind \in {"none", "exact", "raise", "drop"}
  BY MessagesAssumption
<1>2. Wishes!NewFigure(m.budget) =
         CASE m.budget.kind \in {"none", "drop"} -> Nothing
           [] m.budget.kind = "raise" /\ Figure(ledger) # Nothing ->
                 Wishes!Percent(Figure(ledger), m.budget.amount)
           [] OTHER -> m.budget.amount
  BY DEF Wishes!NewFigure, Figure
<1>3. \A a, b : Wishes!Percent(a, b) = Percent(a, b)
  BY DEF Wishes!Percent, Percent
<1>4. Amount(ledger, m.budget) = IF m.budget.kind = "raise" /\ Figure(ledger) # Nothing
                                 THEN Percent(Figure(ledger), m.budget.amount) ELSE m.budget.amount
  BY AmountIs
<1> QED  BY <1>1, <1>2, <1>3, <1>4

\* The wish of a price is that of its event.
LEMMA PriceWishIs ==
    ASSUME ledger \in Books, NEW m \in Messages, NEW w
    PROVE  w \in Wishes!PriceWish(m.budget) <=> \E e \in PriceEvents(ledger, m.budget) : w = WishOf(e)
<1> DEFINE a == Amount(ledger, m.budget)
           target == Wish("budgetTarget", a, "SOFT_RANK")
           max == Wish("budgetMax", a, "HARD_FILTER")
<1>1. m.budget.kind \in {"none", "exact", "raise", "drop"} /\ a # Nothing
  BY MessagesAssumption, AmountIs, NothingIsNew
<1>2. Wishes!PriceWish(m.budget) =
         IF m.budget.kind \in {"none", "drop"} THEN {}
         ELSE IF m.budget.soft THEN {target} ELSE {max}
  <2>1. Wishes!NewFigure(m.budget) = IF m.budget.kind \in {"none", "drop"} THEN Nothing ELSE a
    BY NewFigureIs
  <2> HIDE DEF a
  <2> QED  BY <1>1, <2>1 DEF Wishes!PriceWish, Wishes!Wish, Wish
<1>3. PriceEvents(ledger, m.budget) =
         IF m.budget.kind \in {"none", "drop"} THEN {}
         ELSE IF m.budget.soft THEN {Stated(target)} ELSE {Stated(max)}
  BY <1>1 DEF PriceEvents
<1>4. WishOf(Stated(target)) = target /\ WishOf(Stated(max)) = max
  BY DEF WishOf, Stated, Event, Wish
<1> HIDE DEF target, max
<1> QED  BY <1>2, <1>3, <1>4

\* What was heard in a message is what its events say, but for a use it rejects.
LEMMA HeardIs ==
    ASSUME LedgerInv, NEW m \in Messages, NEW w
    PROVE  w \in Heard(m) <=>
              /\ \E e \in MessageEvents(m, Running(m)) : w = WishOf(e)
              /\ ~(Rejects(m) /\ w = Use("COMMERCIAL"))
<1>1. /\ ledger \in Books /\ revision \in Nat /\ Past
  BY BookPast DEF LedgerInv
<1> DEFINE C == CostEvents(Running(m))
           S == StatedEvents(m, Running(m))
           V == WantedEvents(m)
           P == PriceEvents(ledger, m.budget)
<1>2. /\ \A e \in C : WishOf(e).concept # "primaryUsage"
      /\ \A e \in V : WishOf(e).concept # "primaryUsage"
      /\ \A e \in P : WishOf(e).concept # "primaryUsage"
  <2>1. Running(m) \in BOOLEAN
    BY DEF Running
  <2> QED  BY <1>1, <2>1, MessageEventsAre, WishOfFields DEF IsUse
<1>3. Use("COMMERCIAL").concept = "primaryUsage"
  BY WishFields DEF Use
<1>4. Wishes!CommercialUse = Use("COMMERCIAL")
  BY DEF Wishes!CommercialUse, Wishes!Wish, Use, Wish
<1>5. Rejects(m) <=> m.disowns /\ ~Wishes!MeantLoads
  BY <1>1, LoadsAre DEF Rejects
<1>6. w \in Wishes!Meant(m, m.states) <=> w \in m.states /\ ~(Rejects(m) /\ w = Use("COMMERCIAL"))
  BY <1>4, <1>5 DEF Wishes!Meant
<1>7. \A v \in m.states : WishOf(Stated(v)) = v
  <2> TAKE v \in m.states
  <2>1. v = Wish(v.concept, v.value, v.use)
    BY MessagesAssumption
  <2> QED  BY <2>1 DEF WishOf, Stated, Event, Wish
<1>8. Wishes!CostWish("running") = {OperatingCost}
  BY DEF Wishes!CostWish, Wishes!Wish, OperatingCost, Wish
<1>9. (\E e \in C : w = WishOf(e)) <=> Running(m) /\ w = OperatingCost
  <2>1. WishOf(Event(OperatingCost, "CONFIRMED_STRONG")) = OperatingCost
    BY DEF WishOf, Event, OperatingCost, Wish
  <2> QED  BY <2>1 DEF CostEvents
<1>10. (\E e \in S : w = WishOf(e)) <=>
          w \in m.states /\ ~(Running(m) /\ w.concept = "operatingCostPriority")
  BY <1>7 DEF StatedEvents
<1>11. w \in m.states /\ w.concept = "operatingCostPriority" => w = OperatingCost
  BY MessagesAssumption DEF OperatingCost
<1>12. (\E e \in C \cup S : w = WishOf(e)) <=> w \in m.states \/ (Running(m) /\ w = OperatingCost)
  BY <1>9, <1>10, <1>11
<1>13. (\E e \in V : w = WishOf(e)) <=> w \in {Wish("equipmentFeature", v, "HARD_FILTER") : v \in m.wants}
  <2>1. \A v : WishOf(Wanted(v)) = Wish("equipmentFeature", v, "HARD_FILTER")
    BY DEF WishOf, Wanted, Stated, Event, Wish
  <2> QED  BY <2>1 DEF WantedEvents
<1>14. (\E e \in P : w = WishOf(e)) <=> w \in Wishes!PriceWish(m.budget)
  BY <1>1, PriceWishIs
<1>15. OperatingCost.concept # "primaryUsage"
  BY WishFields DEF OperatingCost
<1> HIDE DEF C, S, V, P
<1>16. w \in Heard(m) <=>
          \/ w \in m.states /\ ~(Rejects(m) /\ w = Use("COMMERCIAL"))
          \/ \E e \in V \cup P : w = WishOf(e)
          \/ Running(m) /\ w = OperatingCost
  BY <1>6, <1>8, <1>13, <1>14 DEF Heard
<1>17. MessageEvents(m, Running(m)) = C \cup S \cup V \cup P
  BY DEF MessageEvents, C, S, V, P
<1> QED  BY <1>2, <1>3, <1>12, <1>15, <1>16, <1>17

\* What a message does not take back.
LEMMA KeepsIs ==
    ASSUME ledger \in Books, NEW m \in Messages, NEW w
    PROVE  w \in Keeps(m) <=> w \in Decisions(ledger) /\ ~TakenBack(m, w)
<1>1. w \in Wishes!Without(Wishes!Freed(m), IF m.budget.kind = "drop" THEN Budgets ELSE {})
         <=> /\ w \in Decisions(ledger)
             /\ w.concept \notin m.frees \cup (IF m.budget.kind = "drop" THEN Budgets ELSE {})
  BY FreedWishes
<1> QED  BY <1>1 DEF Keeps, TakenBack, IsEquipment

\* The statements of a message, in terms of wishes.
LEMMA StatementsDecide ==
    ASSUME LedgerInv, NEW m \in Messages, NEW w
    PROVE  LET l == Statements(m, Running(m))
               H == MessageEvents(m, Running(m))
           IN  w \in Decisions(l) <=>
                  \/ \E e \in H : w = WishOf(e)
                  \/ w \in Keeps(m) /\ \A e \in H : ~SameKey(e, w)
<1> DEFINE l == Statements(m, Running(m))
           H == MessageEvents(m, Running(m))
<1>1. /\ ledger \in Books /\ revision \in Nat /\ Past /\ Running(m) \in BOOLEAN
  BY BookPast DEF LedgerInv, Running
<1>2. \A x : x \in InForce(l) <=>
         \/ x \in H
         \/ x \in InForce(ledger) /\ ~TakenBack(m, x) /\ \A e \in H : ~SameKey(e, x)
  BY <1>1, StatementsIs
<1>3. \A e \in H : e.strength # "WEAK_SIGNAL"
  BY <1>1, MessageEventsAre
<1> HIDE DEF l, H
<1>4. \A x : /\ TakenBack(m, WishOf(x)) <=> TakenBack(m, x)
             /\ \A e : SameKey(e, WishOf(x)) <=> SameKey(e, x)
  BY WishOfFields DEF TakenBack, SameKey, IsEquipment
<1>5. w \in Keeps(m) <=> w \in Decisions(ledger) /\ ~TakenBack(m, w)
  BY <1>1, KeepsIs
<1>6. /\ w \in Decisions(l) <=> \E x \in InForce(l) : x.strength # "WEAK_SIGNAL" /\ w = WishOf(x)
      /\ w \in Decisions(ledger) <=> \E x \in InForce(ledger) : x.strength # "WEAK_SIGNAL" /\ w = WishOf(x)
  BY DEF Decisions, Deciding
<1>7. ASSUME w \in Decisions(l)
      PROVE  \/ \E e \in H : w = WishOf(e)
             \/ w \in Keeps(m) /\ \A e \in H : ~SameKey(e, w)
  BY <1>2, <1>4, <1>5, <1>6, <1>7
<1>8. ASSUME NEW e \in H, w = WishOf(e) PROVE w \in Decisions(l)
  BY <1>2, <1>3, <1>6, <1>8
<1>9. ASSUME w \in Keeps(m), \A e \in H : ~SameKey(e, w) PROVE w \in Decisions(l)
  BY <1>2, <1>4, <1>5, <1>6, <1>9
<1> QED  BY <1>7, <1>8, <1>9 DEF l, H

\* The same ledger with the hints that the message settles or adds says what
\* was kept, confirmed and heard.
LEMMA ListeningSays ==
    ASSUME LedgerInv, NEW m \in Messages, NEW l \in Books,
           NEW agreed, agreed => pending # Nothing,
           LET said == Statements(m, Running(m))
               H == MessageEvents(m, Running(m))
               c == pending.concept
           IN  /\ \A w : w \in Decisions(l) <=> \/ agreed /\ w = WishOf(ConfirmedHint(c))
                                                \/ w \in Decisions(said) /\ ~(agreed /\ w.concept = c)
               /\ \A x : x.concept \notin Hints => /\ x \in Noted(l) <=> x \in Noted(said)
                                                   /\ x \in InForce(l) <=> x \in InForce(said)
    PROVE  Says(m, l, IF agreed THEN Wishes!Replace(Keeps(m), Wishes!Confirmed(Asked)) ELSE Keeps(m),
                Heard(m))
<1> DEFINE said == Statements(m, Running(m))
           H == MessageEvents(m, Running(m))
           c == pending.concept
           W == IF agreed THEN Wishes!Replace(Keeps(m), Wishes!Confirmed(Asked)) ELSE Keeps(m)
<1>1. /\ ledger \in Books /\ revision \in Nat /\ Past /\ Running(m) \in BOOLEAN
  BY BookPast DEF LedgerInv, Running
<1>2. agreed => c \in Hints /\ Asked = c
  BY QuestionWaits, AskedIs DEF LedgerInv
<1>3. /\ Worded(said) /\ Noted(said) = Noted(ledger) \cup H
      /\ \A x : x \in H => x \in InForce(said)
      /\ \A x : x \in InForce(said) /\ x.turn = Now => x \in H
  <2>1. Worded(said) /\ Noted(said) = Noted(ledger) \cup H /\ \A x : x \in H => x \in InForce(said)
    BY <1>1, StatementsIs
  <2>2. InForce(said) \subseteq Noted(said) /\ said \in Books
    BY <2>1, ForceIsNoted DEF Worded, Grown
  <2>3. \A x \in Noted(ledger) : x.turn # Now
    BY <1>1, LedgerIsGrown, NothingOwn
  <2> HIDE DEF H, said
  <2> QED  BY <2>1, <2>2, <2>3
<1>4. \A e \in H : e.turn = Now /\ e.concept \notin Hints
  BY <1>1, MessageEventsAre
<1>5. \A w : w \in Decisions(said) <=> \/ \E e \in H : w = WishOf(e)
                                       \/ w \in Keeps(m) /\ \A e \in H : ~SameKey(e, w)
  BY StatementsDecide
<1>6. /\ \A w : w \in Decisions(l) <=> \/ agreed /\ w = WishOf(ConfirmedHint(c))
                                       \/ w \in Decisions(said) /\ ~(agreed /\ w.concept = c)
      /\ \A x : x.concept \notin Hints => /\ x \in Noted(l) <=> x \in Noted(said)
                                          /\ x \in InForce(l) <=> x \in InForce(said)
  OBVIOUS
<1>7. \A w : w \in Heard(m) <=> /\ \E e \in H : w = WishOf(e)
                                /\ ~(Rejects(m) /\ w = Use("COMMERCIAL"))
  BY HeardIs
<1>8. agreed => /\ Wishes!Confirmed(Asked) = {WishOf(ConfirmedHint(c))}
                /\ WishOf(ConfirmedHint(c)).concept = c
  BY <1>1, <1>2, ConfirmedIs, ConfirmedHintIsOwn, WishOfFields
<1>9. \A w : w \in W <=> \/ agreed /\ w = WishOf(ConfirmedHint(c))
                         \/ w \in Keeps(m) /\ ~(agreed /\ w.concept = c)
  <2>1. agreed => c # "equipmentFeature"
    BY <1>2, HintsAreNotStated
  <2> QED  BY <1>8, <2>1, ReplaceIs
<1> HIDE DEF said, H, W, c
<1>10. ASSUME NEW w, w.concept # "primaryUsage"
       PROVE  w \in Decisions(l) <=> w \in Wishes!Replace(W, Heard(m))
  <2>1. w \in Heard(m) <=> \E e \in H : w = WishOf(e)
    BY <1>7, <1>10, WishFields DEF Use
  <2>2. (\A v \in Heard(m) : v.concept = w.concept => v.concept = "equipmentFeature" /\ v.value # w.value)
           <=> \A e \in H : ~SameKey(e, w)
    <3>1. \A e \in H : SameKey(e, w) => WishOf(e) \in Heard(m)
      BY <1>7, <1>10, WishOfFields, WishFields DEF SameKey, Use
    <3>2. \A v \in Heard(m) : \E e \in H : v = WishOf(e)
      BY <1>7
    <3> QED  BY <3>1, <3>2, WishOfFields DEF SameKey, IsEquipment
  <2>3. w \in Wishes!Replace(W, Heard(m)) <=>
           \/ \E e \in H : w = WishOf(e)
           \/ w \in W /\ \A e \in H : ~SameKey(e, w)
    BY <2>1, <2>2, ReplaceIs
  <2>4. agreed /\ w.concept = c => (\A e \in H : ~SameKey(e, w)) /\ \A e \in H : w # WishOf(e)
    BY <1>2, <1>4, WishOfFields DEF SameKey
  <2> QED  BY <1>5, <1>6, <1>8, <1>9, <2>3, <2>4
<1>11. ASSUME NEW n \in m.names
       PROVE  Repeats(l, Stated(n)) <=>
                 \E w \in Heard(m) : w.concept = n.concept /\ w.value = n.value
  <2>1. /\ Stated(n).turn = Now /\ Stated(n).concept = n.concept /\ Stated(n).value = n.value
        /\ n.concept \notin Hints /\ n.concept # "primaryUsage"
    BY <1>1, SayableCanBeStated, StatedIsOwn, MessagesAssumption
  <2>2. Repeats(l, Stated(n)) <=>
           \E x \in InForce(said) : x.concept = n.concept /\ x.turn = Now /\ x.value = n.value
    BY <1>6, <2>1 DEF Repeats
  <2>3. Repeats(l, Stated(n)) <=> \E x \in H : x.concept = n.concept /\ x.value = n.value
    BY <1>3, <1>4, <2>2
  <2>4. \A x \in H : x.concept = n.concept => WishOf(x) \in Heard(m)
    BY <1>7, <2>1, WishOfFields, WishFields DEF Use
  <2>5. \A w \in Heard(m) : \E x \in H : w = WishOf(x)
    BY <1>7
  <2> QED  BY <2>3, <2>4, <2>5, WishOfFields
<1>12. ASSUME NEW w, w.concept = "primaryUsage"
       PROVE  /\ w \in W <=> w \in Decisions(ledger)
              /\ w \in Heard(m) <=> \E x \in OwnUses(l) \ Taken(m, l) : w = WishOf(x)
  <2>1. /\ w.concept \notin Hints \cup Budgets \cup m.frees \cup {"equipmentFeature"}
    BY <1>12, HintsAreConcepts, MessagesAssumption DEF Budgets
  <2>2. w \in W <=> w \in Keeps(m)
    BY <1>2, <1>8, <1>9, <2>1
  <2>3. w \in Keeps(m) <=> w \in Decisions(ledger)
    BY <1>1, <2>1, KeepsIs DEF TakenBack, IsEquipment
  <2>4. \A x : x \in OwnUses(l) <=> x \in H /\ IsUse(x)
    <3>1. \A x \in Noted(ledger) : x.turn # Now
      BY <1>1, LedgerIsGrown, NothingOwn
    <3>2. \A x : IsUse(x) => x.concept \notin Hints
      BY HintsAreNotStated DEF IsUse
    <3> QED  BY <1>3, <1>4, <1>6, <3>1, <3>2 DEF OwnUses, Own
  <2>5. \A x \in OwnUses(l) : x \in Taken(m, l) <=> Rejects(m) /\ WishOf(x) = Use("COMMERCIAL")
    <3>1. \A x \in OwnUses(l) : x \in Noted(l) /\ x.concept = "primaryUsage" /\ x.turn = Now
      BY DEF OwnUses, Own, IsUse
    <3>2. \A x \in OwnUses(l) : x.use = "HARD_FILTER"
      BY <3>1, ForceIsNoted DEF WellFormed
    <3>3. \A x \in OwnUses(l) : WishOf(x) = Use("COMMERCIAL") <=> x.value = "COMMERCIAL"
      BY <3>1, <3>2, WishOfFields, WishFields DEF WishOf, Use
    <3> QED  BY <3>1, <3>3 DEF Taken, Inferred, IsLoadInference, Now
  <2>6. \A x : w = WishOf(x) => IsUse(x)
    BY <1>12, WishOfFields DEF IsUse
  <2>7. w \in Heard(m) <=> \E x \in OwnUses(l) \ Taken(m, l) : w = WishOf(x)
    BY <1>7, <2>4, <2>5, <2>6
  <2> QED  BY <2>2, <2>3, <2>7
<1> QED  BY <1>10, <1>11, <1>12 DEF Says, W

\* Hints that were noticed do not decide.
LEMMA NoticeDecides ==
    ASSUME ledger \in Books, revision \in Nat, NEW l, Worded(l), NEW m \in Messages, NEW resolved
    PROVE  LET k == Notice(m, l, resolved)
               N == NewHints(m, l, resolved)
           IN  /\ Worded(k) /\ k \in Books /\ Figure(k) = Figure(l)
               /\ Decisions(k) = Decisions(l)
               /\ Hinted(k) = Hinted(l) \cup N
               /\ \A x : x.concept \notin Hints => /\ x \in Noted(k) <=> x \in Noted(l)
                                                   /\ x \in InForce(k) <=> x \in InForce(l)
<1> DEFINE k == Notice(m, l, resolved)
           N == NewHints(m, l, resolved)
<1>1. l \in Books /\ l \in Grown /\ Settled(l)
  BY DEF Worded, Grown
<1>2. /\ k \in Grown /\ Settled(k) /\ Figure(k) = Figure(l)
      /\ Noted(k) = Noted(l) \cup {Weak(h) : h \in N}
      /\ InForce(k) = InForce(l) \cup {Weak(h) : h \in N}
  BY <1>1, NoticeIs
<1>3. \A h \in N : h \in Hints /\ Weak(h).strength = "WEAK_SIGNAL" /\ Weak(h).concept = h
  BY WeakIsOwn DEF NewHints
<1> HIDE DEF k, N
<1>4. Deciding(k) = Deciding(l)
  BY <1>2, <1>3 DEF Deciding
<1>5. Decisions(k) = Decisions(l)
  BY <1>4 DEF Decisions
<1>6. k \in Books
  BY <1>2 DEF Grown
<1>7. Hinted(k) = Hinted(l) \cup N
  <2>1. Hinted(l) = {h \in Hints : \E x \in Noted(l) : x.concept = h}
    BY <1>1, HintedAre
  <2>2. Hinted(k) = {h \in Hints : \E x \in Noted(k) : x.concept = h}
    BY <1>6, HintedAre
  <2>3. \A h \in N : Weak(h) \in Noted(k)
    BY <1>2
  <2>4. \A h \in Hinted(k) : h \in Hinted(l) \/ h \in N
    BY <1>2, <1>3, <2>1, <2>2
  <2>5. \A h : h \in Hinted(l) \/ h \in N => h \in Hinted(k)
    BY <1>2, <1>3, <2>1, <2>2, <2>3
  <2> QED  BY <2>4, <2>5
<1>8. \A x : x.concept \notin Hints => /\ x \in Noted(k) <=> x \in Noted(l)
                                       /\ x \in InForce(k) <=> x \in InForce(l)
  BY <1>2, <1>3
<1>9. OwnUses(k) = OwnUses(l)
  BY <1>8, HintsAreNotStated DEF OwnUses, Own, IsUse
<1>10. Worded(k)
  BY <1>2, <1>9 DEF Worded
<1> QED  BY <1>2, <1>5, <1>6, <1>7, <1>8, <1>10 DEF k, N

\* What a repeated hint settles.
LEMMA AgreedDecides ==
    ASSUME LedgerInv, NEW k, Worded(k), SameHints(k, ledger), pending # Nothing
    PROVE  LET l == Confirm(k)
               c == pending.concept
           IN  /\ Worded(l) /\ l \in Books /\ Figure(l) = Figure(k) /\ Hinted(l) = Hinted(k)
               /\ \A w : w \in Decisions(l) <=> \/ w = WishOf(ConfirmedHint(c))
                                                \/ w \in Decisions(k) /\ w.concept # c
               /\ \A x : x.concept \notin Hints => /\ x \in Noted(l) <=> x \in Noted(k)
                                                   /\ x \in InForce(l) <=> x \in InForce(k)
<1> DEFINE l == Confirm(k)
           c == pending.concept
           e == ConfirmedHint(c)
<1>1. ledger \in Books /\ revision \in Nat /\ Past
  BY BookPast DEF LedgerInv
<1>2. c \in Hints /\ Waits(ledger, pending)
  BY QuestionWaits DEF LedgerInv
<1>3. Source(k) # 0
  BY ConfirmKeeps
<1>4. /\ Worded(l) /\ Noted(l) = Noted(k) \cup {e} /\ Figure(l) = Figure(k)
      /\ InForce(l) = {x \in InForce(k) : x.concept # c} \cup {e}
  BY <1>1, <1>2, <1>3, ConfirmIs
<1>5. e.strength = "CONFIRMED_STRONG" /\ e.concept = c
  BY <1>1, <1>2, ConfirmedHintIsOwn
<1>6. Waits(k, pending)
  BY <1>2, SameHintsKeep
<1>7. \E x \in Noted(k) : x.concept = c
  BY <1>6 DEF Waits
<1> HIDE DEF l, e, c
<1>8. l \in Books /\ k \in Books
  BY <1>4 DEF Worded, Grown
<1>9. Hinted(l) = Hinted(k)
  <2>1. Hinted(l) = {h \in Hints : \E x \in Noted(l) : x.concept = h}
    BY <1>8, HintedAre
  <2>2. Hinted(k) = {h \in Hints : \E x \in Noted(k) : x.concept = h}
    BY <1>8, HintedAre
  <2> QED  BY <1>4, <1>5, <1>7, <2>1, <2>2
<1>10. \A w : w \in Decisions(l) <=> w = WishOf(e) \/ (w \in Decisions(k) /\ w.concept # c)
  BY <1>4, <1>5, WishOfFields DEF Decisions, Deciding
<1>11. \A x : x.concept \notin Hints => /\ x \in Noted(l) <=> x \in Noted(k)
                                        /\ x \in InForce(l) <=> x \in InForce(k)
  BY <1>2, <1>4, <1>5
<1> QED  BY <1>4, <1>8, <1>9, <1>10, <1>11 DEF l, e, c

\* A message that is listened to is the buyer's saying it.
LEMMA ListenIsSaid ==
    ASSUME BuyerInv, NEW m \in Messages, Listen(m) PROVE Wishes!Say(m)
<1> DEFINE resolved == OnCosts(m, {"running"})
           open     == pending # Nothing /\ ~resolved
           said     == Statements(m, resolved)
           repeated == open /\ pending.concept \in m.hints /\ Source(said) # 0
           settled  == IF repeated THEN Confirm(said) ELSE said
           still    == open /\ ~repeated
           noticed  == IF still THEN settled ELSE Notice(m, settled, resolved)
           N        == NewHints(m, settled, resolved)
           b        == m.budget
<1> DEFINE running == Asked = CostHint /\ m.answer = "running"
           again   == Asked # Nothing /\ ~running /\ Asked \in m.hints
           waits   == Asked # Nothing /\ ~running /\ ~again
           new     == {h \in m.hints \ Hinted(ledger) :
                         /\ running => h # CostHint
                         /\ h \in EquipmentHints => m.wants \cup m.drops = {}}
           W       == IF again THEN Wishes!Replace(Keeps(m), Wishes!Confirmed(Asked)) ELSE Keeps(m)
<1>1. /\ LedgerInv /\ ledger \in Books /\ revision \in Nat /\ Past
  BY BookPast DEF BuyerInv, LedgerInv
<1>2. /\ EndTurn(m, Collected(noticed, m))
      /\ pending' = IF still THEN pending ELSE AskFirst(m, settled, resolved)
      /\ ~AcceptsRelaxation(m) /\ ~Answers(m, {"yes", "no"}) /\ ~OnCosts(m, {"both", "advise"})
  BY DEF Listen
<1>3. /\ running = resolved /\ resolved = Running(m)
  BY <1>1, <1>2, RunningIs DEF Running, OnCosts, Answers
<1>4. /\ pending # Nothing <=> Asked # Nothing
      /\ pending # Nothing => Asked = pending.concept
  BY <1>1, AskedIs
<1>5. /\ Worded(said) /\ SameHints(said, ledger)
  BY <1>1, <1>3, StatementsKeepHints DEF Running
<1>6. Figure(said) = IF b.kind \in {"none", "drop"} THEN Figure(ledger) ELSE Amount(ledger, b)
  BY <1>1, <1>3, StatementsIs DEF Running
<1>7. Hinted(said) = Hinted(ledger)
  <2>1. said \in Books
    BY <1>5 DEF Worded, Grown
  <2> HIDE DEF said
  <2>2. Hinted(said) = {h \in Hints : \E x \in Noted(said) : x.concept = h}
    BY <2>1, HintedAre
  <2>3. Hinted(ledger) = {h \in Hints : \E x \in Noted(ledger) : x.concept = h}
    BY <1>1, HintedAre
  <2> QED  BY <1>5, <2>2, <2>3 DEF SameHints
<1>8. pending # Nothing => Source(said) # 0
  BY <1>1, <1>5, ConfirmKeeps
<1> HIDE DEF said, resolved
<1>9. repeated = again /\ still = waits
  BY <1>3, <1>4, <1>8
<1>10. /\ Worded(settled) /\ settled \in Books /\ Figure(settled) = Figure(said)
       /\ Hinted(settled) = Hinted(ledger)
       /\ \A w : w \in Decisions(settled) <=>
             \/ again /\ w = WishOf(ConfirmedHint(pending.concept))
             \/ w \in Decisions(said) /\ ~(again /\ w.concept = pending.concept)
       /\ \A x : x.concept \notin Hints => /\ x \in Noted(settled) <=> x \in Noted(said)
                                           /\ x \in InForce(settled) <=> x \in InForce(said)
  <2>1. CASE repeated
    <3>1. settled = Confirm(said) /\ again /\ pending # Nothing
      BY <1>9, <2>1
    <3> HIDE DEF settled, again
    <3> QED  BY <1>1, <1>5, <1>7, <3>1, AgreedDecides
  <2>2. CASE ~repeated
    <3>1. settled = said /\ ~again
      BY <1>9, <2>2
    <3>2. said \in Books
      BY <1>5 DEF Worded, Grown
    <3> HIDE DEF settled, again
    <3> QED  BY <1>5, <1>7, <3>1, <3>2
  <2> QED  BY <2>1, <2>2
<1> HIDE DEF settled
<1>11. N = new
  <2>1. \A h \in Hints : LastActive(settled, {h}) = 0 <=> h \notin Hinted(ledger)
    BY <1>10 DEF Hinted
  <2>2. m.hints \subseteq Hints
    BY MessagesAssumption
  <2> HIDE DEF running
  <2> QED  BY <1>3, <2>1, <2>2 DEF NewHints, IsNew
<1> HIDE DEF N
<1>12. /\ Worded(noticed) /\ noticed \in Books /\ Figure(noticed) = Figure(said)
       /\ Hinted(noticed) = IF waits THEN Hinted(ledger) ELSE Hinted(ledger) \cup new
       /\ Decisions(noticed) = Decisions(settled)
       /\ \A x : x.concept \notin Hints => /\ x \in Noted(noticed) <=> x \in Noted(said)
                                           /\ x \in InForce(noticed) <=> x \in InForce(said)
  <2>1. CASE still
    <3>1. noticed = settled /\ waits
      BY <1>9, <2>1
    <3> HIDE DEF noticed, waits
    <3> QED  BY <1>10, <3>1
  <2>2. CASE ~still
    <3>1. noticed = Notice(m, settled, resolved) /\ ~waits
      BY <1>9, <2>2
    <3> HIDE DEF noticed, waits, new
    <3> QED  BY <1>1, <1>10, <1>11, <3>1, NoticeDecides DEF N
  <2> QED  BY <2>1, <2>2
<1> HIDE DEF noticed
<1>13. Says(m, noticed, W, Heard(m))
  <2>1. again => pending # Nothing
    BY <1>4
  <2>2. said = Statements(m, Running(m))
    BY <1>3 DEF said
  <2> HIDE DEF again
  <2> QED  BY <1>1, <1>10, <1>12, <2>1, <2>2, ListeningSays
<1> HIDE DEF W
<1>14. /\ Wishes!Decide(m, W, Heard(m))
       /\ Hinted(ledger)' = Hinted(noticed) /\ Figure(ledger)' = Figure(noticed)
  BY <1>2, <1>12, <1>13, TurnDecides
<1>15. Asked' \in IF waits THEN {Asked} ELSE IF new = {} THEN {Nothing} ELSE new
  <2>1. CASE still
    <3>1. pending' = pending /\ waits
      BY <1>2, <1>9, <2>1
    <3>2. Asked' = Asked
      BY <3>1 DEF Asked
    <3> QED  BY <3>1, <3>2
  <2>2. CASE ~still
    <3>1. pending' = AskFirst(m, settled, resolved) /\ ~waits
      BY <1>2, <1>9, <2>2
    <3> HIDE DEF waits, new
    <3>2. \/ pending' = Nothing /\ new = {}
          \/ \E h \in new : pending' = [concept |-> h, turn |-> revision + 1]
      BY <1>11, <3>1, AskFirstIs DEF N
    <3>3. new \subseteq Hints
      BY <1>11 DEF N, NewHints
    <3>4. \A h \in new : [concept |-> h, turn |-> revision + 1] # Nothing
      BY <1>1, <3>3, NothingIsNew
    <3>5. CASE pending' = Nothing /\ new = {}
      BY <3>1, <3>5 DEF Asked
    <3>6. ASSUME NEW h \in new, pending' = [concept |-> h, turn |-> revision + 1]
          PROVE  Asked' = h
      BY <3>4, <3>6 DEF Asked
    <3> QED  BY <3>1, <3>2, <3>5, <3>6
  <2> QED  BY <2>1, <2>2
<1>16. Figure(ledger)' = IF Wishes!NewFigure(b) = Nothing THEN Figure(ledger) ELSE Wishes!NewFigure(b)
  <2>1. Wishes!NewFigure(b) = IF b.kind \in {"none", "drop"} THEN Nothing ELSE Amount(ledger, b)
    BY <1>1, NewFigureIs
  <2>2. Amount(ledger, b) # Nothing
    BY <1>1, AmountIs, NothingIsNew
  <2> QED  BY <1>6, <1>12, <1>14, <2>1, <2>2
<1>17. /\ ~Wishes!ToBrand(m) /\ ~Wishes!ToQuestion(m, {"yes", "no"})
       /\ Asked = CostHint => ~Wishes!ToQuestion(m, {"both", "advise"})
  BY <1>1, <1>2, AskedIs DEF Wishes!ToBrand, AcceptsRelaxation, OnCosts, Answers
<1>18. Hinted(ledger)' = IF waits THEN Hinted(ledger) ELSE Hinted(ledger) \cup new
  BY <1>12, <1>14
<1>19. /\ Wishes!Without(Wishes!Freed(m), IF b.kind = "drop" THEN Wishes!Budgets ELSE {})
             \ {w \in ActiveDecisionPreferences(ledger) : w.concept = "equipmentFeature" /\ w.value \in m.drops}
          = Keeps(m)
       /\ Wishes!Meant(m, m.states) \cup Wishes!PriceWish(b)
             \cup {Wishes!Wish("equipmentFeature", v, "HARD_FILTER") : v \in m.wants}
             \cup (IF running THEN Wishes!CostWish("running") ELSE {})
          = Heard(m)
  BY <1>1, DecisionsAre DEF Keeps, Heard, Running, Wishes!Budgets, Budgets, Wishes!Wish, Wish
<1>20. cargo' = (cargo \/ (m.carries /\ (m.disowns => Wishes!MeantLoads)))
  BY <1>1, LoadsAre DEF Listen, Carries
<1> QED  BY <1>14, <1>15, <1>16, <1>17, <1>18, <1>19, <1>20 DEF Wishes!Say, Asked, Hinted, Figure, W

\* Small talk is small talk.
LEMMA ChatIsChat ==
    ASSUME BuyerInv, NEW m \in Idle, Chat(m) PROVE Wishes!Chat(m)
<1>1. ledger \in Books
  BY DEF BuyerInv, LedgerInv, BookInv
<1>2. /\ EndTurn(m, ledger) /\ pending' = pending /\ ledger' = ledger /\ cargo' = cargo
      /\ message' = m /\ budgetMode' = IF m.mode = "same" THEN budgetMode ELSE m.mode
  BY DEF Chat, EndTurn
<1>3. ActiveDecisionPreferences(ledger) = Decisions(ledger)
  BY <1>1, DecisionsAre
<1>4. /\ ActiveDecisionPreferences(ledger)' = ActiveDecisionPreferences(ledger)
      /\ Hinted(ledger)' = Hinted(ledger) /\ Asked' = Asked /\ Figure(ledger)' = Figure(ledger)
  BY <1>2 DEF Asked
<1>5. ProjectDecision(ledger', budgetMode') = Wishes!CriteriaOf(ActiveDecisionPreferences(ledger), budgetMode')
  BY <1>1, <1>2, <1>3, CriteriaAre
<1>6. Wishes!MayStillAsk(m, Decisions(ledger))
  BY <1>1, <1>2, RelaxingIs DEF Wishes!MayStillAsk
<1> QED  BY <1>2, <1>3, <1>4, <1>5, <1>6 DEF Wishes!Chat, Hinted, Asked, Figure

\* An empty ledger says that the buyer wishes nothing.
LEMMA BuyerBegins == ASSUME LedgerInit PROVE BuyerInv /\ Wishes!Init
<1>1. /\ ledger = <<>> /\ pending = Nothing /\ relaxBrand = FALSE /\ message = Nothing
      /\ budgetMode = "needs" /\ cargo = FALSE
  BY DEF LedgerInit
<1>2. LedgerInv
  BY LedgerBegins
<1>3. ledger \in Books /\ Noted(ledger) = {}
  BY <1>1 DEF Books, Noted
<1>4. Decisions(ledger) = {}
  BY <1>3, ForceIsNoted DEF Decisions, Deciding
<1>5. ActiveDecisionPreferences(ledger) = {}
  BY <1>3, <1>4, DecisionsAre
<1>6. ProjectDecision(ledger, budgetMode) = {}
  <2>1. ProjectDecision(ledger, budgetMode) = Wishes!CriteriaOf({}, budgetMode)
    BY <1>3, <1>4, CriteriaAre
  <2> QED  BY <2>1 DEF Wishes!CriteriaOf, Wishes!Without, Wishes!About
<1>7. Hinted(ledger) = {}
  BY <1>3, HintedAre
<1>8. Figure(ledger) = Nothing
  BY <1>3, LastActiveIs DEF Figure
<1> QED  BY <1>1, <1>2, <1>5, <1>6, <1>7, <1>8 DEF BuyerInv, Wishes!Init, Hinted, Figure

\* Every turn of the ledger is a turn of the buyer's.
LEMMA BuyerSteps ==
    ASSUME BuyerInv, [LedgerNext]_ledgerVars PROVE BuyerInv' /\ [Wishes!Next]_Wishes!vars
<1>1. LedgerInv'
  BY LedgerSteps DEF BuyerInv
<1>2. CASE LedgerNext
  <2>1. Wishes!Next
    <3>1. ASSUME NEW m \in Messages,
                 RelaxBrand(m) \/ ConfirmPending(m) \/ RejectPending(m) \/ SettleCosts(m) \/ Listen(m)
          PROVE  Wishes!Turn(m)
      BY <3>1, RelaxBrandIsGivenUp, ConfirmPendingIsAgreed, RejectPendingIsRefused,
         SettleCostsIsWeighed, ListenIsSaid DEF Wishes!Turn
    <3> QED  BY <1>2, <3>1, ChatIsChat DEF LedgerNext, Wishes!Next
  <2>2. relaxBrand' \in BOOLEAN
    <3>1. \E m, l : EndTurn(m, l)
      BY <1>2 DEF LedgerNext, RelaxBrand, ConfirmPending, RejectPending, SettleCosts, Listen, Chat
    <3> QED  BY <3>1 DEF EndTurn, AskToRelax
  <2> QED  BY <1>1, <2>1, <2>2 DEF BuyerInv
<1>3. CASE UNCHANGED ledgerVars
  BY <1>1, <1>3 DEF ledgerVars, BuyerInv, Wishes!vars, Hinted, Asked, Figure
<1> QED  BY <1>2, <1>3

\* The ledger of events, read through activeDecisionPreferences() and
\* projectDecision(), implements the buyer's wishes: whatever its entries
\* supersede, clear or reject, what decides after each turn is what the buyer's
\* messages up to then amount to, and the question and the brand offer follow.
THEOREM LedgerFollowsTheBuyer == LedgerSpec => FollowsTheBuyer
<1>1. LedgerSpec => []BuyerInv
  BY BuyerBegins, BuyerSteps, PTL DEF LedgerSpec
<1> QED  BY <1>1, BuyerBegins, BuyerSteps, PTL DEF LedgerSpec, FollowsTheBuyer, Wishes!Spec

(***************************************************************************)
(* The request form.                                                       *)
(***************************************************************************)
USE DEF browserVars, serverVars

\* What a request or an answer carries, by what it asks or says.
LEMMA Kinds ==
    ASSUME NEW w \in Question \cup Reply
    PROVE  /\ w.form \in Forms
           /\ w.op \in {"send", "verify", "submit"} <=> w \notin Reply
           /\ w.op \in {"send", "verify", "submit", "sent", "verified", "notSent",
                        "notVerified", "success", "duplicate", "refused", "lost"}
           /\ w.op \in {"send", "submit"} => w.phone \in Phones
           /\ w.op \in {"verify", "sent", "verified"} => w.challenge \in Challenges
           /\ w.op = "submit" => w.token \in Challenges
BY DEF Question, Reply

-----------------------------------------------------------------------------
(***************************************************************************)
(* The browser.  Only a page that was opened asks anything, and a page     *)
(* that was opened knows the link it came from for good.                   *)
(***************************************************************************)
PageOK ==
    /\ page \in [Forms -> Page]
    /\ wires \subseteq Question \cup Reply
    /\ \A f \in Forms : page[f].status # "closed" => page[f].handoff \in Handoffs
    /\ \A w \in wires : page[w.form].status # "closed"

\* No page is open at first.
LEMMA PageInit == Init => PageOK
BY DEF Init, PageOK, Page

\* A page that changes keeps its link, and stays open; it asks for itself only.
LEMMA PageChanges ==
    ASSUME PageOK, NEW f \in Forms, NEW q \in Page,
           page' = [page EXCEPT ![f] = q], q.status # "closed", q.handoff \in Handoffs,
           NEW asked \in SUBSET Question, \A w \in asked : w.form = f,
           wires' \subseteq wires \cup asked
    PROVE  PageOK'
<1>1. /\ page \in [Forms -> Page]
      /\ wires \subseteq Question \cup Reply
      /\ \A g \in Forms : page[g].status # "closed" => page[g].handoff \in Handoffs
      /\ \A w \in wires : page[w.form].status # "closed"
  BY DEF PageOK
<1>2. page' \in [Forms -> Page]
  BY <1>1
<1>3. wires' \subseteq Question \cup Reply
  BY <1>1
<1>4. \A g \in Forms : page'[g].status # "closed" => page'[g].handoff \in Handoffs
  BY <1>1
<1>5. ASSUME NEW w \in wires' PROVE page'[w.form].status # "closed"
  <2>1. CASE w \in asked
    BY <1>1, <2>1
  <2>2. CASE w \in wires
    <3>1. w.form \in Forms
      BY <1>1, <2>2, Kinds
    <3> QED  BY <1>1, <2>2, <3>1
  <2> QED  BY <2>1, <2>2
<1> QED  BY <1>2, <1>3, <1>4, <1>5 DEF PageOK

\* A page can change by itself.
LEMMA PageAlone ==
    ASSUME PageOK, NEW f \in Forms, NEW q \in Page,
           page' = [page EXCEPT ![f] = q], q.status # "closed", q.handoff \in Handoffs,
           wires' \subseteq wires
    PROVE  PageOK'
<1>1. wires' \subseteq wires \cup {} /\ {} \in SUBSET Question /\ \A w \in {} : w.form = f
  OBVIOUS
<1> QED  BY <1>1, PageChanges

\* Whatever answers a request goes back to the page that asked.
LEMMA PageAnswered ==
    ASSUME PageOK, page' = page, NEW w \in wires, NEW reply \in Reply, reply.form = w.form,
           wires' = (wires \ {w}) \cup {reply}
    PROVE  PageOK'
<1>1. page[reply.form].status # "closed"
  BY DEF PageOK
<1>2. wires' \subseteq Question \cup Reply /\ \A x \in wires' : page[x.form].status # "closed"
  BY <1>1 DEF PageOK
<1> QED  BY <1>2 DEF PageOK

\* Every step keeps what the pages know.
LEMMA PageNext == PageOK /\ [Next]_vars => PageOK'
<1> SUFFICES ASSUME PageOK, [Next]_vars PROVE PageOK'
  OBVIOUS
<1> USE NoneIsNew
<1>0. /\ page \in [Forms -> Page]
      /\ wires \subseteq Question \cup Reply
      /\ \A f \in Forms : page[f].status # "closed" => page[f].handoff \in Handoffs
      /\ \A w \in wires : page[w.form].status # "closed"
  BY DEF PageOK
<1>1. ASSUME NEW f \in Forms, NEW h \in Handoffs, NEW i \in Instances, Open(f, h, i) PROVE PageOK'
  <2> DEFINE q == [page[f] EXCEPT !.handoff = h, !.status = "ready"]
  <2>1. q \in Page /\ q.status # "closed" /\ q.handoff \in Handoffs
    BY <1>0 DEF Page
  <2>2. page' = [page EXCEPT ![f] = q]
    BY <1>0, <1>1 DEF Open
  <2> HIDE DEF q
  <2> QED  BY <1>1, <2>1, <2>2, PageAlone DEF Open
<1>2. ASSUME NEW f \in Forms, NEW p \in Phones, TypePhone(f, p) PROVE PageOK'
  <2> DEFINE q == [page[f] EXCEPT !.phone = p, !.challenge = None, !.token = None,
                                  !.waiting = FALSE]
  <2>1. q \in Page /\ q.status # "closed" /\ q.handoff \in Handoffs
    BY <1>0, <1>2 DEF Page, TypePhone, Shows
  <2>2. page' = [page EXCEPT ![f] = q]
    BY <1>0, <1>2 DEF TypePhone
  <2> HIDE DEF q
  <2> QED  BY <1>2, <2>1, <2>2, PageAlone DEF TypePhone
<1>3. ASSUME NEW f \in Forms, AskCode(f) PROVE PageOK'
  <2> DEFINE q == [page[f] EXCEPT !.waiting = TRUE]
             x == [op |-> "send", form |-> f, phone |-> page[f].phone]
  <2>1. q \in Page /\ q.status # "closed" /\ q.handoff \in Handoffs
    <3>1. page[f] \in Page /\ page[f].status # "closed"
      BY <1>0, <1>3 DEF AskCode, Shows
    <3>2. q \in Page /\ q.status \in {page[f].status, "sending"} /\ q.handoff = page[f].handoff
      BY <3>1 DEF Page
    <3> QED  BY <1>0, <3>1, <3>2
  <2>2. page' = [page EXCEPT ![f] = q]
    BY <1>0, <1>3 DEF AskCode
  <2>3. x \in Question /\ x.form = f
    BY <1>0, <1>3 DEF Page, AskCode, Question
  <2>4. wires' = wires \cup {x}
    BY <1>3 DEF AskCode
  <2> HIDE DEF q, x
  <2>5. {x} \in SUBSET Question /\ \A w \in {x} : w.form = f
    BY <2>3
  <2> QED  BY <2>1, <2>2, <2>4, <2>5, PageChanges
<1>4. ASSUME NEW f \in Forms, NEW right \in BOOLEAN, EnterCode(f, right) PROVE PageOK'
  <2> DEFINE q == [page[f] EXCEPT !.waiting = TRUE]
             x == [op |-> "verify", form |-> f, challenge |-> page[f].challenge, right |-> right]
  <2>1. q \in Page /\ q.status # "closed" /\ q.handoff \in Handoffs
    <3>1. page[f] \in Page /\ page[f].status # "closed"
      BY <1>0, <1>4 DEF EnterCode, Shows
    <3>2. q \in Page /\ q.status \in {page[f].status, "sending"} /\ q.handoff = page[f].handoff
      BY <3>1 DEF Page
    <3> QED  BY <1>0, <3>1, <3>2
  <2>2. page' = [page EXCEPT ![f] = q]
    BY <1>0, <1>4 DEF EnterCode
  <2>3. x \in Question /\ x.form = f
    BY <1>0, <1>4 DEF Page, EnterCode, Question
  <2>4. wires' = wires \cup {x}
    BY <1>4 DEF EnterCode
  <2> HIDE DEF q, x
  <2>5. {x} \in SUBSET Question /\ \A w \in {x} : w.form = f
    BY <2>3
  <2> QED  BY <2>1, <2>2, <2>4, <2>5, PageChanges
<1>5. ASSUME NEW f \in Forms, Submit(f) PROVE PageOK'
  <2> DEFINE q == [page[f] EXCEPT !.status = "sending"]
             x == [op |-> "submit", form |-> f, phone |-> page[f].phone, token |-> page[f].token]
  <2>1. q \in Page /\ q.status # "closed" /\ q.handoff \in Handoffs
    <3>1. page[f] \in Page /\ page[f].status # "closed"
      BY <1>0, <1>5 DEF Submit
    <3>2. q \in Page /\ q.status \in {page[f].status, "sending"} /\ q.handoff = page[f].handoff
      BY <3>1 DEF Page
    <3> QED  BY <1>0, <3>1, <3>2
  <2>2. page' = [page EXCEPT ![f] = q]
    BY <1>0, <1>5 DEF Submit
  <2>3. x \in Question /\ x.form = f
    BY <1>0, <1>5 DEF Page, Submit, Question
  <2>4. wires' = wires \cup {x}
    BY <1>5 DEF Submit
  <2> HIDE DEF q, x
  <2>5. {x} \in SUBSET Question /\ \A w \in {x} : w.form = f
    BY <2>3
  <2> QED  BY <2>1, <2>2, <2>4, <2>5, PageChanges
<1>6. ASSUME NEW w \in wires, Receive(w) PROVE PageOK'
  <2> DEFINE q == Shown(page[w.form], w)
  <2>1. w.form \in Forms
    BY <1>0, Kinds
  <2>2. /\ w \in Reply
        /\ page' = [page EXCEPT ![w.form] = q]
        /\ wires' \subseteq wires
    BY <1>6 DEF Receive
  <2>3. page[w.form] \in Page /\ page[w.form].status # "closed"
    BY <1>0, <2>1
  <2>4. /\ w.op \in {"sent", "verified", "notSent", "notVerified", "success", "duplicate",
                     "refused", "lost"}
        /\ w.op \in {"sent", "verified"} => w.challenge \in Challenges
    BY <2>2, Kinds
  <2>5. q \in Page /\ q.status # "closed" /\ q.handoff = page[w.form].handoff
    <3>1. CASE w.op = "sent"
      BY <2>3, <2>4, <3>1 DEF Page, Shown
    <3>2. CASE w.op = "verified"
      BY <2>3, <2>4, <3>2 DEF Page, Shown
    <3>3. CASE w.op \in {"notSent", "notVerified"}
      BY <2>3, <3>3 DEF Page, Shown
    <3>4. CASE w.op \in {"success", "duplicate", "refused", "lost"}
      BY <2>3, <3>4 DEF Page, Shown
    <3> QED  BY <2>4, <3>1, <3>2, <3>3, <3>4
  <2> HIDE DEF q
  <2> QED  BY <1>0, <2>1, <2>2, <2>3, <2>5, PageAlone
<1>7. ASSUME NEW w \in wires, Lose(w) PROVE PageOK'
  <2>1. w.form \in Forms
    BY <1>0, Kinds
  <2>2. Failure(w) \in Reply /\ Failure(w).form = w.form
    <3>1. w.op \in {"send", "verify", "submit", "sent", "verified", "success", "duplicate",
                    "refused"}
      BY <1>0, <1>7, Kinds DEF Lose
    <3>2. Failure(w).op \in {"notSent", "notVerified", "lost"}
      BY <3>1 DEF Failure
    <3> QED  BY <2>1, <3>2 DEF Failure, Reply
  <2> QED  BY <1>7, <2>2, PageAnswered DEF Lose
<1>8. ASSUME NEW w \in wires, NEW c \in Challenges, NEW i \in Instances, IssueCode(w, c, i)
      PROVE  PageOK'
  <2>1. w.form \in Forms
    BY <1>0, Kinds
  <2>2. [op |-> "sent", form |-> w.form, challenge |-> c] \in Reply
    BY <2>1 DEF Reply
  <2>3. [op |-> "notSent", form |-> w.form] \in Reply
    BY <2>1 DEF Reply
  <2> QED  BY <1>8, <2>2, <2>3, PageAnswered DEF IssueCode, Answer
<1>9. ASSUME NEW w \in wires, NEW i \in Instances, CheckCode(w, i) PROVE PageOK'
  <2>1. w.form \in Forms /\ w.challenge \in Challenges
    BY <1>0, <1>9, Kinds DEF CheckCode
  <2>2. [op |-> "verified", form |-> w.form, challenge |-> w.challenge] \in Reply
    BY <2>1 DEF Reply
  <2>3. [op |-> "notVerified", form |-> w.form] \in Reply
    BY <2>1 DEF Reply
  <2> QED  BY <1>9, <2>2, <2>3, PageAnswered DEF CheckCode, Answer
<1>10. ASSUME NEW w \in wires, NEW i \in Instances, CreateRequest(w, i) PROVE PageOK'
  <2>1. w.form \in Forms
    BY <1>0, Kinds
  <2>2. \A op \in {"success", "duplicate", "refused"} : [op |-> op, form |-> w.form] \in Reply
    BY <2>1 DEF Reply
  <2>3. \E op \in {"success", "duplicate", "refused"} :
           wires' = (wires \ {w}) \cup {[op |-> op, form |-> w.form]}
    BY <1>10 DEF CreateRequest, Answer
  <2> QED  BY <1>10, <2>2, <2>3, PageAnswered DEF CreateRequest
<1>11. CASE UNCHANGED <<page, wires>>
  BY <1>11 DEF PageOK
<1> QED
  BY <1>1, <1>2, <1>3, <1>4, <1>5, <1>6, <1>7, <1>8, <1>9, <1>10, <1>11
     DEF Next, vars, ExpireCode, ExpireVerification, ExpireCsrf, Restart
-----------------------------------------------------------------------------
(***************************************************************************)
(* The server.  A challenge is never forgotten and never takes back that   *)
(* it was verified; a verification exists only for one that was.           *)
(***************************************************************************)
ChallengesOK ==
    /\ challenges \in [Challenges -> Challenge \cup {None}]
    /\ \A c \in Challenges :
        challenges[c] # None /\ challenges[c].verified => challenges[c].attempts \in 1..MaxAttempts
    /\ verifications \in [Challenges -> {"none", "fresh", "used", "expired"}]
    /\ \A c \in Challenges :
        verifications[c] # "none" => challenges[c] # None /\ challenges[c].verified

\* What a step may do to a challenge.
Kept(c) ==
    challenges[c] # None =>
        /\ challenges'[c] # None
        /\ challenges'[c].at = challenges[c].at
        /\ challenges'[c].phone = challenges[c].phone
        /\ challenges'[c].handoff = challenges[c].handoff
        /\ challenges[c].verified => challenges'[c].verified
        /\ challenges'[c].verified =>
               challenges[c].verified \/ challenges[c].attempts < MaxAttempts

AllKept == \A c \in Challenges : Kept(c)

\* There are no challenges at first.
LEMMA ChallengesInit == Init => ChallengesOK
BY NoneIsNew DEF Init, ChallengesOK

\* One challenge becomes q, and nothing happens to the verifications.
LEMMA OneChanges ==
    ASSUME ChallengesOK, NEW c \in Challenges, NEW q \in Challenge,
           challenges' = [challenges EXCEPT ![c] = q], verifications' = verifications,
           q.verified => q.attempts \in 1..MaxAttempts,
           challenges[c] # None =>
               /\ q.at = challenges[c].at /\ q.phone = challenges[c].phone
               /\ q.handoff = challenges[c].handoff /\ q.verified = challenges[c].verified
    PROVE  ChallengesOK' /\ AllKept
BY NoneIsNew DEF ChallengesOK, AllKept, Kept

\* Every step keeps the challenges, and forgets none.
LEMMA ChallengesNext ==
    ASSUME PageOK, ChallengesOK, [Next]_vars
    PROVE  ChallengesOK' /\ AllKept
<1> USE NoneIsNew, MaxAttemptsPositive
<1>0. /\ challenges \in [Challenges -> Challenge \cup {None}]
      /\ \A c \in Challenges : challenges[c] # None /\ challenges[c].verified =>
            challenges[c].attempts \in 1..MaxAttempts
      /\ verifications \in [Challenges -> {"none", "fresh", "used", "expired"}]
      /\ \A c \in Challenges :
            verifications[c] # "none" => challenges[c] # None /\ challenges[c].verified
  BY DEF ChallengesOK
<1>1. ASSUME NEW w \in wires, NEW c \in Challenges, NEW i \in Instances, IssueCode(w, c, i),
             challenges' # challenges
      PROVE  ChallengesOK' /\ AllKept
  <2> DEFINE q == [at |-> i, phone |-> w.phone, handoff |-> page[w.form].handoff, attempts |-> 0,
                   verified |-> FALSE, expired |-> FALSE]
  <2>1. w.phone \in Phones /\ page[w.form].handoff \in Handoffs
    BY <1>1, Kinds DEF PageOK, IssueCode
  <2>2. q \in Challenge /\ q.verified = FALSE
    BY <2>1 DEF Challenge
  <2>3. /\ challenges[c] = None
        /\ challenges' = [challenges EXCEPT ![c] = q]
        /\ verifications' = verifications
    BY <1>1 DEF IssueCode
  <2> HIDE DEF q
  <2> QED  BY <2>2, <2>3, OneChanges
<1>2. ASSUME NEW w \in wires, NEW i \in Instances, CheckCode(w, i)
      PROVE  ChallengesOK' /\ AllKept
  <2> DEFINE c == w.challenge
             live == Live(c, page[w.form].handoff, i)
             ok == live /\ TryCounts(c) /\ w.right
             tries == IF challenges[c].attempts <= MaxAttempts
                      THEN challenges[c].attempts + 1 ELSE challenges[c].attempts
             q == [challenges[c] EXCEPT !.attempts = tries, !.verified = ok]
  <2>1. c \in Challenges
    BY <1>2, Kinds DEF PageOK, CheckCode
  <2>2. CASE ~live
    <3>1. challenges' = challenges /\ verifications' = verifications
      BY <1>2, <2>2, Zenon DEF CheckCode
    <3> QED  BY <1>0, <3>1 DEF ChallengesOK, AllKept, Kept
  <2>3. CASE live
    <3>1. challenges[c] \in Challenge /\ challenges[c].verified = FALSE
      BY <1>0, <2>1, <2>3 DEF Live, Challenge
    <3>2. challenges[c].attempts \in 0..MaxAttempts + 1
      BY <3>1 DEF Challenge
    <3>3. tries \in 0..MaxAttempts + 1 /\ (ok => tries \in 1..MaxAttempts)
      BY <3>2 DEF TryCounts
    <3>4. ok \in BOOLEAN
      BY DEF Live
    <3>5. challenges' = [challenges EXCEPT ![c] = q]
      <4>1. challenges' = [challenges EXCEPT
                  ![c].attempts = IF @ <= MaxAttempts THEN @ + 1 ELSE @, ![c].verified = ok]
        BY <1>2, <2>3, Zenon DEF CheckCode
      <4> QED  BY <1>0, <2>1, <3>1, <4>1 DEF Challenge
    <3>6. verifications' = IF ok THEN [verifications EXCEPT ![c] = "fresh"] ELSE verifications
      BY <1>2, Zenon DEF CheckCode
    <3> HIDE DEF ok, live, tries, c
    <3>7. /\ q \in Challenge /\ q.verified = ok /\ q.attempts = tries
          /\ q.at = challenges[c].at /\ q.phone = challenges[c].phone
          /\ q.handoff = challenges[c].handoff
      BY <3>1, <3>3, <3>4 DEF Challenge
    <3> HIDE DEF q
    <3>8. ok => challenges[c].attempts < MaxAttempts
      BY <3>2 DEF ok, TryCounts
    <3>9. AllKept
      BY <1>0, <2>1, <3>1, <3>5, <3>7, <3>8 DEF AllKept, Kept
    <3>10. challenges' \in [Challenges -> Challenge \cup {None}]
      BY <1>0, <2>1, <3>5, <3>7
    <3>11. \A d \in Challenges : challenges'[d] # None /\ challenges'[d].verified =>
              challenges'[d].attempts \in 1..MaxAttempts
      BY <1>0, <2>1, <3>3, <3>5, <3>7
    <3>12. verifications' \in [Challenges -> {"none", "fresh", "used", "expired"}]
      BY <1>0, <2>1, <3>6
    <3>13. \A d \in Challenges :
              verifications'[d] # "none" => challenges'[d] # None /\ challenges'[d].verified
      <4> TAKE d \in Challenges
      <4>1. CASE d = c /\ ok
        BY <1>0, <2>1, <3>5, <3>7, <4>1
      <4>2. CASE ~(d = c /\ ok)
        <5>1. verifications'[d] = verifications[d]
          BY <1>0, <2>1, <3>6, <4>2
        <5> QED  BY <1>0, <3>9, <5>1 DEF AllKept, Kept
      <4> QED  BY <4>1, <4>2
    <3> QED  BY <3>9, <3>10, <3>11, <3>12, <3>13 DEF ChallengesOK
  <2> QED  BY <2>2, <2>3
<1>3. ASSUME NEW w \in wires, NEW i \in Instances, CreateRequest(w, i)
      PROVE  ChallengesOK' /\ AllKept
  <2>1. challenges' = challenges
    BY <1>3 DEF CreateRequest
  <2>2. verifications' = verifications
           \/ /\ verifications[w.token] = "fresh"
              /\ verifications' = [verifications EXCEPT ![w.token] = "used"]
    BY <1>3 DEF CreateRequest, Consumable
  <2> QED  BY <1>0, <2>1, <2>2 DEF ChallengesOK, AllKept, Kept
<1>4. ASSUME NEW c \in Challenges, ExpireCode(c) PROVE ChallengesOK' /\ AllKept
  <2> DEFINE q == [challenges[c] EXCEPT !.expired = TRUE]
  <2>1. challenges[c] \in Challenge
    BY <1>0, <1>4 DEF ExpireCode
  <2>2. /\ q \in Challenge /\ q.verified = challenges[c].verified
        /\ q.attempts = challenges[c].attempts /\ q.at = challenges[c].at
        /\ q.phone = challenges[c].phone /\ q.handoff = challenges[c].handoff
    BY <2>1 DEF Challenge
  <2>3. challenges' = [challenges EXCEPT ![c] = q] /\ verifications' = verifications
    BY <1>4 DEF ExpireCode
  <2> HIDE DEF q
  <2> QED  BY <1>0, <1>4, <2>1, <2>2, <2>3, OneChanges DEF ExpireCode
<1>5. ASSUME NEW c \in Challenges, ExpireVerification(c) PROVE ChallengesOK' /\ AllKept
  BY <1>0, <1>5 DEF ExpireVerification, ChallengesOK, AllKept, Kept
<1>6. ASSUME NEW i \in Instances, Restart(i) PROVE ChallengesOK' /\ AllKept
  <2>1. \A c \in Challenges :
           \/ challenges'[c] = challenges[c]
           \/ /\ challenges[c] \in Challenge
              /\ challenges'[c] = [challenges[c] EXCEPT !.expired = TRUE]
    BY <1>0, <1>6 DEF Restart
  <2>2. \A c \in Challenges :
           /\ challenges'[c] \in Challenge \cup {None}
           /\ challenges'[c] = None <=> challenges[c] = None
           /\ challenges'[c] # None =>
                 /\ challenges'[c].at = challenges[c].at
                 /\ challenges'[c].phone = challenges[c].phone
                 /\ challenges'[c].handoff = challenges[c].handoff
                 /\ challenges'[c].verified = challenges[c].verified
                 /\ challenges'[c].attempts = challenges[c].attempts
    <3> TAKE c \in Challenges
    <3>1. CASE challenges'[c] = challenges[c]
      BY <1>0, <3>1
    <3>2. CASE /\ challenges[c] \in Challenge
               /\ challenges'[c] = [challenges[c] EXCEPT !.expired = TRUE]
      <4> DEFINE q == [challenges[c] EXCEPT !.expired = TRUE]
      <4>1. /\ q \in Challenge /\ q.verified = challenges[c].verified
            /\ q.attempts = challenges[c].attempts /\ q.at = challenges[c].at
            /\ q.phone = challenges[c].phone /\ q.handoff = challenges[c].handoff
        BY <3>2 DEF Challenge
      <4>2. challenges'[c] = q
        BY <3>2
      <4> HIDE DEF q
      <4> QED  BY <3>2, <4>1, <4>2
    <3> QED  BY <2>1, <3>1, <3>2
  <2>3. \A c \in Challenges :
           /\ verifications'[c] \in {"none", "fresh", "used", "expired"}
           /\ verifications'[c] # "none" => verifications[c] # "none"
    BY <1>0, <1>6 DEF Restart
  <2>4. /\ challenges' = [c \in Challenges |-> challenges'[c]]
        /\ verifications' = [c \in Challenges |-> verifications'[c]]
    BY <1>6 DEF Restart
  <2>5. ChallengesOK'
    BY <1>0, <2>2, <2>3, <2>4 DEF ChallengesOK
  <2> QED  BY <2>2, <2>5 DEF AllKept, Kept
<1>7. CASE UNCHANGED <<challenges, verifications>>
  BY <1>0, <1>7 DEF ChallengesOK, AllKept, Kept
<1> QED
  BY <1>1, <1>2, <1>3, <1>4, <1>5, <1>6, <1>7
     DEF Next, vars, Open, TypePhone, AskCode, EnterCode, Submit, Receive, Lose, ExpireCsrf,
         IssueCode
-----------------------------------------------------------------------------
(***************************************************************************)
(* The stored requests.  What stores one has a fresh verification in hand, *)
(* and its challenge is kept from then on.                                 *)
(***************************************************************************)
RecordsOK ==
    /\ csrf \in [Forms -> Instances \cup {None}]
    /\ records \subseteq Record
    /\ StoredPhoneWasVerified

\* Nothing is stored at first.
LEMMA RecordsInit == Init => RecordsOK
BY DEF Init, RecordsOK, StoredPhoneWasVerified

\* What is verified stays verified, for the phone, the link and the instance it
\* was.
LEMMA RecordsKept ==
    ASSUME RecordsOK, AllKept, records' \subseteq records,
           csrf' \in [Forms -> Instances \cup {None}]
    PROVE  RecordsOK'
BY DEF RecordsOK, StoredPhoneWasVerified, AllKept, Kept, Record

\* Every step keeps the stored requests justified.
LEMMA RecordsNext ==
    ASSUME PageOK, ChallengesOK, RecordsOK, AllKept, [Next]_vars
    PROVE  RecordsOK'
<1>1. csrf \in [Forms -> Instances \cup {None}] /\ records \subseteq Record
  BY DEF RecordsOK
<1>2. ASSUME NEW w \in wires, NEW i \in Instances, CreateRequest(w, i) PROVE RecordsOK'
  <2> DEFINE r == [form |-> w.form, phone |-> w.phone, handoff |-> page[w.form].handoff,
                   token |-> w.token, at |-> i]
  <2>1. csrf' = [csrf EXCEPT ![w.form] = IF @ = i THEN None ELSE @]
    BY <1>2 DEF CreateRequest
  <2>2. csrf' \in [Forms -> Instances \cup {None}]
    BY <1>1, <2>1
  <2>3. CASE records' = records
    BY <2>2, <2>3, RecordsKept
  <2>4. CASE records' # records
    <3>1. Consumable(w, i) /\ records' = records \cup {r} /\ challenges' = challenges
      BY <1>2, <2>4 DEF CreateRequest
    <3>2. /\ w.form \in Forms /\ w.phone \in Phones /\ w.token \in Challenges
          /\ page[w.form].handoff \in Handoffs
      BY <1>2, Kinds DEF PageOK, CreateRequest
    <3>3. r \in Record
      BY <3>2 DEF Record
    <3>4. challenges[w.token] # None /\ challenges[w.token].verified
      BY <3>1, <3>2 DEF Consumable, ChallengesOK
    <3>5. /\ r.token = w.token /\ r.phone = challenges[w.token].phone
          /\ r.handoff = challenges[w.token].handoff /\ r.at = challenges[w.token].at
      BY <3>1 DEF Consumable
    <3> HIDE DEF r
    <3>6. StoredPhoneWasVerified'
      BY <3>1, <3>4, <3>5 DEF RecordsOK, StoredPhoneWasVerified
    <3> QED  BY <1>1, <2>2, <3>1, <3>3, <3>6 DEF RecordsOK
  <2> QED  BY <2>3, <2>4
<1>3. ASSUME NEW f \in Forms, NEW h \in Handoffs, NEW i \in Instances, Open(f, h, i)
      PROVE  RecordsOK'
  BY <1>1, <1>3, RecordsKept DEF Open
<1>4. ASSUME NEW f \in Forms, ExpireCsrf(f) PROVE RecordsOK'
  BY <1>1, <1>4, RecordsKept DEF ExpireCsrf
<1>5. ASSUME NEW i \in Instances, Restart(i) PROVE RecordsOK'
  <2>1. csrf' \in [Forms -> Instances \cup {None}] /\ records' \subseteq records
    BY <1>1, <1>5 DEF Restart
  <2> QED  BY <2>1, RecordsKept
<1>6. CASE UNCHANGED <<csrf, records>>
  BY <1>1, <1>6, RecordsKept
<1> QED
  BY <1>2, <1>3, <1>4, <1>5, <1>6
     DEF Next, vars, TypePhone, AskCode, EnterCode, Submit, Receive, Lose, IssueCode,
         CheckCode, ExpireCode, ExpireVerification

-----------------------------------------------------------------------------
(* The theorems.                                                           *)

RequestInv == PageOK /\ ChallengesOK /\ RecordsOK

\* The three parts together hold at first,
LEMMA RequestInvInit == Init => RequestInv
BY PageInit, ChallengesInit, RecordsInit DEF RequestInv

\* every step keeps them,
LEMMA RequestInvNext == RequestInv /\ [Next]_vars => RequestInv' /\ AllKept
BY PageNext, ChallengesNext, RecordsNext DEF RequestInv

\* and so they always hold.
LEMMA RequestInvHolds == Spec => []RequestInv
BY RequestInvInit, RequestInvNext, PTL DEF Spec

\* Pages, what is in flight, codes, verifications and stored requests have their
\* types, and a code that was accepted was tried at most five times.
THEOREM TypeCorrect == Spec => []TypeOK
<1>1. RequestInv => TypeOK
  BY DEF RequestInv, PageOK, ChallengesOK, RecordsOK, TypeOK
<1> QED  BY <1>1, RequestInvHolds, PTL

\* Every stored request names a phone that was verified for the link and on the
\* instance it is stored for and on: createSalesRequest() asks
\* consumePhoneVerification() with the number it stores.
THEOREM PhonesAreVerified == Spec => []StoredPhoneWasVerified
<1>1. RequestInv => StoredPhoneWasVerified
  BY DEF RequestInv, RecordsOK
<1> QED  BY <1>1, RequestInvHolds, PTL

\* verifyPhoneOtp() never accepts a code once it was tried five times in vain,
\* whatever is lost, expires or is restarted.
THEOREM ExhaustedCodesStayOpen == Spec => ExhaustedStaysOpen
<1>1. RequestInv /\ [Next]_vars =>
        [\A c \in Challenges :
            challenges[c] # None /\ challenges[c].attempts >= MaxAttempts
                /\ ~challenges[c].verified => ~challenges'[c].verified]_vars
  <2> SUFFICES ASSUME RequestInv, [Next]_vars, NEW c \in Challenges, challenges[c] # None,
                      challenges[c].attempts >= MaxAttempts, ~challenges[c].verified
               PROVE  ~challenges'[c].verified
    OBVIOUS
  <2>1. challenges[c].attempts \in Nat
    BY NoneIsNew, MaxAttemptsPositive DEF RequestInv, ChallengesOK, Challenge
  <2>2. Kept(c)
    BY RequestInvNext DEF AllKept
  <2> QED  BY <2>1, <2>2, MaxAttemptsPositive DEF Kept
<1> QED  BY <1>1, RequestInvHolds, PTL DEF Spec, ExhaustedStaysOpen
================================================================================
