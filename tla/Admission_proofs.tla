--------------------------- MODULE Admission_proofs ---------------------------
(***************************************************************************)
(* Proofs about the shared inference admission, for any number of clients, *)
(* tickets, deaths and failed publications and any capacities; and, from   *)
(* "Snapshots" on, about the autopilot's loop with and without a terminal, *)
(* for any number of tasks, repairs, attempts and crashes.                 *)
(***************************************************************************)
EXTENDS Admission, HeadlessInvariant, FiniteSetTheorems, WellFoundedInduction, TLAPS

-----------------------------------------------------------------------------
(* Recursion over the natural numbers: the functions by which the model     *)
(* walks the entries exist and do what their equations say.                 *)

\* Every set of natural numbers that is not empty has a least element.
LEMMA LeastNumber ==
    ASSUME NEW S \in SUBSET Nat, S # {}
    PROVE  \E x \in S : \A y \in S : x <= y
<1> DEFINE Less == {p \in Nat \X Nat : p[1] < p[2]}
<1>1. IsWellFoundedOn(Less, Nat)
  BY NatLessThanWellFounded DEF OpToRel
<1>2. PICK x \in S : \A y \in S : <<y, x>> \notin Less
  BY <1>1, WFMin
<1>3. ASSUME NEW y \in S PROVE x <= y
  <2>1. <<y, x>> \in Nat \X Nat /\ <<y, x>>[1] = y /\ <<y, x>>[2] = x
    OBVIOUS
  <2>2. ~(y < x)
    BY <1>2, <2>1
  <2> QED BY <2>2
<1> QED BY <1>3

\* Induction, for a property given as the set of the numbers that have it.
LEMMA Climb ==
    ASSUME NEW S, 0 \in S, \A n \in Nat : n \in S => n + 1 \in S
    PROVE  Nat \subseteq S
<1> DEFINE T == {n \in Nat : n \notin S}
<1> SUFFICES ASSUME T # {} PROVE FALSE
  OBVIOUS
<1>1. PICK x \in T : \A y \in T : x <= y
  <2>1. T \in SUBSET Nat
    OBVIOUS
  <2> HIDE DEF T
  <2> QED BY <2>1, LeastNumber
<1>2. x # 0 /\ x \in Nat
  BY <1>1
<1>3. x - 1 \in Nat /\ ~(x <= x - 1) /\ (x - 1) + 1 = x
  BY <1>2
<1>4. x - 1 \in S
  BY <1>1, <1>3
<1> QED BY <1>1, <1>3, <1>4

\* The function f follows step from x, up to n.
Follows(f, x, step, n) ==
    f[0] = x /\ \A k \in Nat : k < n => f[k + 1] = step[<<k, f[k]>>]

LEMMA PrefixExists ==
    ASSUME NEW S, NEW x \in S, NEW step \in [Nat \X S -> S], NEW n \in Nat
    PROVE  \E p \in [Nat -> S] : Follows(p, x, step, n)
<1> DEFINE T == {m \in Nat : \E p \in [Nat -> S] : Follows(p, x, step, m)}
<1>1. 0 \in T
  <2>1. [m \in Nat |-> x] \in [Nat -> S] /\ Follows([m \in Nat |-> x], x, step, 0)
    BY DEF Follows
  <2> QED BY <2>1
<1>2. ASSUME NEW m \in Nat, m \in T PROVE m + 1 \in T
  <2>1. PICK p \in [Nat -> S] : Follows(p, x, step, m)
    BY <1>2
  <2> DEFINE q == [k \in Nat |-> IF k = m + 1 THEN step[<<m, p[m]>>] ELSE p[k]]
  <2>2. p[m] \in S /\ <<m, p[m]>> \in Nat \X S
    BY <2>1
  <2>3. q \in [Nat -> S]
    BY <2>1, <2>2
  <2>4. q[0] = x
    BY <2>1 DEF Follows
  <2>5. ASSUME NEW k \in Nat, k < m + 1 PROVE q[k + 1] = step[<<k, q[k]>>]
    <3>1. q[k] = p[k]
      BY <2>5
    <3>2. CASE k = m
      BY <3>1, <3>2
    <3>3. CASE k # m
      <4>1. k < m /\ k + 1 \in Nat /\ k + 1 # m + 1
        BY <2>5, <3>3
      <4>2. q[k + 1] = p[k + 1] /\ p[k + 1] = step[<<k, p[k]>>]
        BY <2>1, <4>1 DEF Follows
      <4> QED BY <3>1, <4>2
    <3> QED BY <3>2, <3>3
  <2> HIDE DEF q
  <2>6. Follows(q, x, step, m + 1)
    BY <2>4, <2>5 DEF Follows
  <2> QED BY <2>3, <2>6
<1> HIDE DEF T
<1>3. Nat \subseteq T
  BY <1>1, <1>2, Climb
<1> QED BY <1>3 DEF T

LEMMA PrefixUnique ==
    ASSUME NEW x, NEW step, NEW p, NEW q, NEW n \in Nat,
           Follows(p, x, step, n), Follows(q, x, step, n)
    PROVE  p[n] = q[n]
<1> DEFINE T == {m \in Nat : m <= n => p[m] = q[m]}
<1>1. 0 \in T
  BY DEF Follows
<1>2. ASSUME NEW m \in Nat, m \in T PROVE m + 1 \in T
  <2>1. CASE m + 1 <= n
    <3>1. m < n /\ m <= n
      BY <2>1
    <3>2. p[m] = q[m]
      BY <1>2, <3>1
    <3>3. p[m + 1] = step[<<m, p[m]>>] /\ q[m + 1] = step[<<m, q[m]>>]
      BY <3>1 DEF Follows
    <3> QED BY <3>2, <3>3
  <2>2. CASE ~(m + 1 <= n)
    BY <2>2
  <2> QED BY <2>1, <2>2
<1> HIDE DEF T
<1>3. Nat \subseteq T
  BY <1>1, <1>2, Climb
<1> QED BY <1>3 DEF T

LEMMA PrefixShorter ==
    ASSUME NEW x, NEW step, NEW p, NEW n \in Nat, Follows(p, x, step, n + 1)
    PROVE  Follows(p, x, step, n)
  BY DEF Follows

\* Recurs(f, x, step): the equations of a primitive recursion.
Recurs(f, x, step) == f[0] = x /\ \A k \in Nat : f[k + 1] = step[<<k, f[k]>>]

LEMMA RecursionExists ==
    ASSUME NEW S, NEW x \in S, NEW step \in [Nat \X S -> S]
    PROVE  \E f \in [Nat -> S] : Recurs(f, x, step)
<1> DEFINE P(n) == CHOOSE p \in [Nat -> S] : Follows(p, x, step, n)
           f == [n \in Nat |-> P(n)[n]]
<1>1. \A n \in Nat : P(n) \in [Nat -> S] /\ Follows(P(n), x, step, n)
  BY PrefixExists
<1>2. f \in [Nat -> S]
  BY <1>1
<1> HIDE DEF P
<1>3. f[0] = x
  BY <1>1 DEF Follows
<1>4. ASSUME NEW k \in Nat PROVE f[k + 1] = step[<<k, f[k]>>]
  <2>1. /\ k + 1 \in Nat /\ Follows(P(k + 1), x, step, k + 1) /\ Follows(P(k), x, step, k)
    BY <1>1
  <2>2. P(k + 1)[k] = P(k)[k]
    <3>1. Follows(P(k + 1), x, step, k)
      BY <2>1, PrefixShorter
    <3> QED BY <2>1, <3>1, PrefixUnique
  <2>3. P(k + 1)[k + 1] = step[<<k, P(k + 1)[k]>>]
    BY <2>1 DEF Follows
  <2> QED BY <2>1, <2>2, <2>3
<1> HIDE DEF f
<1>5. Recurs(f, x, step)
  BY <1>3, <1>4 DEF Recurs
<1> QED BY <1>2, <1>5

-----------------------------------------------------------------------------
(* The ledger.                                                              *)

Places(l) == DOMAIN l.entries

Distinct(l) == \A i, j \in Places(l) : l.entries[i].id = l.entries[j].id => i = j

\* Only the oldest waiting background entry was passed over, and the streak
\* counts how often at least.
InTurn(l) ==
    \A i \in Places(l) :
        l.entries[i].state = "waiting" /\ l.entries[i].passed # 0 =>
            /\ ~IsForeground(l.entries[i]) /\ l.entries[i].passed <= l.streak
            /\ \A j \in WaitingIn(l, FALSE) : i <= j

InOrder(l) ==
    \A i, j \in Places(l) :
        /\ i < j /\ l.entries[j].state = "active"
        /\ IsForeground(l.entries[i]) = IsForeground(l.entries[j])
        => l.entries[i].state = "active"

Within(l) == Cardinality(ActiveIn(l)) <= l.capacity

WellFormed(l) == l \in Ledger /\ Distinct(l) /\ InTurn(l) /\ InOrder(l) /\ Within(l)

\* The same requests at the same places; active ones stay active.
Upgrades(l, k) ==
    /\ k.capacity = l.capacity /\ Len(k.entries) = Len(l.entries)
    /\ \A i \in Places(l) : /\ k.entries[i].id = l.entries[i].id
                            /\ k.entries[i].client = l.entries[i].client
                            /\ l.entries[i].state = "active" => k.entries[i].state = "active"

LEMMA PlacesAre ==
    ASSUME NEW l \in Ledger
    PROVE  /\ Places(l) = 1..Len(l.entries) /\ Len(l.entries) \in Nat
           /\ \A i \in Places(l) : l.entries[i] \in Entry
           /\ ActiveIn(l) \subseteq Places(l) /\ IsFiniteSet(ActiveIn(l))
           /\ Cardinality(ActiveIn(l)) \in Nat
           /\ l.capacity \in Nat /\ l.streak \in 0..MaxStreak
           /\ \A b \in BOOLEAN : /\ WaitingIn(l, b) \subseteq Places(l)
                                 /\ WaitingIn(l, b) \in SUBSET Nat
<1>1. /\ Places(l) = 1..Len(l.entries) /\ Len(l.entries) \in Nat
      /\ \A i \in Places(l) : l.entries[i] \in Entry
      /\ l.capacity \in Nat /\ l.streak \in 0..MaxStreak
  BY DEF Ledger, Places
<1>2. ActiveIn(l) \subseteq Places(l) /\ \A b \in BOOLEAN : WaitingIn(l, b) \subseteq Places(l)
  BY DEF ActiveIn, Places, WaitingIn
<1>3. IsFiniteSet(ActiveIn(l)) /\ Cardinality(ActiveIn(l)) \in Nat
  <2>1. IsFiniteSet(1..Len(l.entries))
    <3> DEFINE n == Len(l.entries)
    <3>1. 1 \in Int /\ n \in Int
      BY <1>1
    <3> HIDE DEF n
    <3> QED BY <3>1, FS_Interval DEF n
  <2>2. ActiveIn(l) \in SUBSET (1..Len(l.entries))
    BY <1>1, <1>2
  <2>3. IsFiniteSet(ActiveIn(l))
    BY <2>1, <2>2, FS_Subset
  <2> QED BY <2>3, FS_CardinalityType
<1> QED BY <1>1, <1>2, <1>3

LEMMA OldestIs ==
    ASSUME NEW S \in SUBSET Nat, S # {}
    PROVE  Oldest(S) \in S /\ \A j \in S : Oldest(S) <= j
  BY LeastNumber DEF Oldest

\* One entry more is active.
LEMMA OneMore ==
    ASSUME NEW l \in Ledger, NEW k \in Ledger, NEW o \in Places(l), o \notin ActiveIn(l),
           ActiveIn(k) = ActiveIn(l) \cup {o}, k.capacity = l.capacity,
           ~(Cardinality(ActiveIn(l)) >= l.capacity)
    PROVE  Within(k)
<1>1. Cardinality(ActiveIn(k)) = Cardinality(ActiveIn(l)) + 1
  BY PlacesAre, FS_AddElement
<1> QED BY <1>1, PlacesAre DEF Within

LEMMA GrantForegroundKeeps ==
    ASSUME NEW l, WellFormed(l), TakesForeground(l), ~(Cardinality(ActiveIn(l)) >= l.capacity)
    PROVE  WellFormed(GrantForeground(l)) /\ Upgrades(l, GrantForeground(l))
<1> DEFINE F == WaitingIn(l, TRUE)
           B == WaitingIn(l, FALSE)
           f == Oldest(F)
           b == Oldest(B)
           es == l.entries
           k == GrantForeground(l)
<1>1. /\ l \in Ledger /\ Places(l) = 1..Len(es) /\ Len(es) \in Nat
      /\ \A i \in Places(l) : es[i] \in Entry
      /\ ActiveIn(l) \subseteq Places(l)
      /\ l.capacity \in Nat /\ l.streak \in 0..3
      /\ F \subseteq Places(l) /\ B \subseteq Places(l) /\ F \in SUBSET Nat /\ B \in SUBSET Nat
  BY PlacesAre DEF WellFormed, MaxStreak
<1>2. f \in F /\ \A j \in F : f <= j
  BY <1>1, OldestIs DEF TakesForeground
<1>3. B # {} => b \in B /\ l.streak < 3 /\ \A j \in B : b <= j
  BY <1>1, OldestIs DEF TakesForeground, MaxStreak
<1>4. f \notin B /\ \A i \in B : ~IsForeground(es[i]) /\ es[i].state = "waiting"
  BY <1>2 DEF WaitingIn
<1>5. /\ k.capacity = l.capacity
      /\ k.streak = IF B # {} THEN l.streak + 1 ELSE 0
      /\ k.entries = [i \in Places(l) |-> IF i = f THEN Activated(es[i])
                                          ELSE IF i \in B /\ i = b
                                          THEN PassedOver(es[i]) ELSE es[i]]
      /\ k.entries \in Seq(Entry) /\ k.streak \in 0..MaxStreak => k \in Ledger
  <2> DEFINE new == [i \in Places(l) |-> IF i = f THEN Activated(es[i])
                                          ELSE IF i \in B /\ i = b
                                          THEN PassedOver(es[i]) ELSE es[i]]
             count == IF B # {} THEN l.streak + 1 ELSE 0
  <2>1. k = [l EXCEPT !.entries = new, !.streak = count]
    BY DEF GrantForeground, Places
  <2> HIDE DEF new, count, k
  <2>2. /\ k.capacity = l.capacity /\ k.streak = count /\ k.entries = new
        /\ k.entries \in Seq(Entry) /\ k.streak \in 0..MaxStreak => k \in Ledger
    <3>1. l \in Ledger
      BY <1>1
    <3> DEFINE m == [l EXCEPT !.entries = new, !.streak = count]
    <3>2. /\ m.capacity = l.capacity /\ m.streak = count /\ m.entries = new
          /\ new \in Seq(Entry) /\ count \in 0..MaxStreak => m \in Ledger
      BY ONLY <3>1 DEF Ledger
    <3>3. k = m
      BY <2>1
    <3> HIDE DEF m
    <3> QED BY <3>2, <3>3
  <2> QED BY <2>2 DEF count, new
<1>16. 3 \in Nat /\ f \in Nat /\ (B # {} => b \in Nat)
  BY <1>1, <1>2, <1>3
<1> DEFINE at1(i) == k.entries[i]
<1>6. ASSUME NEW i \in Places(l)
      PROVE  /\ at1(i) \in Entry /\ at1(i).id = es[i].id /\ at1(i).client = es[i].client
             /\ at1(i).state = IF i = f THEN "active" ELSE es[i].state
             /\ at1(i).passed = IF i = b /\ i \in B THEN es[i].passed + 1 ELSE es[i].passed
  <2>1. es[i] \in Entry
    BY <1>1
  <2>2. Activated(es[i]) \in Entry /\ PassedOver(es[i]) \in Entry
    BY <2>1 DEF Entry, Activated, PassedOver
  <2>3. CASE i = f
    BY <1>4, <1>5, <2>1, <2>2, <2>3 DEF Entry, Activated
  <2>4. CASE i # f
    <3>1. at1(i) = IF i \in B /\ i = b THEN PassedOver(es[i]) ELSE es[i]
      BY <1>5, <2>4
    <3>2. PassedOver(es[i]).passed = es[i].passed + 1
      BY <2>1 DEF Entry, PassedOver
    <3>3. /\ PassedOver(es[i]).id = es[i].id
          /\ PassedOver(es[i]).client = es[i].client
          /\ PassedOver(es[i]).state = es[i].state
      BY <2>1 DEF Entry, PassedOver
    <3> HIDE DEF at1, B, b, es
    <3> QED BY <2>1, <2>2, <2>4, <3>1, <3>2, <3>3
  <2> QED BY <2>3, <2>4
<1>7. k \in Ledger /\ Places(k) = Places(l) /\ Len(k.entries) = Len(es)
  <2>1. k.entries \in Seq(Entry) /\ Len(k.entries) = Len(es) /\ DOMAIN k.entries = Places(l)
    <3>1. k.entries \in [1..Len(es) -> Entry]
      BY <1>1, <1>5, <1>6
    <3> QED BY <1>1, <3>1
  <2>2. k.streak \in 0..MaxStreak
    <3> HIDE DEF B, k
    <3>1. l.streak \in 0..3 /\ (B # {} => l.streak < 3)
      BY <1>1, <1>3
    <3>2. k.streak = IF B # {} THEN l.streak + 1 ELSE 0
      BY <1>5
    <3> QED BY <3>1, <3>2 DEF MaxStreak
  <2> QED BY <1>5, <2>1, <2>2 DEF Places
<1> HIDE DEF k
<1>8. f \in Places(l) /\ es[f].state = "waiting" /\ IsForeground(es[f])
  BY <1>1, <1>2 DEF WaitingIn
<1>9. ActiveIn(k) = ActiveIn(l) \cup {f} /\ f \notin ActiveIn(l)
  BY <1>6, <1>7, <1>8 DEF ActiveIn, Places
<1>10. WaitingIn(k, FALSE) = B
  BY <1>6, <1>7, <1>8 DEF WaitingIn, Places, IsForeground
<1>11. Distinct(k)
  BY <1>6, <1>7 DEF WellFormed, Distinct
<1>12. InTurn(k)
  <2> SUFFICES ASSUME NEW i \in Places(k), k.entries[i].state = "waiting", k.entries[i].passed # 0
               PROVE  /\ ~IsForeground(k.entries[i]) /\ k.entries[i].passed <= k.streak
                      /\ \A j \in WaitingIn(k, FALSE) : i <= j
    BY DEF InTurn
  <2>1. i \in Places(l) /\ i # f /\ es[i].state = "waiting" /\ es[i].passed \in Nat
    BY <1>1, <1>6, <1>7 DEF Entry
  <2>2. CASE i = b /\ i \in B
    <3>1. k.entries[i].passed = es[i].passed + 1 /\ k.streak = l.streak + 1
      BY <1>5, <1>6, <2>1, <2>2
    <3>2. es[i].passed <= l.streak
      <4>1. CASE es[i].passed = 0
        BY <1>1, <4>1
      <4>2. CASE es[i].passed # 0
        BY <2>1, <4>2 DEF WellFormed, InTurn
      <4> QED BY <4>1, <4>2
    <3>3. ~IsForeground(k.entries[i])
      BY <1>4, <1>6, <2>1, <2>2 DEF IsForeground
    <3>4. \A j \in B : i <= j
      BY <1>3, <2>2
    <3>5. k.entries[i].passed <= k.streak
      <4>1. es[i].passed \in Nat /\ l.streak \in Nat
        BY <1>1, <2>1
      <4> HIDE DEF es
      <4> QED BY <3>1, <3>2, <4>1
    <3> QED BY <1>10, <3>3, <3>4, <3>5
  <2>3. CASE ~(i = b /\ i \in B)
    <3>1. es[i].passed = k.entries[i].passed /\ es[i].passed # 0
      BY <1>6, <2>1, <2>3
    <3>2. ~IsForeground(es[i]) /\ \A j \in B : i <= j
      BY <2>1, <3>1 DEF WellFormed, InTurn
    <3>3. i \in B
      BY <2>1, <3>2 DEF WaitingIn, Places
    <3>4. i = b
      <4>1. b \in B /\ b <= i /\ i <= b /\ b \in Nat /\ i \in Nat
        BY <1>1, <1>3, <3>2, <3>3
      <4> HIDE DEF b, B
      <4> QED BY <4>1
    <3> QED BY <2>3, <3>3, <3>4
  <2> QED BY <2>2, <2>3
<1>13. InOrder(k)
  <2> SUFFICES ASSUME NEW i \in Places(k), NEW j \in Places(k), i < j,
                      k.entries[j].state = "active",
                      IsForeground(k.entries[i]) = IsForeground(k.entries[j])
               PROVE  k.entries[i].state = "active"
    BY DEF InOrder
  <2>1. /\ i \in Places(l) /\ j \in Places(l) /\ IsForeground(es[i]) = IsForeground(es[j])
    BY <1>6, <1>7 DEF IsForeground
  <2>2. CASE j = f
    <3>1. i \notin F
      <4>1. i \in Nat /\ f \in Nat /\ i < f
        <5> HIDE DEF f, F, B, es
        <5> QED BY <1>1, <1>16, <2>1, <2>2
      <4>2. ~(f <= i)
        <5> HIDE DEF f
        <5> QED BY <4>1
      <4> QED BY <1>2, <4>2
    <3>2. es[i].state # "waiting"
      BY <1>8, <2>1, <2>2, <3>1 DEF WaitingIn, Places
    <3>3. es[i].state = "active"
      BY <1>1, <2>1, <3>2 DEF Entry
    <3> QED BY <1>6, <2>1, <3>3
  <2>3. CASE j # f
    <3>1. es[j].state = "active"
      BY <1>6, <2>1, <2>3
    <3>2. es[i].state = "active"
      BY <2>1, <3>1 DEF WellFormed, InOrder
    <3> QED BY <1>6, <2>1, <3>2
  <2> QED BY <2>2, <2>3
<1>14. Within(k)
  BY <1>1, <1>5, <1>7, <1>8, <1>9, OneMore
<1>15. Upgrades(l, k)
  BY <1>5, <1>6, <1>7 DEF Upgrades
<1> QED BY <1>7, <1>11, <1>12, <1>13, <1>14, <1>15 DEF WellFormed, k

LEMMA GrantBackgroundKeeps ==
    ASSUME NEW l, WellFormed(l), WaitingIn(l, FALSE) # {},
           ~(Cardinality(ActiveIn(l)) >= l.capacity)
    PROVE  WellFormed(GrantBackground(l)) /\ Upgrades(l, GrantBackground(l))
<1> DEFINE B == WaitingIn(l, FALSE)
           b == Oldest(B)
           es == l.entries
           k == GrantBackground(l)
<1>1. /\ l \in Ledger /\ Places(l) = 1..Len(es) /\ Len(es) \in Nat
      /\ \A i \in Places(l) : es[i] \in Entry
      /\ B \subseteq Places(l) /\ B \in SUBSET Nat
  BY PlacesAre DEF WellFormed
<1>2. b \in B /\ b \in Nat /\ \A j \in B : b <= j
  BY <1>1, OldestIs
<1>3. b \in Places(l) /\ es[b].state = "waiting" /\ ~IsForeground(es[b])
  BY <1>2 DEF WaitingIn, Places
<1>4. /\ k.capacity = l.capacity /\ k.streak = 0 /\ k \in Ledger
      /\ Places(k) = Places(l) /\ Len(k.entries) = Len(es)
      /\ \A i \in Places(l) :
            /\ k.entries[i].id = es[i].id /\ k.entries[i].client = es[i].client
            /\ k.entries[i].state = IF i = b THEN "active" ELSE es[i].state
            /\ k.entries[i].passed = es[i].passed
  <2> DEFINE new == [es EXCEPT ![b] = Activated(es[b])]
  <2>1. Activated(es[b]) \in Entry /\ Activated(es[b]).id = es[b].id
        /\ Activated(es[b]).client = es[b].client /\ Activated(es[b]).state = "active"
        /\ Activated(es[b]).passed = es[b].passed
    BY <1>1, <1>3 DEF Activated, Entry
  <2>2. new \in Seq(Entry) /\ Len(new) = Len(es) /\ DOMAIN new = Places(l)
        /\ \A i \in Places(l) : new[i] = IF i = b THEN Activated(es[b]) ELSE es[i]
    <3>1. es \in Seq(Entry) /\ b \in 1..Len(es)
      BY <1>1, <1>3 DEF Ledger
    <3> HIDE DEF es, b
    <3> QED BY <1>1, <2>1, <3>1
  <2>3. k = [l EXCEPT !.entries = new, !.streak = 0]
    BY DEF GrantBackground, Activated
  <2> HIDE DEF new, k
  <2>4. k.capacity = l.capacity /\ k.streak = 0 /\ k.entries = new /\ k \in Ledger
    <3>1. l \in Ledger /\ new \in Seq(Entry) /\ 0 \in 0..MaxStreak
      BY <1>1, <2>2 DEF MaxStreak
    <3> QED BY ONLY <2>3, <3>1 DEF Ledger
  <2> HIDE DEF es, b
  <2> QED BY <2>1, <2>2, <2>4 DEF Places
<1> HIDE DEF k
<1>5. ActiveIn(k) = ActiveIn(l) \cup {b} /\ b \notin ActiveIn(l)
  BY <1>3, <1>4 DEF ActiveIn, Places
<1>6. WaitingIn(k, FALSE) \subseteq B \ {b}
  BY <1>4 DEF WaitingIn, Places, IsForeground
<1>7. Distinct(k)
  BY <1>4 DEF WellFormed, Distinct
<1>8. InTurn(k)
  <2> SUFFICES ASSUME NEW i \in Places(k), k.entries[i].state = "waiting", k.entries[i].passed # 0
               PROVE  FALSE
    BY DEF InTurn
  <2>1. i \in Places(l) /\ i # b /\ es[i].state = "waiting" /\ es[i].passed # 0
    BY <1>4
  <2>2. ~IsForeground(es[i]) /\ \A j \in B : i <= j
    BY <2>1 DEF WellFormed, InTurn
  <2>3. i \in B
    BY <2>1, <2>2 DEF WaitingIn, Places
  <2>4. i <= b /\ b <= i /\ i \in Nat
    BY <1>1, <1>2, <2>2, <2>3
  <2> HIDE DEF b
  <2> QED BY <1>2, <2>1, <2>4
<1>9. InOrder(k)
  <2> SUFFICES ASSUME NEW i \in Places(k), NEW j \in Places(k), i < j,
                      k.entries[j].state = "active",
                      IsForeground(k.entries[i]) = IsForeground(k.entries[j])
               PROVE  k.entries[i].state = "active"
    BY DEF InOrder
  <2>1. i \in Places(l) /\ j \in Places(l) /\ IsForeground(es[i]) = IsForeground(es[j])
    BY <1>4 DEF IsForeground
  <2>2. CASE j = b
    <3>1. i \in Nat /\ i < b
      <4> HIDE DEF b, es
      <4> QED BY <1>1, <2>1, <2>2
    <3>2. ~(b <= i)
      <4> HIDE DEF b
      <4> QED BY <1>2, <3>1
    <3>3. es[i].state # "waiting"
      BY <1>2, <1>3, <2>1, <2>2, <3>2 DEF WaitingIn, Places
    <3>4. es[i].state = "active"
      BY <1>1, <2>1, <3>3 DEF Entry
    <3> QED BY <1>4, <2>1, <3>4
  <2>3. CASE j # b
    <3>1. es[j].state = "active"
      BY <1>4, <2>1, <2>3
    <3>2. es[i].state = "active"
      BY <2>1, <3>1 DEF WellFormed, InOrder
    <3> QED BY <1>4, <2>1, <3>2
  <2> QED BY <2>2, <2>3
<1>10. Within(k)
  BY <1>1, <1>3, <1>4, <1>5, OneMore
<1>11. Upgrades(l, k)
  BY <1>4 DEF Upgrades
<1> QED BY <1>4, <1>7, <1>8, <1>9, <1>10, <1>11 DEF WellFormed, k

LEMMA GrantOneKeeps ==
    ASSUME NEW l, WellFormed(l)
    PROVE  WellFormed(GrantOne(l)) /\ Upgrades(l, GrantOne(l))
<1>1. Upgrades(l, l)
  BY DEF Upgrades
<1>2. WaitingIn(l, TRUE) = {} => ~TakesForeground(l)
  BY DEF TakesForeground
<1>3. WaitingIn(l, FALSE) = {} /\ WaitingIn(l, TRUE) # {} => TakesForeground(l)
  BY DEF TakesForeground
<1> QED BY <1>1, <1>2, <1>3, GrantForegroundKeeps, GrantBackgroundKeeps DEF GrantOne

LEMMA UpgradesAgain ==
    ASSUME NEW l \in Ledger, NEW k \in Ledger, NEW m \in Ledger, Upgrades(l, k), Upgrades(k, m)
    PROVE  Upgrades(l, m)
<1>1. Places(k) = Places(l)
  BY PlacesAre DEF Upgrades
<1> QED BY <1>1 DEF Upgrades

\* Granting keeps the queue well formed, and only lets entries in.
LEMMA GrantKeeps ==
    ASSUME NEW l, WellFormed(l)
    PROVE  WellFormed(Grant(l)) /\ Upgrades(l, Grant(l))
<1> DEFINE S == {k \in Ledger : WellFormed(k) /\ Upgrades(l, k)}
           step == [p \in Nat \X S |-> GrantOne(p[2])]
           Loop(g) == g = [n \in Nat |-> IF n = 0 THEN l ELSE GrantOne(g[n - 1])]
           granted == CHOOSE g : Loop(g)
<1>1. l \in S
  BY DEF WellFormed, Upgrades
<1>2. ASSUME NEW k \in S PROVE GrantOne(k) \in S
  <2>1. WellFormed(GrantOne(k)) /\ Upgrades(k, GrantOne(k))
    BY <1>2, GrantOneKeeps
  <2>2. GrantOne(k) \in Ledger
    BY <2>1 DEF WellFormed
  <2>3. Upgrades(l, GrantOne(k))
    BY <1>1, <1>2, <2>1, <2>2, UpgradesAgain
  <2> QED BY <2>1, <2>2, <2>3
<1> HIDE DEF S
<1>3. step \in [Nat \X S -> S] /\ \A n \in Nat, k \in S : step[<<n, k>>] = GrantOne(k)
  BY <1>2
<1> HIDE DEF step
<1>4. PICK f \in [Nat -> S] : Recurs(f, l, step)
  BY <1>1, <1>3, RecursionExists
<1>5. Loop(f)
  <2>1. \A n \in Nat : n # 0 => f[n] = GrantOne(f[n - 1])
    <3>1. ASSUME NEW n \in Nat, n # 0 PROVE f[n] = GrantOne(f[n - 1])
      <4>1. n - 1 \in Nat /\ (n - 1) + 1 = n
        BY <3>1
      <4>2. f[(n - 1) + 1] = step[<<n - 1, f[n - 1]>>]
        BY <1>4, <4>1 DEF Recurs
      <4> QED BY <1>3, <1>4, <4>1, <4>2
    <3> QED BY <3>1
  <2>2. f[0] = l /\ DOMAIN f = Nat
    BY <1>4 DEF Recurs
  <2> QED BY <1>4, <2>1, <2>2
<1>6. Loop(granted)
  BY <1>5
<1>7. granted[0] = l /\ \A n \in Nat : granted[n + 1] = GrantOne(granted[n])
  <2> HIDE DEF granted
  <2>1. granted = [n \in Nat |-> IF n = 0 THEN l ELSE GrantOne(granted[n - 1])]
    BY <1>6
  <2>2. granted[0] = l
    BY <2>1
  <2>3. ASSUME NEW n \in Nat PROVE granted[n + 1] = GrantOne(granted[n])
    <3>1. n + 1 \in Nat /\ n + 1 # 0 /\ (n + 1) - 1 = n
      OBVIOUS
    <3>2. granted[n + 1] = GrantOne(granted[(n + 1) - 1])
      BY <2>1, <3>1
    <3> QED BY <3>1, <3>2
  <2> QED BY <2>2, <2>3
<1> DEFINE T == {n \in Nat : granted[n] \in S}
<1> HIDE DEF granted
<1>8. Nat \subseteq T
  <2>1. 0 \in T
    BY <1>1, <1>7
  <2>2. \A n \in Nat : n \in T => n + 1 \in T
    BY <1>2, <1>7
  <2> HIDE DEF T
  <2> QED BY <2>1, <2>2, Climb
<1>9. Len(l.entries) \in Nat
  BY PlacesAre DEF WellFormed
<1>10. Grant(l) = granted[Len(l.entries)]
  BY DEF Grant, granted
<1> QED BY <1>8, <1>9, <1>10 DEF S

\* The sequence k holds, in their order, those of the first n of s whose owner is
\* in A; m says from which places.
Keeps(m, k, s, n, A) ==
    /\ m \in [1..Len(k) -> 1..n]
    /\ \A i, j \in 1..Len(k) : i < j => m[i] < m[j]
    /\ \A i \in 1..Len(k) : k[i] = s[m[i]] /\ k[i].id \in A
    /\ \A x \in 1..n : s[x].id \in A => \E i \in 1..Len(k) : m[i] = x

KeepsSome(k, s, n, A) == \E m : Keeps(m, k, s, n, A)

LEMMA NextPlace ==
    ASSUME NEW n \in Nat, NEW i \in 1..(n + 1), NEW j \in 1..(n + 1), i < j
    PROVE  i \in 1..n /\ (j \in 1..n \/ j = n + 1)
OBVIOUS

LEMMA KeepsNext ==
    ASSUME NEW E, NEW s \in Seq(E), NEW A, NEW n \in Nat, n + 1 <= Len(s),
           NEW k \in Seq(E), KeepsSome(k, s, n, A)
    PROVE  /\ s[n + 1].id \in A => KeepsSome(Append(k, s[n + 1]), s, n + 1, A)
           /\ s[n + 1].id \notin A => KeepsSome(k, s, n + 1, A)
<1>1. PICK m : Keeps(m, k, s, n, A)
  BY DEF KeepsSome
<1>2. /\ m \in [1..Len(k) -> 1..n] /\ Len(k) \in Nat
      /\ \A i, j \in 1..Len(k) : i < j => m[i] < m[j]
      /\ \A i \in 1..Len(k) : k[i] = s[m[i]] /\ k[i].id \in A
      /\ \A x \in 1..n : s[x].id \in A => \E i \in 1..Len(k) : m[i] = x
  BY <1>1 DEF Keeps
<1>3. 1..(n + 1) = 1..n \cup {n + 1} /\ n + 1 \in 1..Len(s)
  OBVIOUS
<1>4. ASSUME s[n + 1].id \in A PROVE KeepsSome(Append(k, s[n + 1]), s, n + 1, A)
  <2> DEFINE k2 == Append(k, s[n + 1])
             m2 == [i \in 1..(Len(k) + 1) |-> IF i = Len(k) + 1 THEN n + 1 ELSE m[i]]
  <2>1. /\ Len(k2) = Len(k) + 1 /\ k2[Len(k) + 1] = s[n + 1]
        /\ \A i \in 1..Len(k) : k2[i] = k[i]
    <3>1. s[n + 1] \in E
      BY <1>3
    <3> QED BY <3>1
  <2>2. 1..(Len(k) + 1) = 1..Len(k) \cup {Len(k) + 1}
    BY <1>2
  <2>3. /\ m2[Len(k) + 1] = n + 1 /\ m2 \in [1..(Len(k) + 1) -> 1..(n + 1)]
        /\ \A i \in 1..Len(k) : m2[i] = m[i] /\ m2[i] \in 1..n
    <3>1. \A i \in 1..Len(k) : i \in 1..(Len(k) + 1) /\ i # Len(k) + 1 /\ m[i] \in 1..n
      BY <1>2, <2>2
    <3>2. m2[Len(k) + 1] = n + 1 /\ \A i \in 1..Len(k) : m2[i] = m[i]
      BY <1>2, <2>2, <3>1
    <3>3. \A i \in 1..(Len(k) + 1) : m2[i] \in 1..(n + 1)
      <4>1. n + 1 \in 1..(n + 1) /\ 1..n \subseteq 1..(n + 1)
        BY <1>3
      <4> QED BY <2>2, <3>1, <3>2, <4>1
    <3> QED BY <3>1, <3>2, <3>3
  <2> HIDE DEF k2, m2
  <2>4. ASSUME NEW i \in 1..Len(k2), NEW j \in 1..Len(k2), i < j PROVE m2[i] < m2[j]
    <3>0. i \in 1..(Len(k) + 1) /\ j \in 1..(Len(k) + 1)
      BY <2>1
    <3>1. i \in 1..Len(k) /\ (j \in 1..Len(k) \/ j = Len(k) + 1)
      BY <1>2, <2>4, <3>0, NextPlace
    <3>2. CASE j \in 1..Len(k)
      BY <1>2, <2>3, <2>4, <3>1, <3>2
    <3>3. CASE j = Len(k) + 1
      BY <2>3, <3>1, <3>3
    <3> QED BY <3>1, <3>2, <3>3
  <2>5. ASSUME NEW i \in 1..Len(k2) PROVE k2[i] = s[m2[i]] /\ k2[i].id \in A
    <3>1. i \in 1..Len(k) \/ i = Len(k) + 1
      BY <1>2, <2>1, <2>2
    <3>2. CASE i \in 1..Len(k)
      BY <1>2, <2>1, <2>3, <3>2
    <3>3. CASE i = Len(k) + 1
      BY <1>4, <2>1, <2>3, <3>3
    <3> QED BY <3>1, <3>2, <3>3
  <2>6. ASSUME NEW x \in 1..(n + 1), s[x].id \in A PROVE \E i \in 1..Len(k2) : m2[i] = x
    <3>1. CASE x = n + 1
      BY <2>1, <2>2, <2>3, <3>1
    <3>2. CASE x \in 1..n
      <4>1. PICK i \in 1..Len(k) : m[i] = x
        BY <1>2, <2>6, <3>2
      <4> QED BY <2>1, <2>2, <2>3, <4>1
    <3> QED BY <1>3, <3>1, <3>2
  <2>7. Keeps(m2, k2, s, n + 1, A)
    BY <2>1, <2>3, <2>4, <2>5, <2>6 DEF Keeps
  <2> QED BY <2>7 DEF KeepsSome, k2
<1>5. ASSUME s[n + 1].id \notin A PROVE KeepsSome(k, s, n + 1, A)
  <2>1. m \in [1..Len(k) -> 1..(n + 1)]
    BY <1>2, <1>3
  <2>2. ASSUME NEW x \in 1..(n + 1), s[x].id \in A PROVE \E i \in 1..Len(k) : m[i] = x
    BY <1>2, <1>3, <1>5, <2>2
  <2>3. Keeps(m, k, s, n + 1, A)
    BY <1>2, <2>1, <2>2 DEF Keeps
  <2> QED BY <2>3 DEF KeepsSome
<1> QED BY <1>4, <1>5

LEMMA LivingIs ==
    ASSUME NEW E, NEW s \in Seq(E), NEW A
    PROVE  Living(s, A) \in Seq(E) /\ KeepsSome(Living(s, A), s, Len(s), A)
<1> DEFINE N == Len(s)
           step == [p \in Nat \X Seq(E) |->
                      IF p[1] + 1 \in 1..N /\ s[p[1] + 1].id \in A
                      THEN Append(p[2], s[p[1] + 1]) ELSE p[2]]
           Loop(g) == g = [n \in 0..N |->
                             IF n = 0 THEN <<>>
                             ELSE IF s[n].id \in A THEN Append(g[n - 1], s[n]) ELSE g[n - 1]]
           kept == CHOOSE g : Loop(g)
<1>1. N \in Nat
  OBVIOUS
<1>2. \A n \in 1..N : s[n] \in E
  OBVIOUS
<1>3. \A k \in Seq(E), n \in 1..N : Append(k, s[n]) \in Seq(E)
  BY <1>2
<1> HIDE DEF N
<1>4. step \in [Nat \X Seq(E) -> Seq(E)]
      /\ \A n \in Nat, k \in Seq(E) :
            step[<<n, k>>] = IF n + 1 \in 1..N /\ s[n + 1].id \in A
                             THEN Append(k, s[n + 1]) ELSE k
  BY <1>3
<1> HIDE DEF step
<1>5. <<>> \in Seq(E)
  OBVIOUS
<1>6. PICK f \in [Nat -> Seq(E)] : Recurs(f, <<>>, step)
  BY <1>4, <1>5, RecursionExists
<1> DEFINE g == [n \in 0..N |-> f[n]]
<1>7. Loop(g)
  <2>1. ASSUME NEW n \in 0..N, n # 0
        PROVE  g[n] = IF s[n].id \in A THEN Append(g[n - 1], s[n]) ELSE g[n - 1]
    <3>1. n \in 1..N /\ n - 1 \in Nat /\ n - 1 \in 0..N /\ (n - 1) + 1 = n
      BY <1>1, <2>1
    <3>2. f[(n - 1) + 1] = step[<<n - 1, f[n - 1]>>] /\ f[n - 1] \in Seq(E)
      BY <1>6, <3>1 DEF Recurs
    <3>3. f[n] = IF s[n].id \in A THEN Append(f[n - 1], s[n]) ELSE f[n - 1]
      BY <1>4, <3>1, <3>2
    <3> QED BY <3>1, <3>3
  <2>2. g[0] = <<>>
    BY <1>1, <1>6 DEF Recurs
  <2>3. g = [n \in 0..N |-> g[n]]
    OBVIOUS
  <2> HIDE DEF g
  <2> QED BY <2>1, <2>2, <2>3
<1>8. Loop(kept)
  BY <1>7, Zenon
<1> HIDE DEF kept, g
<1>9. kept = [n \in 0..N |-> IF n = 0 THEN <<>>
                             ELSE IF s[n].id \in A THEN Append(kept[n - 1], s[n])
                             ELSE kept[n - 1]]
  BY <1>8
<1> DEFINE T == {n \in Nat : n <= N => kept[n] \in Seq(E) /\ KeepsSome(kept[n], s, n, A)}
<1>10. Nat \subseteq T
  <2>1. 0 \in T
    <3>1. kept[0] = <<>>
      BY <1>1, <1>9
    <3>2. Keeps(<<>>, <<>>, s, 0, A)
      BY DEF Keeps
    <3> QED BY <1>5, <3>1, <3>2 DEF KeepsSome
  <2>2. ASSUME NEW n \in Nat, n \in T PROVE n + 1 \in T
    <3> SUFFICES ASSUME n + 1 <= N
                 PROVE  kept[n + 1] \in Seq(E) /\ KeepsSome(kept[n + 1], s, n + 1, A)
      OBVIOUS
    <3>1. n <= N /\ n + 1 \in 0..N /\ n + 1 # 0 /\ (n + 1) - 1 = n /\ n + 1 \in 1..N
      BY <1>1
    <3>2. kept[n] \in Seq(E) /\ KeepsSome(kept[n], s, n, A)
      BY <2>2, <3>1
    <3>3. kept[n + 1] = IF s[n + 1].id \in A THEN Append(kept[n], s[n + 1]) ELSE kept[n]
      BY <1>9, <3>1
    <3>4. kept[n + 1] \in Seq(E)
      BY <1>3, <3>1, <3>2, <3>3
    <3>5. KeepsSome(kept[n + 1], s, n + 1, A)
      BY <3>1, <3>2, <3>3, KeepsNext DEF N
    <3> QED BY <3>4, <3>5
  <2> HIDE DEF T
  <2> QED BY <2>1, <2>2, Climb
<1>11. Living(s, A) = kept[N]
  BY DEF Living, kept, N
<1> QED BY <1>1, <1>10, <1>11 DEF N

\* What remains of a queue when some entries leave it.
LEMMA SubqueueIs ==
    ASSUME NEW l, WellFormed(l), NEW k \in Ledger, NEW A,
           k.capacity = l.capacity, k.streak = l.streak,
           KeepsSome(k.entries, l.entries, Len(l.entries), A)
    PROVE  /\ WellFormed(k) /\ Len(k.entries) <= Len(l.entries)
           /\ \A i \in Places(k) : /\ k.entries[i].id \in A
                                   /\ \E j \in Places(l) : k.entries[i] = l.entries[j]
           /\ \A j \in Places(l) :
                 l.entries[j].id \in A => \E i \in Places(k) : k.entries[i] = l.entries[j]
<1> DEFINE es == l.entries
           ks == k.entries
<1>1. PICK m : Keeps(m, ks, es, Len(es), A)
  BY DEF KeepsSome
<1>2. /\ l \in Ledger /\ Places(l) = 1..Len(es) /\ Places(k) = 1..Len(ks)
      /\ Len(es) \in Nat /\ Len(ks) \in Nat /\ l.capacity \in Nat
      /\ IsFiniteSet(ActiveIn(l)) /\ Cardinality(ActiveIn(l)) \in Nat
      /\ Cardinality(ActiveIn(k)) \in Nat
  BY PlacesAre DEF WellFormed
<1>3. /\ m \in [Places(k) -> Places(l)]
      /\ \A i, j \in Places(k) : i < j => m[i] < m[j]
      /\ \A i \in Places(k) : ks[i] = es[m[i]] /\ ks[i].id \in A
      /\ \A x \in Places(l) : es[x].id \in A => \E i \in Places(k) : m[i] = x
  BY <1>1, <1>2 DEF Keeps
<1>4. \A i, j \in Places(k) : m[i] = m[j] => i = j
  <2> SUFFICES ASSUME NEW i \in Places(k), NEW j \in Places(k), m[i] = m[j], i # j PROVE FALSE
    OBVIOUS
  <2>1. i < j \/ j < i
    BY <1>2
  <2>2. m[i] \in Nat /\ m[j] \in Nat
    BY <1>2, <1>3
  <2> QED BY <1>3, <2>1, <2>2
<1>5. Distinct(k)
  BY <1>3, <1>4 DEF WellFormed, Distinct
<1>6. InTurn(k)
  <2> SUFFICES ASSUME NEW i \in Places(k), ks[i].state = "waiting", ks[i].passed # 0
               PROVE  /\ ~IsForeground(ks[i]) /\ ks[i].passed <= k.streak
                      /\ \A j \in WaitingIn(k, FALSE) : i <= j
    BY DEF InTurn
  <2>1. /\ m[i] \in Places(l) /\ ks[i] = es[m[i]]
    BY <1>3
  <2>2. /\ ~IsForeground(ks[i]) /\ ks[i].passed <= k.streak
        /\ \A j \in WaitingIn(l, FALSE) : m[i] <= j
    BY <2>1 DEF WellFormed, InTurn
  <2>3. ASSUME NEW j \in WaitingIn(k, FALSE) PROVE i <= j
    <3>1. j \in Places(k) /\ m[j] \in WaitingIn(l, FALSE)
      BY <1>3 DEF WaitingIn, Places
    <3>2. m[i] <= m[j] /\ m[i] \in Nat /\ m[j] \in Nat
      <4>1. m[i] <= m[j]
        BY <2>2, <3>1
      <4>2. \A x \in Places(l) : x \in Nat
        BY <1>2
      <4>3. m[i] \in Places(l) /\ m[j] \in Places(l)
        BY <1>3, <3>1
      <4> QED BY <4>1, <4>2, <4>3
    <3>3. ~(j < i)
      BY <1>3, <3>1, <3>2
    <3> QED BY <1>2, <3>1, <3>3
  <2> QED BY <2>2, <2>3
<1>7. InOrder(k)
  <2> SUFFICES ASSUME NEW i \in Places(k), NEW j \in Places(k), i < j, ks[j].state = "active",
                      IsForeground(ks[i]) = IsForeground(ks[j])
               PROVE  ks[i].state = "active"
    BY DEF InOrder
  <2>1. /\ m[i] \in Places(l) /\ m[j] \in Places(l) /\ m[i] < m[j]
        /\ ks[i] = es[m[i]] /\ ks[j] = es[m[j]]
    BY <1>3
  <2> QED BY <2>1 DEF WellFormed, InOrder
<1>8. Cardinality(ActiveIn(k)) <= Cardinality(ActiveIn(l))
  <2> DEFINE f == [i \in ActiveIn(k) |-> m[i]]
  <2>1. \A i \in ActiveIn(k) : i \in Places(k) /\ m[i] \in ActiveIn(l)
    BY <1>3 DEF ActiveIn, Places
  <2>2. f \in Injection(ActiveIn(k), ActiveIn(l))
    BY <1>4, <2>1 DEF Injection, IsInjective
  <2> HIDE DEF f
  <2> QED BY <1>2, <2>2, FS_Injection
<1>9. Within(k)
  BY <1>2, <1>8 DEF WellFormed, Within
<1>10. Len(ks) <= Len(es)
  <2>1. m \in Injection(Places(k), Places(l))
    BY <1>3, <1>4 DEF Injection, IsInjective
  <2>2. IsFiniteSet(Places(l)) /\ Cardinality(Places(l)) = Len(es)
        /\ Cardinality(Places(k)) = Len(ks)
    <3>1. \A n \in Nat : IsFiniteSet(1..n) /\ Cardinality(1..n) = n
      BY FS_Interval
    <3> HIDE DEF es, ks
    <3> QED BY <1>2, <3>1
  <2>3. Cardinality(Places(k)) <= Cardinality(Places(l))
    BY <2>1, <2>2, FS_Injection
  <2> QED BY <2>2, <2>3
<1>11. \A j \in Places(l) : es[j].id \in A => \E i \in Places(k) : ks[i] = es[j]
  BY <1>3
<1> QED BY <1>3, <1>5, <1>6, <1>7, <1>9, <1>10, <1>11 DEF WellFormed

\* A request at the end of the queue.
With(l, e) == [l EXCEPT !.entries = Append(@, e)]

LEMMA AppendKeeps ==
    ASSUME NEW l, WellFormed(l), NEW e \in Entry, e.id \notin IdsOf(l),
           e.state = "waiting", e.passed = 0
    PROVE  /\ WellFormed(With(l, e)) /\ With(l, e).capacity = l.capacity
           /\ Len(With(l, e).entries) = Len(l.entries) + 1
           /\ With(l, e).entries[Len(l.entries) + 1] = e
           /\ \A i \in Places(l) : With(l, e).entries[i] = l.entries[i]
           /\ Places(With(l, e)) = Places(l) \cup {Len(l.entries) + 1}
<1> DEFINE k == With(l, e)
           es == l.entries
           n == Len(es) + 1
<1>1. /\ l \in Ledger /\ Places(l) = 1..Len(es) /\ Len(es) \in Nat
      /\ \A i \in Places(l) : es[i] \in Entry
      /\ ActiveIn(l) \subseteq Places(l) /\ es \in Seq(Entry)
  BY PlacesAre DEF WellFormed, Ledger
<1>2. /\ Append(es, e) \in Seq(Entry) /\ Len(Append(es, e)) = n
      /\ Append(es, e)[n] = e /\ \A i \in Places(l) : Append(es, e)[i] = es[i]
  BY <1>1
<1>3. k.capacity = l.capacity /\ k.streak = l.streak /\ k.entries = Append(es, e) /\ k \in Ledger
  BY <1>1, <1>2 DEF With, Ledger
<1> HIDE DEF k
<1>4. Places(k) = Places(l) \cup {n} /\ n \notin Places(l) /\ \A i \in Places(l) : i < n
  <2>1. Places(k) = 1..n
    BY <1>2, <1>3, PlacesAre
  <2>2. n = Len(es) + 1
    OBVIOUS
  <2> HIDE DEF n
  <2> QED BY <1>1, <2>1, <2>2
<1>5. /\ k.entries[n] = e /\ \A i \in Places(l) : k.entries[i] = es[i]
      /\ \A i \in Places(l) : es[i].id # e.id
  <2>1. \A i \in Places(l) : es[i].id \in IdsOf(l)
    BY DEF IdsOf, ToSet, Places
  <2> QED BY <1>2, <1>3, <2>1
<1> HIDE DEF n
<1>6. Distinct(k)
  BY <1>4, <1>5 DEF WellFormed, Distinct
<1>7. InTurn(k)
  <2> SUFFICES ASSUME NEW i \in Places(k), k.entries[i].state = "waiting", k.entries[i].passed # 0
               PROVE  /\ ~IsForeground(k.entries[i]) /\ k.entries[i].passed <= k.streak
                      /\ \A j \in WaitingIn(k, FALSE) : i <= j
    BY DEF InTurn
  <2>1. i \in Places(l) /\ k.entries[i] = es[i]
    BY <1>4, <1>5
  <2>2. /\ ~IsForeground(k.entries[i]) /\ k.entries[i].passed <= k.streak
        /\ \A j \in WaitingIn(l, FALSE) : i <= j
    BY <1>3, <2>1 DEF WellFormed, InTurn
  <2>3. ASSUME NEW j \in WaitingIn(k, FALSE) PROVE j \in WaitingIn(l, FALSE) \/ j = n
    BY <1>4, <1>5 DEF WaitingIn, Places
  <2>4. i <= n
    <3>1. i < n /\ i \in Nat /\ n \in Nat
      BY <1>1, <1>4, <2>1 DEF n
    <3> QED BY <3>1
  <2> QED BY <2>2, <2>3, <2>4
<1>8. InOrder(k)
  <2> SUFFICES ASSUME NEW i \in Places(k), NEW j \in Places(k), i < j,
                      k.entries[j].state = "active",
                      IsForeground(k.entries[i]) = IsForeground(k.entries[j])
               PROVE  k.entries[i].state = "active"
    BY DEF InOrder
  <2>1. j \in Places(l)
    BY <1>4, <1>5
  <2>2. i \in Places(l)
    <3>1. CASE i = n
      <4>1. j < n /\ i \in Nat /\ j \in Nat
        BY <1>1, <1>4, <2>1, <3>1 DEF n
      <4> QED BY <3>1, <4>1
    <3> QED BY <1>4, <3>1
  <2> QED BY <1>5, <2>1, <2>2 DEF WellFormed, InOrder
<1>9. ActiveIn(k) = ActiveIn(l)
  BY <1>4, <1>5 DEF ActiveIn, Places
<1>10. Within(k)
  BY <1>3, <1>9 DEF WellFormed, Within
<1> QED BY <1>2, <1>3, <1>4, <1>5, <1>6, <1>7, <1>8, <1>10 DEF WellFormed, k, n

-----------------------------------------------------------------------------
(* The invariant of a step.                                                 *)

\* A ledger, saved or as a working copy, and those who hold its tickets.
QueueHolds(l) ==
    /\ WellFormed(l) /\ Len(l.entries) <= MaxTickets
    /\ IdsOf(l) \subseteq files
    /\ \A i \in Places(l) :
          l.entries[i].id \in locked =>
              /\ ticket[l.entries[i].client] = l.entries[i].id
              /\ l.entries[i].client \in DOMAIN setup.wanted
              /\ setup.wanted[l.entries[i].client] = l.capacity
    /\ \A c \in Clients :
          at[c] = "permit" =>
              \E i \in Places(l) : l.entries[i].id = ticket[c] /\ l.entries[i].state = "active"

TicketsHold ==
    /\ \A c \in Clients : ticket[c] # NoOwner => ticket[c] \in locked
    /\ \A c, d \in Clients : ticket[c] = ticket[d] /\ ticket[c] # NoOwner => c = d
    /\ \A c \in Clients :
          at[c] \in {"off", "releasing", "publishingRelease", "discardingRelease"} =>
              ticket[c] = NoOwner
    /\ \A c \in Clients : at[c] # "off" => c \in DOMAIN setup.wanted

Writing == {"publishing", "discarding", "publishingRelease", "discardingRelease"}

TransactionHolds ==
    /\ lock = Nobody => draft = ledger /\ garbage = {}
    /\ \A c \in Clients : at[c] \in Writing <=> lock = c
    /\ \A c \in Clients : at[c] \in {"discarding", "discardingRelease"} => draft = ledger
    /\ garbage \cap locked = {} /\ garbage \cap IdsOf(draft) = {}

\* A living owner's entry is saved, or about to be, but for a client that was
\* refused when its publication failed.
SavedHolds ==
    \A o \in locked :
        \/ failures # 0 /\ GivenUp(o)
        \/ /\ o \in IdsOf(draft)
           /\ o \in IdsOf(ledger) \/ (lock # Nobody /\ o = ticket[lock])

StateTypeOK ==
    /\ files \subseteq Owners /\ garbage \subseteq Owners
    /\ locked \subseteq files
    /\ lock \in Clients \cup {Nobody}
    /\ ticket \in [Clients -> Owners \cup {NoOwner}]
    /\ at \in [Clients -> Steps]
    /\ setup \in Setups /\ deaths \in 0..setup.crashes /\ failures \in 0..setup.failures

IInv == /\ StateTypeOK /\ QueueHolds(ledger) /\ QueueHolds(draft)
        /\ TicketsHold /\ TransactionHolds /\ SavedHolds

\* What a transaction makes of the saved ledger: the living requests, each where
\* it was or further.
Carries(k) ==
    /\ \A i \in Places(k) : \E j \in Places(ledger) :
          /\ k.entries[i].id = ledger.entries[j].id /\ ledger.entries[j].id \in locked
          /\ k.entries[i].client = ledger.entries[j].client
    /\ \A j \in Places(ledger) :
          ledger.entries[j].id \in locked =>
              \E i \in Places(k) :
                 /\ k.entries[i].id = ledger.entries[j].id
                 /\ ledger.entries[j].state = "active" => k.entries[i].state = "active"

LEMMA IdsAre ==
    ASSUME NEW l
    PROVE  /\ \A i \in Places(l) : l.entries[i].id \in IdsOf(l)
           /\ \A o \in IdsOf(l) : \E i \in Places(l) : l.entries[i].id = o
  BY DEF IdsOf, ToSet, Places

LEMMA ReapedIs ==
    ASSUME WellFormed(ledger)
    PROVE  /\ WellFormed(Reaped) /\ Carries(Reaped)
           /\ Reaped.capacity = ledger.capacity
           /\ Len(Reaped.entries) <= Len(ledger.entries)
<1> DEFINE es == ledger.entries
<1>1. ledger \in Ledger /\ es \in Seq(Entry)
  BY DEF WellFormed, Ledger
<1>2. Living(es, locked) \in Seq(Entry) /\ KeepsSome(Living(es, locked), es, Len(es), locked)
  BY <1>1, LivingIs
<1>3. /\ Reaped \in Ledger /\ Reaped.entries = Living(es, locked)
      /\ Reaped.capacity = ledger.capacity /\ Reaped.streak = ledger.streak
  BY <1>1, <1>2 DEF Reaped, Ledger
<1>4. /\ WellFormed(Reaped) /\ Len(Reaped.entries) <= Len(es)
      /\ \A i \in Places(Reaped) : /\ Reaped.entries[i].id \in locked
                                   /\ \E j \in Places(ledger) : Reaped.entries[i] = es[j]
      /\ \A j \in Places(ledger) :
            es[j].id \in locked => \E i \in Places(Reaped) : Reaped.entries[i] = es[j]
  BY <1>2, <1>3, SubqueueIs
<1>5. Carries(Reaped)
  BY <1>4 DEF Carries
<1> QED BY <1>3, <1>4, <1>5

LEMMA AdoptedIs ==
    ASSUME WellFormed(ledger), NEW c, c \in DOMAIN setup.wanted, setup \in Setups, CanAdopt(c)
    PROVE  /\ WellFormed(TakenOver(c)) /\ Carries(TakenOver(c))
           /\ TakenOver(c).capacity = setup.wanted[c]
           /\ TakenOver(c).entries = Reaped.entries
           /\ Reaped.entries # <<>> => setup.wanted[c] = ledger.capacity
<1>1. /\ WellFormed(Reaped) /\ Carries(Reaped) /\ Reaped.capacity = ledger.capacity
      /\ Reaped \in Ledger
  BY ReapedIs DEF WellFormed
<1>2. setup.wanted[c] \in Nat
  BY SetupsAssumption
<1>3. CASE Reaped.entries = <<>>
  <2> DEFINE k == TakenOver(c)
  <2>1. k = [capacity |-> setup.wanted[c], streak |-> 0, entries |-> <<>>]
    BY <1>3 DEF TakenOver, Empty
  <2>2. k.capacity = setup.wanted[c] /\ k.streak = 0 /\ k.entries = <<>> /\ k \in Ledger
    BY <1>2, <2>1 DEF Ledger, MaxStreak
  <2> HIDE DEF k
  <2>3. Places(k) = {} /\ ActiveIn(k) = {}
    BY <2>2 DEF Places, ActiveIn
  <2>4. Within(k)
    BY <1>2, <2>2, <2>3, FS_EmptySet DEF Within
  <2>5. Places(Reaped) = {}
    BY <1>3 DEF Places
  <2>6. WellFormed(k) /\ Carries(k)
    BY <1>1, <2>2, <2>3, <2>4, <2>5 DEF WellFormed, Distinct, InTurn, InOrder, Carries
  <2> QED BY <1>3, <2>2, <2>6 DEF k
<1>4. CASE Reaped.entries # <<>>
  <2> DEFINE k == TakenOver(c)
  <2>1. Reaped.capacity = setup.wanted[c]
    BY <1>4 DEF CanAdopt
  <2>2. /\ k.capacity = setup.wanted[c] /\ k.streak = Reaped.streak
        /\ k.entries = Reaped.entries /\ k \in Ledger
    BY <1>1, <1>2, <1>4 DEF TakenOver, Ledger
  <2> HIDE DEF k
  <2>3. WellFormed(k) /\ Carries(k)
    BY <1>1, <2>1, <2>2
    DEF WellFormed, Distinct, InTurn, InOrder, Within, ActiveIn, WaitingIn, Carries, Places
  <2> QED BY <1>1, <2>1, <2>2, <2>3 DEF k
<1> QED BY <1>3, <1>4

LEMMA CarriesOn ==
    ASSUME NEW l \in Ledger, NEW k \in Ledger, Carries(l), Upgrades(l, k)
    PROVE  Carries(k)
<1>1. Places(k) = Places(l)
  BY PlacesAre DEF Upgrades
<1> QED BY <1>1 DEF Carries, Upgrades

-----------------------------------------------------------------------------
LEMMA InitHolds == AdmissionInit => IInv
<1> SUFFICES ASSUME AdmissionInit PROVE IInv
  OBVIOUS
<1>1. PICK n : ledger = Empty(n) /\ n \in Nat
  BY SetupsAssumption DEF AdmissionInit
<1>2. /\ ledger.capacity = n /\ ledger.streak = 0 /\ ledger.entries = <<>> /\ ledger \in Ledger
      /\ draft = ledger
  BY <1>1 DEF Empty, Ledger, MaxStreak, AdmissionInit
<1>3. Places(ledger) = {} /\ ActiveIn(ledger) = {} /\ IdsOf(ledger) = {} /\ Len(ledger.entries) = 0
  BY <1>2 DEF Places, ActiveIn, IdsOf, ToSet
<1>4. WellFormed(ledger)
  <2>1. Within(ledger)
    BY <1>1, <1>2, <1>3, FS_EmptySet DEF Within
  <2> QED BY <1>2, <1>3, <2>1 DEF WellFormed, Distinct, InTurn, InOrder
<1>5. \A c \in Clients : at[c] = "off" /\ ticket[c] = NoOwner
  BY DEF AdmissionInit
<1>6. QueueHolds(ledger)
  BY <1>3, <1>4, <1>5, TicketsAssumption DEF QueueHolds
<1>7. StateTypeOK
  <2>1. ticket \in [Clients -> Owners \cup {NoOwner}] /\ at \in [Clients -> Steps]
    BY DEF AdmissionInit, Steps
  <2>2. setup.crashes \in Nat /\ setup.failures \in Nat /\ setup \in Setups
    BY SetupsAssumption DEF AdmissionInit
  <2> QED BY <2>1, <2>2 DEF AdmissionInit, StateTypeOK
<1>8. TicketsHold /\ TransactionHolds /\ SavedHolds
  BY <1>2, <1>3, <1>5, ClientsAssumption
  DEF AdmissionInit, TicketsHold, TransactionHolds, SavedHolds, Writing
<1> QED BY <1>2, <1>6, <1>7, <1>8 DEF IInv

-----------------------------------------------------------------------------
(* The steps.                                                               *)

\* A client moves without touching the directory or a transaction.
Moves(c, step) ==
    /\ Go(c, step) /\ at[c] \notin Writing /\ at[c] # "refused"
    /\ step \in {"queued", "refused", "off"}
    /\ step = "off" => ticket[c] = NoOwner
    /\ step # "off" => c \in DOMAIN setup.wanted
    /\ UNCHANGED <<directory, transaction, ticket, faults>>

LEMMA MoveKeeps ==
    ASSUME IInv, NEW c \in Clients, NEW step, Moves(c, step), UNCHANGED setup
    PROVE  IInv'
<1> USE DEF directory, transaction, faults
<1>1. /\ step \in Steps \ Writing /\ step \notin {"permit", "releasing"} /\ at[c] \notin Writing
      /\ at \in [Clients -> Steps]
      /\ UNCHANGED <<ledger, files, locked, lock, draft, garbage, ticket, deaths, failures>>
  BY DEF Moves, Steps, Writing, IInv, StateTypeOK
<1>2. \A d \in Clients : at'[d] = IF d = c THEN step ELSE at[d]
  BY <1>1 DEF Moves, Go
<1>3. at' \in [Clients -> Steps]
  BY <1>1 DEF Moves, Go
<1>4. StateTypeOK'
  BY <1>1, <1>3 DEF IInv, StateTypeOK
<1>5. QueueHolds(ledger)' /\ QueueHolds(draft)'
  BY <1>1, <1>2 DEF IInv, QueueHolds
<1>6. TicketsHold'
  BY <1>1, <1>2 DEF IInv, TicketsHold, Moves, Writing
<1>7. TransactionHolds'
  BY <1>1, <1>2 DEF IInv, TransactionHolds, Writing
<1>8. SavedHolds'
  BY <1>1, <1>2 DEF IInv, SavedHolds, GivenUp, Moves
<1> QED BY <1>4, <1>5, <1>6, <1>7, <1>8 DEF IInv

\* A transaction begins with a working copy that keeps every living request.
LEMMA BeginKeeps ==
    ASSUME IInv, NEW c \in Clients, NEW step \in {"publishing", "publishingRelease"},
           Prepare(c, step), UNCHANGED <<ledger, locked, ticket, faults, setup>>,
           c \in DOMAIN setup.wanted, step = "publishingRelease" => ticket[c] = NoOwner,
           WellFormed(draft'), Carries(draft'), Len(draft'.entries) <= MaxTickets,
           draft'.entries # <<>> => draft'.capacity = ledger.capacity
    PROVE  IInv'
<1> USE DEF faults
<1> DEFINE k == draft'
<1>1. /\ lock = Nobody /\ lock' = c /\ garbage' = files \ locked /\ files' = files \cup locked
      /\ UNCHANGED <<ledger, locked, ticket, deaths, failures, setup>>
      /\ at \in [Clients -> Steps] /\ locked \subseteq files /\ files \subseteq Owners
      /\ WellFormed(ledger) /\ IdsOf(ledger) \subseteq files
  BY DEF Prepare, IInv, StateTypeOK, QueueHolds
<1>2. files' = files
  BY <1>1
<1>3. /\ \A d \in Clients : at'[d] = IF d = c THEN step ELSE at[d]
      /\ at' \in [Clients -> Steps] /\ step \in Writing /\ c # Nobody
      /\ \A d \in Clients : at[d] \notin Writing
  BY <1>1, ClientsAssumption DEF Prepare, Go, Steps, Writing, IInv, TransactionHolds
<1>4. StateTypeOK'
  BY <1>1, <1>2, <1>3 DEF IInv, StateTypeOK
<1>5. QueueHolds(ledger)'
  BY <1>1, <1>2, <1>3 DEF IInv, QueueHolds, Writing
<1>6. IdsOf(k) \subseteq locked
  <2>1. ASSUME NEW o \in IdsOf(k) PROVE o \in locked
    <3>1. PICK i \in Places(k) : k.entries[i].id = o
      BY IdsAre
    <3> QED BY <3>1 DEF Carries
  <2> QED BY <2>1
<1>7. ASSUME NEW i \in Places(k)
      PROVE  /\ ticket[k.entries[i].client] = k.entries[i].id
             /\ k.entries[i].client \in DOMAIN setup.wanted
             /\ setup.wanted[k.entries[i].client] = k.capacity
  <2>1. PICK j \in Places(ledger) :
               /\ k.entries[i].id = ledger.entries[j].id /\ ledger.entries[j].id \in locked
               /\ k.entries[i].client = ledger.entries[j].client
    BY DEF Carries
  <2>2. k.entries # <<>>
    BY DEF Places
  <2> QED BY <2>1, <2>2 DEF IInv, QueueHolds
<1>8. ASSUME NEW d \in Clients, at[d] = "permit"
      PROVE  \E i \in Places(k) : k.entries[i].id = ticket[d] /\ k.entries[i].state = "active"
  <2>1. PICK j \in Places(ledger) :
               ledger.entries[j].id = ticket[d] /\ ledger.entries[j].state = "active"
    BY <1>8 DEF IInv, QueueHolds
  <2>2. ledger.entries[j].id \in Owners
    BY <1>1, PlacesAre DEF WellFormed, Entry
  <2>3. ticket[d] \in locked
    BY <2>1, <2>2, OwnersAssumption DEF IInv, TicketsHold
  <2> QED BY <2>1, <2>3 DEF Carries
<1>9. QueueHolds(draft)'
  <2>1. \A d \in Clients : at'[d] = "permit" => at[d] = "permit"
    BY <1>3 DEF Writing
  <2>2. IdsOf(k) \subseteq files
    BY <1>1, <1>6
  <2> QED BY <1>1, <1>2, <1>7, <1>8, <2>1, <2>2 DEF QueueHolds
<1>10. TicketsHold'
  BY <1>1, <1>3 DEF IInv, TicketsHold, Writing
<1>11. TransactionHolds'
  <2>1. \A d \in Clients : at'[d] \notin {"discarding", "discardingRelease"}
    BY <1>3 DEF Writing
  <2>2. garbage' \cap locked' = {} /\ garbage' \cap IdsOf(k) = {}
    BY <1>1, <1>6
  <2>3. \A d \in Clients : at'[d] \in Writing <=> lock' = d
    BY <1>1, <1>3
  <2> QED BY <1>1, <1>3, <2>1, <2>2, <2>3 DEF TransactionHolds
<1>12. SavedHolds'
  <2>1. locked \subseteq IdsOf(ledger)
    BY DEF Prepare, Provable
  <2>2. ASSUME NEW o \in locked, o \in IdsOf(ledger) PROVE o \in IdsOf(k)
    <3>1. PICK j \in Places(ledger) : ledger.entries[j].id = o
      BY <2>2, IdsAre
    <3>2. PICK i \in Places(k) : k.entries[i].id = o
      BY <3>1 DEF Carries
    <3> QED BY <3>2, IdsAre
  <2> QED BY <1>1, <2>1, <2>2 DEF SavedHolds
<1> QED BY <1>4, <1>5, <1>9, <1>10, <1>11, <1>12 DEF IInv

LEMMA SmallMoves ==
    ASSUME IInv, NEW c \in Clients, UNCHANGED setup,
           Request(c) \/ RefuseProof(c) \/ RefuseFull(c) \/ SkipRelease(c)
    PROVE  IInv'
<1>1. /\ at[c] # "off" => c \in DOMAIN setup.wanted
      /\ at[c] = "releasing" => ticket[c] = NoOwner
  BY DEF IInv, TicketsHold
<1>2. CASE Request(c)
  <2>1. Moves(c, "queued")
    BY <1>2 DEF Request, Moves, Writing
  <2> QED BY <2>1, MoveKeeps
<1>3. CASE RefuseProof(c) /\ at[c] = "queued"
  <2>1. Moves(c, "refused")
    BY <1>1, <1>3 DEF RefuseProof, Moves, Writing
  <2> QED BY <2>1, MoveKeeps
<1>4. CASE RefuseProof(c) /\ at[c] = "releasing"
  <2>1. Moves(c, "off")
    BY <1>1, <1>4 DEF RefuseProof, Moves, Writing
  <2> QED BY <2>1, MoveKeeps
<1>5. CASE RefuseFull(c)
  <2>1. Moves(c, "refused")
    BY <1>1, <1>5 DEF RefuseFull, Moves, Writing
  <2> QED BY <2>1, MoveKeeps
<1>6. CASE SkipRelease(c)
  <2>1. Moves(c, "off")
    BY <1>1, <1>6 DEF SkipRelease, Moves, Writing
  <2> QED BY <2>1, MoveKeeps
<1> QED BY <1>2, <1>3, <1>4, <1>5, <1>6 DEF RefuseProof

LEMMA WaitOutKeeps ==
    ASSUME IInv, NEW c \in Clients, UNCHANGED setup, WaitOut(c) \/ Release(c)
    PROVE  IInv'
<1>1. /\ WellFormed(ledger) /\ Len(ledger.entries) <= MaxTickets
      /\ at[c] # "off" => c \in DOMAIN setup.wanted
      /\ at[c] = "releasing" => ticket[c] = NoOwner
  BY DEF IInv, QueueHolds, TicketsHold
<1>2. /\ draft' = Reaped /\ c \in DOMAIN setup.wanted
      /\ UNCHANGED <<ledger, locked, ticket, faults, setup>>
  BY <1>1 DEF WaitOut, Release
<1>3. /\ WellFormed(Reaped) /\ Carries(Reaped) /\ Reaped.capacity = ledger.capacity
      /\ Len(Reaped.entries) <= Len(ledger.entries)
  BY <1>1, ReapedIs
<1>4. Len(Reaped.entries) <= MaxTickets
  BY <1>1, <1>3, PlacesAre, TicketsAssumption DEF WellFormed
<1>5. CASE WaitOut(c)
  <2>1. Prepare(c, "publishing")
    BY <1>5 DEF WaitOut
  <2> QED BY <1>2, <1>3, <1>4, <2>1, BeginKeeps
<1>6. CASE Release(c)
  <2>1. Prepare(c, "publishingRelease") /\ ticket[c] = NoOwner
    BY <1>1, <1>6 DEF Release
  <2> QED BY <1>2, <1>3, <1>4, <2>1, BeginKeeps
<1> QED BY <1>5, <1>6

LEMMA AdvanceKeeps ==
    ASSUME IInv, NEW c \in Clients, UNCHANGED setup, Advance(c)
    PROVE  IInv'
<1> DEFINE k == TakenOver(c)
           g == Grant(k)
<1>1. /\ WellFormed(ledger) /\ Len(ledger.entries) <= MaxTickets
      /\ c \in DOMAIN setup.wanted /\ setup \in Setups /\ CanAdopt(c)
  BY DEF IInv, QueueHolds, TicketsHold, StateTypeOK, Advance
<1>2. /\ WellFormed(k) /\ Carries(k) /\ k.entries = Reaped.entries
      /\ k.capacity = setup.wanted[c]
      /\ Reaped.entries # <<>> => setup.wanted[c] = ledger.capacity
  BY <1>1, AdoptedIs
<1> HIDE DEF k
<1>3. WellFormed(g) /\ Upgrades(k, g) /\ g \in Ledger /\ k \in Ledger
  BY <1>2, GrantKeeps DEF WellFormed
<1> HIDE DEF g
<1>4. Carries(g)
  BY <1>2, <1>3, CarriesOn
<1>5. Len(g.entries) = Len(Reaped.entries) /\ g.capacity = setup.wanted[c]
  BY <1>2, <1>3 DEF Upgrades
<1>6. Len(g.entries) <= MaxTickets
  BY <1>1, <1>3, <1>5, ReapedIs, PlacesAre, TicketsAssumption DEF WellFormed
<1>7. g.entries # <<>> => g.capacity = ledger.capacity
  <2>1. g.entries # <<>> => Len(g.entries) # 0
    BY <1>3 DEF Ledger
  <2>2. Reaped.entries = <<>> => Len(Reaped.entries) = 0
    OBVIOUS
  <2> QED BY <1>2, <1>5, <2>1, <2>2
<1>8. /\ draft' = g /\ Prepare(c, "publishing")
      /\ UNCHANGED <<ledger, locked, ticket, faults, setup>>
  BY DEF Advance, g, k
<1> QED BY <1>1, <1>3, <1>4, <1>6, <1>7, <1>8, BeginKeeps

LEMMA EnqueueKeeps ==
    ASSUME IInv, NEW c \in Clients, UNCHANGED setup, Enqueue(c)
    PROVE  IInv'
<1> USE DEF faults
<1> DEFINE id  == CHOOSE o \in Owners : o \notin files
           new == [id |-> id, client |-> c, state |-> "waiting", passed |-> 0]
           k   == TakenOver(c)
           w   == With(k, new)
           g   == Grant(w)
           end == Len(k.entries) + 1
<1>1. /\ WellFormed(ledger) /\ Len(ledger.entries) <= MaxTickets /\ ledger \in Ledger
      /\ c \in DOMAIN setup.wanted /\ setup \in Setups /\ CanAdopt(c)
      /\ files \subseteq Owners /\ locked \subseteq files /\ ticket[c] = NoOwner
      /\ ticket \in [Clients -> Owners \cup {NoOwner}] /\ at \in [Clients -> Steps]
      /\ IdsOf(ledger) \subseteq files /\ locked \subseteq IdsOf(ledger)
      /\ Len(Reaped.entries) < MaxTickets /\ lock = Nobody
  BY DEF IInv, QueueHolds, TicketsHold, StateTypeOK, Enqueue, Prepare, Provable, WellFormed
<1>2. id \in Owners /\ id \notin files
  BY <1>1 DEF Enqueue
<1>3. /\ locked' = locked \cup {id} /\ ticket' = [ticket EXCEPT ![c] = id] /\ draft' = g
      /\ UNCHANGED <<ledger, deaths, failures, setup>>
      /\ lock' = c /\ garbage' = files \ locked /\ files' = files \cup locked'
      /\ Go(c, "publishing")
  BY DEF Enqueue, Prepare, With
<1>4. /\ WellFormed(k) /\ Carries(k) /\ k.entries = Reaped.entries
      /\ k.capacity = setup.wanted[c]
      /\ Reaped.entries # <<>> => setup.wanted[c] = ledger.capacity
  BY <1>1, AdoptedIs
<1> HIDE DEF id, k
<1>5. \A i \in Places(k) : /\ k.entries[i].id \in locked /\ k.entries[i].id # id
                           /\ k.entries[i].client \in DOMAIN setup.wanted
                           /\ k.entries[i].client # c
                           /\ ticket[k.entries[i].client] = k.entries[i].id
                           /\ setup.wanted[k.entries[i].client] = k.capacity
  <2> SUFFICES ASSUME NEW i \in Places(k)
               PROVE  /\ k.entries[i].id \in locked /\ k.entries[i].id # id
                      /\ k.entries[i].client \in DOMAIN setup.wanted
                      /\ k.entries[i].client # c
                      /\ ticket[k.entries[i].client] = k.entries[i].id
                      /\ setup.wanted[k.entries[i].client] = k.capacity
    OBVIOUS
  <2>1. PICK j \in Places(ledger) :
               /\ k.entries[i].id = ledger.entries[j].id /\ ledger.entries[j].id \in locked
               /\ k.entries[i].client = ledger.entries[j].client
    BY <1>4 DEF Carries
  <2>2. Reaped.entries # <<>>
    BY <1>4 DEF Places
  <2>3. /\ ticket[ledger.entries[j].client] = ledger.entries[j].id
        /\ ledger.entries[j].client \in DOMAIN setup.wanted
        /\ setup.wanted[ledger.entries[j].client] = ledger.capacity
    BY <2>1 DEF IInv, QueueHolds
  <2>4. k.entries[i].id # id /\ k.entries[i].id # NoOwner
    BY <1>1, <1>2, <2>1, OwnersAssumption
  <2> QED BY <1>1, <1>4, <2>1, <2>2, <2>3, <2>4
<1>6. new \in Entry /\ new.id = id /\ new.client = c /\ new.state = "waiting" /\ new.passed = 0
  BY <1>2 DEF Entry
<1> HIDE DEF new
<1>7. id \notin IdsOf(k)
  BY <1>5, IdsAre
<1>8. /\ WellFormed(w) /\ w.capacity = k.capacity
      /\ Len(w.entries) = end /\ w.entries[end] = new
      /\ \A i \in Places(k) : w.entries[i] = k.entries[i]
      /\ Places(w) = Places(k) \cup {end}
  BY <1>4, <1>6, <1>7, AppendKeeps
<1> HIDE DEF w
<1>9. WellFormed(g) /\ Upgrades(w, g) /\ g \in Ledger /\ w \in Ledger
  BY <1>8, GrantKeeps DEF WellFormed
<1> HIDE DEF g
<1>10. /\ g.capacity = setup.wanted[c] /\ Places(g) = Places(k) \cup {end}
       /\ \A i \in Places(k) : /\ g.entries[i].id = k.entries[i].id
                               /\ g.entries[i].client = k.entries[i].client
                               /\ k.entries[i].state = "active" => g.entries[i].state = "active"
       /\ g.entries[end].id = id /\ g.entries[end].client = c
  <2>1. Places(g) = Places(w)
    BY <1>9, PlacesAre DEF Upgrades
  <2> QED BY <1>4, <1>6, <1>8, <1>9, <2>1 DEF Upgrades
<1>11. Len(g.entries) <= MaxTickets
  <2>1. Len(g.entries) = Len(Reaped.entries) + 1
    BY <1>4, <1>8, <1>9 DEF Upgrades
  <2>2. Len(Reaped.entries) \in Nat
    BY <1>1, ReapedIs, PlacesAre DEF WellFormed
  <2> QED BY <1>1, <2>1, <2>2, TicketsAssumption
<1>12. /\ \A d \in Clients : at'[d] = IF d = c THEN "publishing" ELSE at[d]
       /\ at' \in [Clients -> Steps] /\ c # Nobody
       /\ \A d \in Clients : at[d] \notin Writing
  BY <1>1, <1>3, ClientsAssumption DEF Go, Steps, Writing, IInv, TransactionHolds
<1>13. /\ \A d \in Clients : ticket'[d] = IF d = c THEN id ELSE ticket[d]
       /\ ticket' \in [Clients -> Owners \cup {NoOwner}]
       /\ files' = files \cup {id}
  BY <1>1, <1>2, <1>3
<1>14. IdsOf(g) \subseteq locked'
  <2>1. ASSUME NEW o \in IdsOf(g) PROVE o \in locked'
    <3>1. PICK i \in Places(g) : g.entries[i].id = o
      BY IdsAre
    <3> QED BY <1>3, <1>5, <1>10, <3>1
  <2> QED BY <2>1
<1>15. StateTypeOK'
  BY <1>1, <1>2, <1>3, <1>12, <1>13 DEF IInv, StateTypeOK
<1>16. QueueHolds(ledger)'
  <2>1. ASSUME NEW i \in Places(ledger), ledger.entries[i].id \in locked'
        PROVE  /\ ticket'[ledger.entries[i].client] = ledger.entries[i].id
               /\ ledger.entries[i].client \in DOMAIN setup.wanted
               /\ setup.wanted[ledger.entries[i].client] = ledger.capacity
    <3>1. ledger.entries[i].id \in files /\ ledger.entries[i].client \in Clients
      BY <1>1, IdsAre, PlacesAre DEF Entry
    <3>2. ledger.entries[i].id \in locked /\ ledger.entries[i].id # NoOwner
      BY <1>1, <1>2, <1>3, <2>1, <3>1, OwnersAssumption
    <3>3. /\ ticket[ledger.entries[i].client] = ledger.entries[i].id
          /\ ledger.entries[i].client \in DOMAIN setup.wanted
          /\ setup.wanted[ledger.entries[i].client] = ledger.capacity
      BY <3>2 DEF IInv, QueueHolds
    <3> QED BY <1>1, <1>13, <3>1, <3>2, <3>3
  <2>2. ASSUME NEW d \in Clients, at'[d] = "permit"
        PROVE  \E i \in Places(ledger) :
                  ledger.entries[i].id = ticket'[d] /\ ledger.entries[i].state = "active"
    <3>1. d # c /\ at[d] = "permit" /\ ticket'[d] = ticket[d]
      BY <1>12, <1>13, <2>2
    <3> QED BY <3>1 DEF IInv, QueueHolds
  <2> QED BY <1>1, <1>3, <1>13, <2>1, <2>2 DEF QueueHolds
<1>17. QueueHolds(draft)'
  <2>1. ASSUME NEW i \in Places(g)
        PROVE  /\ ticket'[g.entries[i].client] = g.entries[i].id
               /\ g.entries[i].client \in DOMAIN setup.wanted
               /\ setup.wanted[g.entries[i].client] = g.capacity
    <3>1. CASE i \in Places(k)
      <4>1. g.entries[i].client \in Clients
        BY <1>9, PlacesAre DEF Entry
      <4> QED BY <1>4, <1>5, <1>10, <1>13, <3>1, <4>1
    <3>2. CASE i = end
      BY <1>1, <1>10, <1>13, <3>2
    <3> QED BY <1>10, <3>1, <3>2
  <2>2. ASSUME NEW d \in Clients, at'[d] = "permit"
        PROVE  \E i \in Places(g) :
                  g.entries[i].id = ticket'[d] /\ g.entries[i].state = "active"
    <3>1. d # c /\ at[d] = "permit" /\ ticket'[d] = ticket[d]
      BY <1>12, <1>13, <2>2
    <3>2. PICK j \in Places(ledger) :
                 ledger.entries[j].id = ticket[d] /\ ledger.entries[j].state = "active"
      BY <3>1 DEF IInv, QueueHolds
    <3>3. ticket[d] \in Owners
      BY <1>1, <3>2, IdsAre
    <3>4. ticket[d] \in locked
      BY <3>3, OwnersAssumption DEF IInv, TicketsHold
    <3>5. PICK i \in Places(k) : k.entries[i].id = ticket[d] /\ k.entries[i].state = "active"
      BY <1>4, <3>2, <3>4 DEF Carries
    <3> QED BY <1>10, <3>1, <3>5
  <2>3. IdsOf(g) \subseteq files'
    BY <1>3, <1>14
  <2> QED BY <1>3, <1>9, <1>11, <2>1, <2>2, <2>3 DEF QueueHolds
<1>18. TicketsHold'
  <2>1. \A d \in Clients : d # c /\ ticket[d] # NoOwner => ticket[d] \in locked /\ ticket[d] # id
    BY <1>1, <1>2 DEF IInv, TicketsHold
  <2>2. \A d, e \in Clients : ticket'[d] = ticket'[e] /\ ticket'[d] # NoOwner => d = e
    BY <1>2, <1>13, <2>1, OwnersAssumption DEF IInv, TicketsHold
  <2>3. \A d \in Clients : ticket'[d] # NoOwner => ticket'[d] \in locked'
    BY <1>3, <1>13, <2>1
  <2> QED BY <1>1, <1>3, <1>12, <1>13, <2>2, <2>3 DEF IInv, TicketsHold
<1>19. TransactionHolds'
  <2>1. \A d \in Clients : at'[d] \notin {"discarding", "discardingRelease"}
    BY <1>12 DEF Writing
  <2>2. garbage' \cap locked' = {}
    BY <1>2, <1>3
  <2>3. garbage' \cap IdsOf(g) = {}
    BY <1>14, <2>2
  <2>4. \A d \in Clients : at'[d] \in Writing <=> lock' = d
    BY <1>3, <1>12 DEF Writing
  <2> QED BY <1>3, <1>12, <2>1, <2>2, <2>3, <2>4 DEF TransactionHolds
<1>20. SavedHolds'
  <2>1. ASSUME NEW o \in locked PROVE o \in IdsOf(g)
    <3>1. PICK j \in Places(ledger) : ledger.entries[j].id = o
      BY <1>1, IdsAre
    <3>2. PICK i \in Places(k) : k.entries[i].id = o
      BY <1>4, <3>1 DEF Carries
    <3>3. i \in Places(g) /\ g.entries[i].id = o
      BY <1>10, <3>2
    <3> QED BY <3>3, IdsAre
  <2>2. id \in IdsOf(g)
    BY <1>10, IdsAre
  <2>3. \A o \in locked' : o \in IdsOf(ledger') \/ (lock' # Nobody /\ o = ticket'[lock'])
    BY <1>1, <1>3, <1>12, <1>13 DEF Enqueue, Prepare, Provable
  <2>4. locked' \subseteq IdsOf(draft')
    BY <1>3, <2>1, <2>2
  <2> QED BY <2>3, <2>4 DEF SavedHolds
<1> QED BY <1>15, <1>16, <1>17, <1>18, <1>19, <1>20 DEF IInv

LEMMA PublishKeeps ==
    ASSUME IInv, NEW c \in Clients, UNCHANGED setup, Publish(c)
    PROVE  IInv'
<1> USE DEF faults, transaction
<1> DEFINE step == IF at[c] = "publishing" THEN "discarding" ELSE "discardingRelease"
<1>1. /\ ledger' = draft /\ at[c] \in {"publishing", "publishingRelease"} /\ lock = c
      /\ UNCHANGED <<files, locked, lock, draft, garbage, ticket, deaths, failures, setup>>
      /\ at \in [Clients -> Steps] /\ at' = [at EXCEPT ![c] = step]
  BY DEF Publish, Go, IInv, StateTypeOK, TransactionHolds, Writing
<1>2. /\ \A d \in Clients : at'[d] = IF d = c THEN step ELSE at[d]
      /\ at' \in [Clients -> Steps] /\ step \in Writing \cap {"discarding", "discardingRelease"}
      /\ at[c] = "publishingRelease" <=> step = "discardingRelease"
  BY <1>1 DEF Writing, Steps
<1> HIDE DEF step
<1>3. StateTypeOK'
  BY <1>1, <1>2 DEF IInv, StateTypeOK
<1>4. QueueHolds(draft)'
  BY <1>1, <1>2 DEF IInv, QueueHolds, Writing
<1>5. QueueHolds(ledger)'
  BY <1>1, <1>4 DEF QueueHolds
<1>6. TicketsHold'
  BY <1>1, <1>2 DEF IInv, TicketsHold, Writing
<1>7. TransactionHolds'
  BY <1>1, <1>2, ClientsAssumption DEF IInv, TransactionHolds, Writing
<1>8. SavedHolds'
  BY <1>1, <1>2 DEF IInv, SavedHolds, GivenUp
<1> QED BY <1>3, <1>4, <1>5, <1>6, <1>7, <1>8 DEF IInv

LEMMA FailPublishKeeps ==
    ASSUME IInv, NEW c \in Clients, UNCHANGED setup, FailPublish(c)
    PROVE  IInv'
<1> DEFINE step == IF at[c] = "publishing" THEN "refused" ELSE "off"
<1>1. /\ ledger' \in {ledger, draft} /\ draft' = ledger' /\ lock = c
      /\ lock' = Nobody /\ garbage' = {} /\ failures' = failures + 1
      /\ at[c] \in {"publishing", "publishingRelease"} /\ failures < setup.failures
      /\ UNCHANGED <<files, locked, ticket, deaths, setup>>
      /\ at \in [Clients -> Steps] /\ at' = [at EXCEPT ![c] = step]
      /\ failures \in 0..setup.failures /\ setup.failures \in Nat
  BY SetupsAssumption DEF FailPublish, Go, IInv, StateTypeOK, TransactionHolds, Writing
<1>2. /\ \A d \in Clients : at'[d] = IF d = c THEN step ELSE at[d]
      /\ at' \in [Clients -> Steps] /\ step \in {"refused", "off"}
      /\ step = "off" => at[c] = "publishingRelease"
  BY <1>1 DEF Steps
<1> HIDE DEF step
<1>3. failures' \in 0..setup.failures /\ failures' # 0
  BY <1>1
<1>4. StateTypeOK'
  BY <1>1, <1>2, <1>3 DEF IInv, StateTypeOK
<1>5. QueueHolds(ledger)'
  <2>1. CASE ledger' = ledger
    BY <1>1, <1>2, <2>1 DEF IInv, QueueHolds
  <2>2. CASE ledger' = draft
    BY <1>1, <1>2, <2>2 DEF IInv, QueueHolds
  <2> QED BY <1>1, <2>1, <2>2
<1>6. QueueHolds(draft)'
  BY <1>1, <1>5 DEF QueueHolds
<1>7. TicketsHold'
  BY <1>1, <1>2 DEF IInv, TicketsHold
<1>8. TransactionHolds'
  <2>1. \A d \in Clients : at'[d] \notin Writing
    BY <1>1, <1>2 DEF IInv, TransactionHolds, Writing
  <2> QED BY <1>1, <2>1, ClientsAssumption DEF TransactionHolds, Writing
<1>9. SavedHolds'
  <2> SUFFICES ASSUME NEW o \in locked
               PROVE  GivenUp(o)' \/ o \in IdsOf(ledger')
    BY <1>1, <1>3 DEF SavedHolds
  <2>1. CASE GivenUp(o)
    BY <1>1, <1>2, <2>1 DEF GivenUp
  <2>2. CASE o \in IdsOf(ledger) /\ o \in IdsOf(draft)
    BY <1>1, <2>2
  <2>3. CASE o \in IdsOf(draft) /\ o = ticket[c]
    <3>1. ticket[c] # NoOwner
      BY <2>3, OwnersAssumption DEF IInv, StateTypeOK
    <3>2. step = "refused"
      BY <1>1, <1>2, <3>1 DEF IInv, TicketsHold
    <3> QED BY <1>1, <1>2, <2>3, <3>2 DEF GivenUp
  <2> QED BY <1>1, <2>1, <2>2, <2>3 DEF IInv, SavedHolds
<1> QED BY <1>4, <1>5, <1>6, <1>7, <1>8, <1>9 DEF IInv

LEMMA DiscardKeeps ==
    ASSUME IInv, NEW c \in Clients, UNCHANGED setup, Discard(c)
    PROVE  IInv'
<1> DEFINE granted == \E i \in ActiveIn(ledger) : ledger.entries[i].id = ticket[c]
           step == IF at[c] = "discardingRelease" THEN "off"
                   ELSE IF granted THEN "permit" ELSE "queued"
<1> USE DEF faults
<1>1. /\ UNCHANGED <<ledger, locked, ticket, deaths, failures, setup>>
      /\ files' = files \ garbage /\ lock' = Nobody /\ garbage' = {} /\ draft' = ledger
      /\ at[c] \in {"discarding", "discardingRelease"} /\ lock = c /\ draft = ledger
      /\ at \in [Clients -> Steps] /\ at' = [at EXCEPT ![c] = step]
  BY DEF Discard, Go, Unlock, IInv, StateTypeOK, TransactionHolds, Writing
<1>2. /\ \A d \in Clients : at'[d] = IF d = c THEN step ELSE at[d]
      /\ at' \in [Clients -> Steps] /\ step \in {"off", "permit", "queued"}
      /\ step = "off" <=> at[c] = "discardingRelease"
      /\ step = "permit" =>
            \E i \in Places(ledger) :
               ledger.entries[i].id = ticket[c] /\ ledger.entries[i].state = "active"
  BY <1>1 DEF Steps, ActiveIn, Places
<1> HIDE DEF step
<1>3. StateTypeOK'
  BY <1>1, <1>2 DEF IInv, StateTypeOK, TransactionHolds
<1>4. QueueHolds(ledger)'
  <2>1. IdsOf(ledger) \subseteq files'
    BY <1>1 DEF IInv, QueueHolds, TransactionHolds
  <2> QED BY <1>1, <1>2, <2>1 DEF IInv, QueueHolds
<1>5. QueueHolds(draft)'
  BY <1>1, <1>4 DEF QueueHolds
<1>6. TicketsHold'
  BY <1>1, <1>2 DEF IInv, TicketsHold
<1>7. TransactionHolds'
  <2>1. \A d \in Clients : at'[d] \notin Writing
    BY <1>1, <1>2 DEF IInv, TransactionHolds, Writing
  <2> QED BY <1>1, <2>1, ClientsAssumption DEF TransactionHolds, Writing
<1>8. SavedHolds'
  BY <1>1, <1>2 DEF IInv, SavedHolds, GivenUp
<1> QED BY <1>3, <1>4, <1>5, <1>6, <1>7, <1>8 DEF IInv

\* A client gives its ticket up, alive or not, and is out of its transaction.
LEMMA Drops ==
    ASSUME IInv, NEW c \in Clients, NEW step \in {"off", "releasing"},
           UNCHANGED <<ledger, files, setup>>, Go(c, step),
           locked' = locked \ {ticket[c]}, ticket' = [ticket EXCEPT ![c] = NoOwner],
           step # "off" => c \in DOMAIN setup.wanted,
           IF lock = c THEN Unlock ELSE UNCHANGED transaction,
           deaths' \in 0..setup.crashes, failures' = failures
    PROVE  IInv'
<1> USE DEF transaction
<1>1. /\ \A d \in Clients : at'[d] = IF d = c THEN step ELSE at[d]
      /\ \A d \in Clients : ticket'[d] = IF d = c THEN NoOwner ELSE ticket[d]
      /\ at' \in [Clients -> Steps] /\ ticket' \in [Clients -> Owners \cup {NoOwner}]
      /\ step \notin Writing \cup {"permit", "discarding", "discardingRelease"}
  BY DEF Go, IInv, StateTypeOK, Steps, Writing
<1>2. locked' \subseteq locked
  OBVIOUS
<1>3. StateTypeOK'
  BY <1>1, <1>2, Zenon DEF IInv, StateTypeOK, Unlock
<1>4. QueueHolds(ledger)'
  <2>1. ASSUME NEW i \in Places(ledger), ledger.entries[i].id \in locked'
        PROVE  ticket'[ledger.entries[i].client] = ledger.entries[i].id
    <3>1. ledger.entries[i].client \in Clients
      BY PlacesAre DEF IInv, QueueHolds, WellFormed, Entry
    <3>2. ticket[ledger.entries[i].client] = ledger.entries[i].id
      BY <1>2, <2>1 DEF IInv, QueueHolds
    <3> QED BY <1>1, <2>1, <3>1, <3>2
  <2> QED BY <1>1, <1>2, <2>1 DEF IInv, QueueHolds
<1>5. QueueHolds(draft)'
  <2>1. CASE lock = c
    BY <1>4, <2>1 DEF QueueHolds, Unlock
  <2>2. CASE lock # c
    <3>1. draft' = draft
      BY <2>2
    <3>2. ASSUME NEW i \in Places(draft), draft.entries[i].id \in locked'
          PROVE  ticket'[draft.entries[i].client] = draft.entries[i].id
      <4>1. draft.entries[i].client \in Clients
        BY PlacesAre DEF IInv, QueueHolds, WellFormed, Entry
      <4>2. ticket[draft.entries[i].client] = draft.entries[i].id
        BY <1>2, <3>2 DEF IInv, QueueHolds
      <4> QED BY <1>1, <3>2, <4>1, <4>2
    <3> QED BY <1>1, <1>2, <3>1, <3>2 DEF IInv, QueueHolds
  <2> QED BY <2>1, <2>2
<1>6. TicketsHold'
  <2>1. \A d \in Clients : d # c /\ ticket[d] # NoOwner => ticket[d] \in locked'
    BY DEF IInv, TicketsHold
  <2> QED BY <1>1, <2>1 DEF IInv, TicketsHold
<1>7. TransactionHolds'
  <2>1. CASE lock = c
    <3>1. \A d \in Clients : at'[d] \notin Writing
      BY <1>1, <2>1 DEF IInv, TransactionHolds
    <3> QED BY <2>1, <3>1, ClientsAssumption DEF TransactionHolds, Unlock, Writing
  <2>2. CASE lock # c
    <3>1. UNCHANGED <<lock, draft, garbage>> /\ at[c] \notin Writing
      BY <2>2 DEF IInv, TransactionHolds
    <3> QED BY <1>1, <1>2, <2>2, <3>1 DEF IInv, TransactionHolds
  <2> QED BY <2>1, <2>2
<1>8. SavedHolds'
  <2>0. ASSUME NEW o \in locked', GivenUp(o) PROVE GivenUp(o)'
    BY <1>1, <2>0 DEF GivenUp
  <2>1. CASE lock = c
    BY <2>0, <2>1 DEF IInv, SavedHolds, Unlock
  <2>2. CASE lock # c
    <3>1. UNCHANGED <<lock, draft, garbage>> /\ (lock # Nobody => ticket'[lock] = ticket[lock])
      BY <1>1, <2>2 DEF IInv, StateTypeOK
    <3> QED BY <1>2, <2>0, <3>1 DEF IInv, SavedHolds
  <2> QED BY <2>1, <2>2
<1> QED BY <1>3, <1>4, <1>5, <1>6, <1>7, <1>8 DEF IInv

LEMMA DropKeeps ==
    ASSUME IInv, NEW c \in Clients, UNCHANGED setup, DropTicket(c) \/ Die(c)
    PROVE  IInv'
<1>1. CASE DropTicket(c)
  <2> DEFINE step == IF ticket[c] = NoOwner THEN "off" ELSE "releasing"
  <2>1. /\ c \in DOMAIN setup.wanted /\ lock # c /\ deaths \in 0..setup.crashes
    BY <1>1 DEF DropTicket, IInv, TicketsHold, TransactionHolds, StateTypeOK, Writing
  <2>2. /\ step \in {"off", "releasing"} /\ Go(c, step)
        /\ UNCHANGED <<ledger, files, setup, transaction, deaths, failures>>
        /\ locked' = locked \ {ticket[c]} /\ ticket' = [ticket EXCEPT ![c] = NoOwner]
    BY <1>1 DEF DropTicket, faults
  <2> HIDE DEF step
  <2> QED BY <2>1, <2>2, Drops
<1>2. CASE Die(c)
  <2>1. deaths' \in 0..setup.crashes
    BY <1>2, SetupsAssumption DEF Die, IInv, StateTypeOK
  <2> QED BY <1>2, <2>1, Drops DEF Die
<1> QED BY <1>1, <1>2

LEMMA StepHolds == IInv /\ [AdmissionNext]_admissionVars => IInv'
<1> SUFFICES ASSUME IInv, [AdmissionNext]_admissionVars PROVE IInv'
  OBVIOUS
<1>1. CASE UNCHANGED admissionVars
  <2> USE <1>1 DEF admissionVars, live, directory, transaction, faults
  <2>1. QueueHolds(ledger)' /\ QueueHolds(draft)'
    BY DEF IInv, QueueHolds
  <2>2. StateTypeOK' /\ TicketsHold' /\ TransactionHolds' /\ SavedHolds'
    BY DEF IInv, StateTypeOK, TicketsHold, TransactionHolds, SavedHolds, GivenUp
  <2> QED BY <2>1, <2>2 DEF IInv
<1>2. CASE AdmissionNext
  <2>1. PICK c \in Clients : \/ Request(c) \/ Attempt(c) \/ Conclude(c)
                             \/ DropTicket(c) \/ SkipRelease(c) \/ Die(c)
    BY <1>2 DEF AdmissionNext
  <2>2. UNCHANGED setup
    BY <1>2 DEF AdmissionNext
  <2> QED BY <2>1, <2>2, SmallMoves, WaitOutKeeps, EnqueueKeeps, AdvanceKeeps, PublishKeeps,
             FailPublishKeeps, DiscardKeeps, DropKeeps DEF Attempt, Conclude
<1> QED BY <1>1, <1>2

LEMMA Inductive == AdmissionSpec => []IInv
<1>1. AdmissionInit => IInv
  BY InitHolds
<1>2. IInv /\ [AdmissionNext]_admissionVars => IInv'
  BY StepHolds
<1> QED BY <1>1, <1>2, PTL DEF AdmissionSpec

-----------------------------------------------------------------------------
(* What follows. *)

\* A waiting background request sees at most MaxStreak foreground grants, and
\* each class is served in the order of its tickets (choose and the granting loop
\* of inference_admission.rs), whoever leaves the queue or dies.
THEOREM Fair == AdmissionSpec => []ServedInTurn
<1>1. IInv => BackgroundIsServed
  <2> SUFFICES ASSUME IInv, NEW i \in Places(ledger), ledger.entries[i].state = "waiting"
               PROVE  ledger.entries[i].passed <= MaxStreak
    BY DEF BackgroundIsServed, ToSet, Places
  <2>1. /\ ledger.entries[i] \in Entry /\ ledger.streak \in 0..MaxStreak
    BY PlacesAre DEF IInv, QueueHolds, WellFormed
  <2>2. ledger.entries[i].passed # 0 => ledger.entries[i].passed <= ledger.streak
    BY DEF IInv, QueueHolds, WellFormed, InTurn
  <2> QED BY <2>1, <2>2 DEF Entry, MaxStreak
<1>2. IInv => ClassOrder
  BY DEF IInv, QueueHolds, WellFormed, InOrder, ClassOrder, Places
<1> QED BY <1>1, <1>2, Inductive, PTL DEF ServedInTurn

\* No more requests are admitted than the one capacity they are all configured
\* for, and each by an active entry of its own (acquire and poll of
\* inference_admission.rs).
THEOREM WithinCapacity == AdmissionSpec => []OneCapacity
<1>1. IInv => OneCapacity
  <2> SUFFICES ASSUME IInv PROVE OneCapacity
    OBVIOUS
  <2> DEFINE place(c) == CHOOSE i \in ActiveIn(ledger) : ledger.entries[i].id = ticket[c]
             f == [c \in Admitted |-> place(c)]
  <2>1. /\ WellFormed(ledger) /\ ledger \in Ledger /\ IsFiniteSet(ActiveIn(ledger))
        /\ Cardinality(ActiveIn(ledger)) \in Nat /\ ledger.capacity \in Nat
        /\ Cardinality(ActiveIn(ledger)) <= ledger.capacity
    BY PlacesAre DEF IInv, QueueHolds, WellFormed, Within
  <2>2. ASSUME NEW c \in Admitted
        PROVE  /\ \E i \in ActiveIn(ledger) : ledger.entries[i].id = ticket[c]
               /\ setup.wanted[c] = ledger.capacity /\ ticket[c] # NoOwner
    <3>1. c \in Clients /\ at[c] = "permit"
      BY DEF Admitted
    <3>2. PICK i \in Places(ledger) :
                 ledger.entries[i].id = ticket[c] /\ ledger.entries[i].state = "active"
      BY <3>1 DEF IInv, QueueHolds
    <3>3. ledger.entries[i].id \in Owners /\ ledger.entries[i].client \in Clients
      BY <2>1, PlacesAre DEF Entry
    <3>4. ticket[c] \in locked /\ ticket[c] # NoOwner
      BY <3>1, <3>2, <3>3, OwnersAssumption DEF IInv, TicketsHold
    <3>5. /\ ticket[ledger.entries[i].client] = ledger.entries[i].id
          /\ setup.wanted[ledger.entries[i].client] = ledger.capacity
      BY <3>2, <3>4 DEF IInv, QueueHolds
    <3>6. ledger.entries[i].client = c
      BY <3>1, <3>2, <3>3, <3>4, <3>5 DEF IInv, TicketsHold
    <3> QED BY <3>2, <3>4, <3>5, <3>6 DEF ActiveIn, Places
  <2>3. \A c \in Admitted : place(c) \in ActiveIn(ledger) /\ ledger.entries[place(c)].id = ticket[c]
    BY <2>2
  <2> HIDE DEF place
  <2>4. \A c, d \in Admitted : place(c) = place(d) => c = d
    BY <2>2, <2>3 DEF IInv, TicketsHold, Admitted
  <2>5. f \in Injection(Admitted, ActiveIn(ledger))
    BY <2>3, <2>4 DEF Injection, IsInjective
  <2> HIDE DEF f
  <2>6. IsFiniteSet(Admitted) /\ Cardinality(Admitted) <= Cardinality(ActiveIn(ledger))
    BY <2>1, <2>5, FS_Injection
  <2>7. Cardinality(Admitted) \in Nat
    BY <2>6, FS_CardinalityType
  <2>8. Cardinality(Admitted) <= ledger.capacity
    BY <2>1, <2>6, <2>7
  <2> QED BY <2>2, <2>8 DEF OneCapacity
<1> QED BY <1>1, Inductive, PTL

\* The ledger is well formed, and it never refuses its next user because somebody
\* died in the middle of a transaction (reap and its proof of the owner files).  A
\* publication that failed makes it refuse only until the client it failed, which
\* was refused itself, gives its ticket up; every other ticket keeps its entry.
THEOREM LedgerStaysUsable == AdmissionSpec => []LedgerHolds
<1>1. IInv => AdmissionTypeOK
  BY PlacesAre DEF IInv, StateTypeOK, QueueHolds, WellFormed, AdmissionTypeOK
<1>2. IInv => ProofHolds
  <2> SUFFICES ASSUME IInv, lock = Nobody
               PROVE  /\ IdsOf(ledger) \subseteq files
                      /\ \A o \in locked \ IdsOf(ledger) : failures > 0 /\ GivenUp(o)
                      /\ \A c \in Clients : ticket[c] # NoOwner =>
                           \/ ticket[c] \in IdsOf(Reaped)
                           \/ failures > 0 /\ GivenUp(ticket[c])
    BY DEF ProofHolds
  <2>1. failures # 0 => failures > 0
    BY SetupsAssumption DEF IInv, StateTypeOK
  <2>2. \A o \in locked \ IdsOf(ledger) : failures > 0 /\ GivenUp(o)
    BY <2>1 DEF IInv, SavedHolds
  <2>3. ASSUME NEW c \in Clients, ticket[c] # NoOwner, ticket[c] \in IdsOf(ledger)
        PROVE  ticket[c] \in IdsOf(Reaped)
    <3>1. ticket[c] \in locked
      BY <2>3 DEF IInv, TicketsHold
    <3>2. PICK j \in Places(ledger) : ledger.entries[j].id = ticket[c]
      BY <2>3, IdsAre
    <3>3. Carries(Reaped)
      BY ReapedIs DEF IInv, QueueHolds
    <3>4. PICK i \in Places(Reaped) : Reaped.entries[i].id = ticket[c]
      BY <3>1, <3>2, <3>3 DEF Carries
    <3> QED BY <3>4, IdsAre
  <2>4. \A c \in Clients : ticket[c] # NoOwner => ticket[c] \in locked
    BY DEF IInv, TicketsHold
  <2> QED BY <2>2, <2>3, <2>4 DEF IInv, QueueHolds
<1>3. AdmissionSpec => []OneCapacity
  BY WithinCapacity
<1> QED BY <1>1, <1>2, <1>3, Inductive, PTL DEF LedgerHolds

-----------------------------------------------------------------------------
(* Snapshots. *)

LEMMA LoopConstants ==
  ASSUME AutopilotConstants
  PROVE  /\ MaxRepairs \in Nat /\ Attempts \in Nat \ {0} /\ TransientLimit \in Nat \ {0}
         /\ MaxTasks \in Nat
BY DEF AutopilotConstants

\* The greatest and the least of a set of tasks.
LEMMA GreatestTask ==
  ASSUME NEW n \in Nat, NEW S \in SUBSET (1..n), S # {}
  PROVE  Max(S) \in S
<1> DEFINE T == {n - x : x \in S}
<1>1. T \in SUBSET Nat /\ T # {}
  <2>1. \A x \in 1..n : n - x \in Nat
    OBVIOUS
  <2> QED BY <2>1
<1>2. PICK y \in T : \A z \in T : y <= z
  <2> HIDE DEF T
  <2> QED BY <1>1, LeastNumber
<1>3. PICK x \in S : y = n - x
  BY <1>2
<1>4. \A z \in S : x >= z
  <2> SUFFICES ASSUME NEW z \in S PROVE x >= z
    OBVIOUS
  <2>1. n - z \in T
    OBVIOUS
  <2>2. n - x <= n - z
    BY <2>1, <1>2, <1>3
  <2>3. x \in Int /\ z \in Int
    OBVIOUS
  <2> QED BY <2>2, <2>3
<1> QED BY <1>3, <1>4 DEF Max

LEMMA LeastTask ==
  ASSUME NEW S \in SUBSET Nat, S # {}
  PROVE  Min(S) \in S
<1>1. \E x \in S : \A y \in S : x <= y
  BY LeastNumber
<1> QED BY <1>1 DEF Min

\* The head of a family is one of its tasks.
LEMMA HeadIs ==
  ASSUME NEW s, s.tasks \in Seq(Tasks), NEW root \in Existing(s), RootOf(s, root) = root
  PROVE  HeadOf(s, root) \in Existing(s) /\ RootOf(s, HeadOf(s, root)) = root
<1> DEFINE S == {t \in Existing(s) : RootOf(s, t) = root}
<1>1. Len(s.tasks) \in Nat /\ S \in SUBSET (1..Len(s.tasks)) /\ S # {}
  BY DEF Existing
<1>2. Max(S) \in S
  <2> HIDE DEF S
  <2> QED BY <1>1, GreatestTask
<1> QED BY <1>2 DEF HeadOf

\* How the families of a snapshot are settled, given how those they need are.
SettlesAs(s, f, root) ==
  Settlement(s, root, \E r \in s.tasks[root].needs : r \in saved.roots /\ f[r] = "stuck")

LEMMA SettlementExists ==
  ASSUME NEW s, s.tasks \in Seq(Tasks), RootsOK(s.tasks)
  PROVE  \E f : f = [root \in Existing(s) |-> SettlesAs(s, f, root)]
<1> DEFINE n == Len(s.tasks)
           S == {k \in Nat : k <= n => \E f : f = [root \in 1..k |-> SettlesAs(s, f, root)]}
<1>0. n \in Nat
  OBVIOUS
<1>1. 0 \in S
  <2> DEFINE f == [root \in 1..0 |-> "stuck"]
  <2>1. f = [root \in 1..0 |-> SettlesAs(s, f, root)]
    OBVIOUS
  <2> HIDE DEF f
  <2>2. \E g : g = [root \in 1..0 |-> SettlesAs(s, g, root)]
    BY <2>1
  <2> QED BY <2>2
<1>2. ASSUME NEW k \in Nat, k \in S PROVE k + 1 \in S
  <2>0. SUFFICES ASSUME k + 1 <= n PROVE \E g : g = [root \in 1..k + 1 |-> SettlesAs(s, g, root)]
    OBVIOUS
  <2>1. k <= n
    BY <2>0, <1>0
  <2>2. PICK f : f = [root \in 1..k |-> SettlesAs(s, f, root)]
    BY <1>2, <2>1
  <2> DEFINE g == [root \in 1..k + 1 |-> SettlesAs(s, f, root)]
  <2>3. \A r \in 1..k : g[r] = f[r]
    <3> SUFFICES ASSUME NEW r \in 1..k PROVE g[r] = f[r]
      OBVIOUS
    <3>1. f[r] = SettlesAs(s, f, r)
      BY <2>2
    <3>2. r \in 1..k + 1
      OBVIOUS
    <3> QED BY <3>1, <3>2
  <2>4. \A root \in 1..k + 1 : SettlesAs(s, g, root) = SettlesAs(s, f, root)
    <3> SUFFICES ASSUME NEW root \in 1..k + 1 PROVE SettlesAs(s, g, root) = SettlesAs(s, f, root)
      OBVIOUS
    <3>1. root \in 1..Len(s.tasks)
      BY <2>0, <1>0
    <3>2. s.tasks[root].needs \subseteq 1..root - 1
      BY <3>1 DEF RootsOK
    <3>3. s.tasks[root].needs \subseteq 1..k
      BY <3>2
    <3> HIDE DEF g
    <3>4. (\E r \in s.tasks[root].needs : r \in saved.roots /\ g[r] = "stuck")
            <=> (\E r \in s.tasks[root].needs : r \in saved.roots /\ f[r] = "stuck")
      BY <3>3, <2>3
    <3>5. (\E r \in s.tasks[root].needs : r \in saved.roots /\ g[r] = "stuck")
            = (\E r \in s.tasks[root].needs : r \in saved.roots /\ f[r] = "stuck")
      BY <3>4
    <3> QED BY <3>5 DEF SettlesAs
  <2>5. g = [root \in 1..k + 1 |-> SettlesAs(s, g, root)]
    <3> DEFINE h == [root \in 1..k + 1 |-> SettlesAs(s, g, root)]
    <3>1. \A root \in 1..k + 1 : g[root] = h[root]
      BY <2>4
    <3> QED BY <3>1
  <2> HIDE DEF g
  <2> QED BY <2>5
<1>3. n \in S
  <2> HIDE DEF S, n
  <2> QED BY <1>0, <1>1, <1>2, Climb
<1> QED BY <1>0, <1>3 DEF Existing

\* A family is settled as the loop says: with success only if it is resolved or its
\* root was accepted, and left to the loop only if a repair is within its limit.
LEMMA SettledIs ==
  ASSUME NEW s, s.tasks \in Seq(Tasks), RootsOK(s.tasks), NEW r \in DOMAIN Settled(s)
  PROVE  /\ r \in saved.roots /\ r \in Existing(s)
         /\ Settled(s)[r] = "success" => Source(s, r) # 0
         /\ Settled(s)[r] = "active" /\ r \notin HeldRoots /\ Status(s, HeadOf(s, r)) \in Broken
               => ~(Repairs(s, r) >= RepairLimit(r))
<1> DEFINE Eq(f) == f = [root \in Existing(s) |->
             Settlement(s, root,
                        \E q \in s.tasks[root].needs : q \in saved.roots /\ f[q] = "stuck")]
           F == CHOOSE f : Eq(f)
<1>1. \E f : Eq(f)
  BY SettlementExists DEF SettlesAs
<1>2. Eq(F)
  <2> HIDE DEF Eq
  <2> QED BY <1>1
<1>3. Settled(s) = [root \in saved.roots \cap Existing(s) |-> F[root]]
  BY DEF Settled
<1> HIDE DEF F
<1>4. r \in saved.roots /\ r \in Existing(s)
  BY <1>3
<1>5. PICK blocked : Settled(s)[r] = Settlement(s, r, blocked)
  BY <1>2, <1>3, <1>4
<1>6. Settled(s)[r] = "success" => Source(s, r) # 0
  BY <1>5 DEF Settlement, SettledHead
<1>7. Settled(s)[r] = "active" /\ r \notin HeldRoots /\ Status(s, HeadOf(s, r)) \in Broken
        => ~(Repairs(s, r) >= RepairLimit(r))
  BY <1>5 DEF Settlement, SettledHead
<1> QED BY <1>4, <1>6, <1>7

LEMMA SettledDomain ==
  ASSUME NEW s PROVE DOMAIN Settled(s) = saved.roots \cap Existing(s)
BY DEF Settled

-----------------------------------------------------------------------------
(* The store grows. *)

LEMMA LaterStays ==
  ASSUME NEW ts \in Seq(Tasks) PROVE LaterIs(ts, ts)
BY DEF LaterIs, Stays

LEMMA LaterOn ==
  ASSUME NEW ts \in Seq(Tasks), NEW us \in Seq(Tasks), NEW ws \in Seq(Tasks),
         LaterIs(ts, us), LaterIs(us, ws)
  PROVE  LaterIs(ts, ws)
<1>1. Len(ts) \in Nat /\ Len(us) \in Nat /\ Len(ws) \in Nat
  OBVIOUS
<1>2. Len(ts) <= Len(ws)
  BY <1>1 DEF LaterIs
<1>3. ASSUME NEW t \in 1..Len(ts) PROVE Stays(ts[t], ws[t])
  <2>1. t \in 1..Len(us)
    BY <1>1 DEF LaterIs
  <2>2. Stays(ts[t], us[t]) /\ Stays(us[t], ws[t])
    BY <2>1 DEF LaterIs
  <2> QED BY <2>2 DEF Stays
<1> QED BY <1>2, <1>3 DEF LaterIs

\* One task gets on.
LEMMA GetsOn ==
  ASSUME NEW ts \in Seq(Tasks), FamiliesOK(ts), RootsOK(ts), NEW t \in 1..Len(ts),
         NEW new \in Tasks, Stays(ts[t], new)
  PROVE  /\ [ts EXCEPT ![t] = new] \in Seq(Tasks)
         /\ Len([ts EXCEPT ![t] = new]) = Len(ts)
         /\ FamiliesOK([ts EXCEPT ![t] = new]) /\ RootsOK([ts EXCEPT ![t] = new])
         /\ LaterIs(ts, [ts EXCEPT ![t] = new])
<1> DEFINE us == [ts EXCEPT ![t] = new]
<1>1. us \in Seq(Tasks) /\ Len(us) = Len(ts)
  OBVIOUS
<1>2. \A q \in 1..Len(ts) : us[q] = IF q = t THEN new ELSE ts[q]
  OBVIOUS
<1>3. \A q \in 1..Len(ts) : Stays(ts[q], us[q])
  BY <1>2 DEF Stays
<1> HIDE DEF us
<1>4. \A q \in 1..Len(ts) :
         us[q].root = ts[q].root /\ us[q].of = ts[q].of /\ us[q].needs = ts[q].needs
  BY <1>3 DEF Stays
<1>5. \A q \in 1..Len(ts) : ts[q].of # 0 => ts[q].of \in 1..Len(ts)
  <2> SUFFICES ASSUME NEW q \in 1..Len(ts), ts[q].of # 0 PROVE ts[q].of \in 1..Len(ts)
    OBVIOUS
  <2>1. ts[q].of \in 0..q - 1
    BY DEF FamiliesOK
  <2> QED BY <2>1
<1>6. \A q \in 1..Len(ts) : ts[q].root \in 1..Len(ts)
  <2> SUFFICES ASSUME NEW q \in 1..Len(ts) PROVE ts[q].root \in 1..Len(ts)
    OBVIOUS
  <2>1. ts[q].root \in 1..q
    BY DEF FamiliesOK
  <2> QED BY <2>1
<1>7. ASSUME NEW q \in 1..Len(ts)
      PROVE /\ us[q].root \in 1..q /\ us[q].of \in 0..q - 1
            /\ us[q].of # 0 <=> us[q].root # q
            /\ us[q].of # 0 => us[us[q].of].root = us[q].root
            /\ us[q].needs \subseteq 1..q - 1 /\ us[us[q].root].root = us[q].root
  <2>1. /\ ts[q].root \in 1..q /\ ts[q].of \in 0..q - 1
        /\ ts[q].of # 0 <=> ts[q].root # q
        /\ ts[q].of # 0 => ts[ts[q].of].root = ts[q].root
        /\ ts[q].needs \subseteq 1..q - 1 /\ ts[ts[q].root].root = ts[q].root
    BY DEF FamiliesOK, RootsOK
  <2>2. us[q].root = ts[q].root /\ us[q].of = ts[q].of /\ us[q].needs = ts[q].needs
    BY <1>4
  <2> QED BY <2>1, <2>2, <1>4, <1>5, <1>6
<1>8. FamiliesOK(us) /\ RootsOK(us)
  BY <1>7, <1>1 DEF FamiliesOK, RootsOK
<1> QED BY <1>1, <1>3, <1>7, <1>8 DEF us, LaterIs

\* A task is proposed: a repair in a family, or a family of its own.
LEMMA IsProposed ==
  ASSUME NEW ts \in Seq(Tasks), FamiliesOK(ts), RootsOK(ts), NEW new \in Tasks,
         \/ /\ new.of \in 1..Len(ts) /\ new.root = ts[new.of].root
            /\ new.needs = ts[new.of].needs
         \/ /\ new.of = 0 /\ new.root = Len(ts) + 1 /\ new.needs \subseteq 1..Len(ts)
  PROVE  /\ Append(ts, new) \in Seq(Tasks) /\ Len(Append(ts, new)) = Len(ts) + 1
         /\ Append(ts, new)[Len(ts) + 1] = new
         /\ FamiliesOK(Append(ts, new)) /\ RootsOK(Append(ts, new))
         /\ LaterIs(ts, Append(ts, new))
<1> DEFINE us == Append(ts, new)
           n == Len(ts)
<1>1. us \in Seq(Tasks) /\ Len(us) = n + 1 /\ us[n + 1] = new /\ n \in Nat
  OBVIOUS
<1>2. \A q \in 1..n : us[q] = ts[q]
  OBVIOUS
<1> HIDE DEF us, n
<1>3. LaterIs(ts, us)
  BY <1>1, <1>2 DEF LaterIs, Stays, n
<1>4. ASSUME NEW q \in 1..n
      PROVE /\ us[q].root \in 1..q /\ us[q].of \in 0..q - 1
            /\ us[q].of # 0 <=> us[q].root # q
            /\ us[q].of # 0 => us[us[q].of].root = us[q].root
            /\ us[q].needs \subseteq 1..q - 1 /\ us[us[q].root].root = us[q].root
  <2>1. /\ ts[q].root \in 1..q /\ ts[q].of \in 0..q - 1
        /\ ts[q].of # 0 <=> ts[q].root # q
        /\ ts[q].of # 0 => ts[ts[q].of].root = ts[q].root
        /\ ts[q].needs \subseteq 1..q - 1 /\ ts[ts[q].root].root = ts[q].root
    BY DEF FamiliesOK, RootsOK, n
  <2>2. ts[q].root \in 1..n /\ (ts[q].of # 0 => ts[q].of \in 1..n)
    BY <2>1, <1>1
  <2> QED BY <2>1, <2>2, <1>2
<1>5. /\ new.root \in 1..n + 1 /\ new.of \in 0..n
      /\ new.of # 0 <=> new.root # n + 1
      /\ new.of # 0 => us[new.of].root = new.root
      /\ new.needs \subseteq 1..n /\ us[new.root].root = new.root
  <2>1. CASE new.of \in 1..n /\ new.root = ts[new.of].root /\ new.needs = ts[new.of].needs
    <3>1. ts[new.of].root \in 1..new.of /\ ts[new.of].needs \subseteq 1..new.of - 1
          /\ ts[ts[new.of].root].root = ts[new.of].root
      BY <2>1 DEF FamiliesOK, RootsOK, n
    <3>2. ts[new.of].root \in 1..n
      BY <3>1, <2>1, <1>1
    <3> QED BY <2>1, <3>1, <3>2, <1>1, <1>2
  <2>2. CASE new.of = 0 /\ new.root = n + 1 /\ new.needs \subseteq 1..n
    BY <2>2, <1>1
  <2> QED BY <2>1, <2>2 DEF n
<1>6. FamiliesOK(us) /\ RootsOK(us)
  <2>1. ASSUME NEW q \in 1..n + 1
        PROVE /\ us[q].root \in 1..q /\ us[q].of \in 0..q - 1
              /\ us[q].of # 0 <=> us[q].root # q
              /\ us[q].of # 0 => us[us[q].of].root = us[q].root
              /\ us[q].needs \subseteq 1..q - 1 /\ us[us[q].root].root = us[q].root
    <3>1. CASE q \in 1..n
      BY <3>1, <1>4
    <3>2. CASE q = n + 1
      BY <3>2, <1>5, <1>1
    <3> QED BY <3>1, <3>2, <1>1
  <2> QED BY <2>1, <1>1 DEF FamiliesOK, RootsOK
<1> QED BY <1>1, <1>3, <1>6 DEF us, n

\* A step of the store, and of the snapshot of it.
Grows ==
  /\ tasks' \in Seq(Tasks) /\ FamiliesOK(tasks') /\ RootsOK(tasks') /\ LaterIs(tasks, tasks')
  /\ Len(tasks') <= capacity /\ capacity' = capacity
  /\ resolved' \in [Ids -> Nat] /\ KeepsResolved(resolved, resolved')

Shows == view' = [tasks |-> tasks', resolved |-> resolved'] /\ behind' = FALSE

Looks == \/ Shows
         \/ UNCHANGED view /\ behind' = TRUE
         \/ UNCHANGED <<store, view, behind>>

StoreMoves == Grows /\ Looks

LEMMA StoreIs ==
  ASSUME StoreInv
  PROVE  /\ tasks \in Seq(Tasks) /\ Len(tasks) \in Nat /\ FamiliesOK(tasks) /\ RootsOK(tasks)
         /\ Len(tasks) <= capacity /\ capacity \in 0..MaxTasks /\ MaxTasks \in Nat
         /\ view.tasks \in Seq(Tasks) /\ Len(view.tasks) \in Nat
         /\ Existing(view) = 1..Len(view.tasks) /\ Existing(view) \subseteq 1..Len(tasks)
         /\ Len(view.tasks) <= Len(tasks)
         /\ 1..Len(tasks) \subseteq Ids
         /\ resolved \in [Ids -> Nat] /\ view.resolved \in [Ids -> Nat] /\ behind \in BOOLEAN
<1>1. /\ tasks \in Seq(Tasks) /\ Len(tasks) \in Nat /\ FamiliesOK(tasks) /\ RootsOK(tasks)
      /\ Len(tasks) <= capacity /\ capacity \in 0..MaxTasks /\ MaxTasks \in Nat
      /\ view.tasks \in Seq(Tasks) /\ Len(view.tasks) \in Nat
      /\ Existing(view) = 1..Len(view.tasks) /\ Existing(view) \subseteq 1..Len(tasks)
      /\ resolved \in [Ids -> Nat] /\ view.resolved \in [Ids -> Nat] /\ behind \in BOOLEAN
  BY LoopConstants DEF StoreInv, StoreTypeOK, Existing
<1>2. Len(view.tasks) <= Len(tasks)
  BY <1>1
<1>3. 1..Len(tasks) \subseteq Ids
  BY <1>1 DEF Ids
<1> QED BY <1>1, <1>2, <1>3

\* What the snapshot shows was so in the store, and is.
LEMMA ViewIs ==
  ASSUME StoreInv, ViewInv, NEW t \in Existing(view)
  PROVE  /\ t \in 1..Len(view.tasks) /\ t \in 1..Len(tasks) /\ t \in Nat
         /\ view.tasks[t] \in Tasks /\ tasks[t] \in Tasks /\ Stays(view.tasks[t], tasks[t])
<1>1. t \in 1..Len(view.tasks) /\ t \in 1..Len(tasks)
  BY StoreIs
<1> QED BY <1>1, StoreIs DEF ViewInv, LaterIs

LEMMA StillThere ==
  ASSUME StoreInv, UNCHANGED <<store, capacity>>
  PROVE  Grows
BY StoreIs, LaterStays DEF Grows, store, KeepsResolved

LEMMA MovesFacts ==
  ASSUME StoreInv, ViewInv, StoreMoves
  PROVE  /\ StoreInv' /\ ViewInv'
         /\ LaterIs(view.tasks, view.tasks') /\ Len(view.tasks) <= Len(view.tasks')
         /\ Existing(view) \subseteq Existing(view)'
         /\ Len(tasks) <= Len(tasks') /\ 1..Len(tasks) \subseteq 1..Len(tasks')
<1>0. /\ tasks' \in Seq(Tasks) /\ Len(tasks') \in Nat /\ FamiliesOK(tasks') /\ RootsOK(tasks')
      /\ LaterIs(tasks, tasks') /\ Len(tasks) <= Len(tasks')
  BY StoreIs DEF StoreMoves, Grows, LaterIs
<1>1. Len(tasks) \in Nat /\ 1..Len(tasks) \subseteq 1..Len(tasks')
  BY <1>0, StoreIs
<1>2. LaterIs(view.tasks, tasks')
  BY <1>0, StoreIs, LaterOn DEF ViewInv
<1>3. /\ view.tasks' \in Seq(Tasks) /\ view.resolved' \in [Ids -> Nat] /\ behind' \in BOOLEAN
      /\ LaterIs(view.tasks, view.tasks') /\ LaterIs(view.tasks', tasks')
      /\ ~behind' => view.tasks' = tasks' /\ view.resolved' = resolved'
  <2>1. CASE Shows
    BY <1>0, <1>2, <2>1, LaterStays DEF Shows, StoreMoves, Grows
  <2>2. CASE UNCHANGED view /\ behind' = TRUE
    BY <1>2, <2>2, StoreIs, LaterStays
  <2>3. CASE UNCHANGED <<store, view, behind>>
    BY <1>2, <2>3, StoreIs, LaterStays DEF store, ViewInv
  <2> QED BY <2>1, <2>2, <2>3 DEF StoreMoves, Looks
<1>4. KeepsResolved(view.resolved', resolved')
  <2>1. KeepsResolved(view.resolved, resolved')
    BY StoreIs DEF ViewInv, KeepsResolved, StoreMoves, Grows
  <2>2. CASE Shows
    BY <2>2 DEF Shows, KeepsResolved
  <2> QED BY <2>1, <2>2 DEF StoreMoves, Looks
<1>5. Len(view.tasks) <= Len(view.tasks') /\ Len(view.tasks') <= Len(tasks')
      /\ Len(view.tasks') \in Nat /\ Len(view.tasks) \in Nat
  BY <1>3, StoreIs DEF LaterIs
<1>6. Existing(view) \subseteq Existing(view)' /\ Existing(view)' \subseteq 1..Len(tasks')
  BY <1>5, <1>0 DEF Existing
<1>7. StoreInv'
  BY <1>0, <1>3, <1>6, StoreIs DEF StoreInv, StoreTypeOK, StoreMoves, Grows, AutopilotConstants
<1>8. ViewInv'
  BY <1>3, <1>4 DEF ViewInv
<1> QED BY <1>0, <1>1, <1>3, <1>5, <1>6, <1>7, <1>8

-----------------------------------------------------------------------------
(* What the commands do to the store. *)

\* A task's status moves on, unless it was final.
LEMMA StatusMoves ==
  ASSUME StoreInv, NEW t \in 1..Len(tasks), NEW new \in Tasks, tasks' = [tasks EXCEPT ![t] = new],
         new.root = tasks[t].root, new.of = tasks[t].of, new.needs = tasks[t].needs,
         tasks[t].status \notin Broken \cup {"Accepted", "Rejected"}, ~Dropped(tasks[t]),
         UNCHANGED <<resolved, capacity>>
  PROVE  Grows
<1>1. Stays(tasks[t], new)
  BY DEF Stays
<1> QED BY <1>1, StoreIs, GetsOn DEF Grows, KeepsResolved

LEMMA ChangesOf ==
  ASSUME StoreInv, NEW t \in 1..Len(tasks), NEW status \in Statuses
  PROVE  /\ tasks[t] \in Tasks
         /\ [tasks[t] EXCEPT !.status = status] \in Tasks
         /\ [tasks[t] EXCEPT !.status = status, !.approvals = @ + 1] \in Tasks
         /\ [tasks[t] EXCEPT !.status = status, !.run = TRUE] \in Tasks
<1>1. tasks[t] \in Tasks
  BY StoreIs
<1>2. PICK task \in Tasks : task = tasks[t]
  BY <1>1
<1>3. [task EXCEPT !.status = status] \in Tasks
  BY DEF Tasks
<1>4. [task EXCEPT !.status = status, !.approvals = @ + 1] \in Tasks
  <2>1. PICK k \in Nat : k = task.approvals + 1
    BY DEF Tasks
  <2>2. [task EXCEPT !.status = status, !.approvals = k] \in Tasks
    BY DEF Tasks
  <2> QED BY <2>1, <2>2
<1>5. [task EXCEPT !.status = status, !.run = TRUE] \in Tasks
  BY DEF Tasks
<1> QED BY <1>2, <1>3, <1>4, <1>5

LEMMA SetStatusOK ==
  ASSUME StoreInv, NEW t \in 1..Len(tasks), NEW status \in Statuses, SetStatus(t, status),
         tasks[t].status \notin Broken \cup {"Accepted", "Rejected"}, ~Dropped(tasks[t]),
         UNCHANGED <<resolved, capacity>>
  PROVE  Grows
<1> DEFINE new == [tasks[t] EXCEPT !.status = status]
<1>1. /\ new \in Tasks /\ new.root = tasks[t].root /\ new.of = tasks[t].of
      /\ new.needs = tasks[t].needs
  BY ChangesOf DEF Tasks
<1>2. tasks' = [tasks EXCEPT ![t] = new]
  BY DEF SetStatus
<1> HIDE DEF new
<1> QED BY <1>1, <1>2, StatusMoves

LEMMA ApproveOK ==
  ASSUME StoreInv, NEW t \in 1..Len(tasks), Approve(t),
         tasks[t].status \notin Broken \cup {"Accepted", "Rejected"}, ~Dropped(tasks[t]),
         UNCHANGED <<resolved, capacity>>
  PROVE  Grows
<1> DEFINE new == [tasks[t] EXCEPT !.status = "Approved", !.approvals = @ + 1]
<1>1. /\ new \in Tasks /\ new.root = tasks[t].root /\ new.of = tasks[t].of
      /\ new.needs = tasks[t].needs
  BY ChangesOf DEF Tasks, Statuses
<1>2. tasks' = [tasks EXCEPT ![t] = new]
  BY DEF Approve
<1> HIDE DEF new
<1> QED BY <1>1, <1>2, StatusMoves

\* A repair of a task.
LEMMA RepairIs ==
  ASSUME NEW ts \in Seq(Tasks), FamiliesOK(ts), RootsOK(ts), NEW t \in 1..Len(ts)
  PROVE  LET new == [root |-> ts[t].root, of |-> t, needs |-> ts[t].needs, status |-> "Proposed",
                     run |-> FALSE, approvals |-> 0]
         IN /\ Append(ts, new) \in Seq(Tasks) /\ Len(Append(ts, new)) = Len(ts) + 1
            /\ Append(ts, new)[Len(ts) + 1] = new
            /\ FamiliesOK(Append(ts, new)) /\ RootsOK(Append(ts, new))
            /\ LaterIs(ts, Append(ts, new))
<1> DEFINE new == [root |-> ts[t].root, of |-> t, needs |-> ts[t].needs, status |-> "Proposed",
                   run |-> FALSE, approvals |-> 0]
<1>1. ts[t] \in Tasks
  OBVIOUS
<1>2. new \in Tasks
  BY <1>1 DEF Tasks, Statuses
<1>3. new.of \in 1..Len(ts) /\ new.root = ts[new.of].root /\ new.needs = ts[new.of].needs
  OBVIOUS
<1> HIDE DEF new
<1>4. /\ Append(ts, new) \in Seq(Tasks) /\ Len(Append(ts, new)) = Len(ts) + 1
      /\ Append(ts, new)[Len(ts) + 1] = new
      /\ FamiliesOK(Append(ts, new)) /\ RootsOK(Append(ts, new))
      /\ LaterIs(ts, Append(ts, new))
  BY <1>2, <1>3, IsProposed
<1> QED BY <1>4 DEF new

LEMMA AppliesRepair ==
  ASSUME StoreInv, NEW t \in 1..Len(tasks), Len(tasks) < capacity,
         Propose(tasks[t].root, t, tasks[t].needs), UNCHANGED <<resolved, capacity>>
  PROVE  /\ Grows /\ Len(tasks') = Len(tasks) + 1
         /\ tasks'[Len(tasks')].of = t /\ tasks'[Len(tasks')].root = tasks[t].root
         /\ \A q \in 1..Len(tasks) : tasks'[q] = tasks[q]
<1>1. PICK new : new = [root |-> tasks[t].root, of |-> t, needs |-> tasks[t].needs,
                        status |-> "Proposed", run |-> FALSE, approvals |-> 0]
  OBVIOUS
<1>2. tasks' = Append(tasks, new)
  BY <1>1 DEF Propose
<1>3. /\ tasks' \in Seq(Tasks) /\ Len(tasks') = Len(tasks) + 1 /\ tasks'[Len(tasks) + 1] = new
      /\ FamiliesOK(tasks') /\ RootsOK(tasks') /\ LaterIs(tasks, tasks')
  BY <1>1, <1>2, StoreIs, RepairIs
<1>4. Grows
  BY <1>3, StoreIs DEF Grows, KeepsResolved
<1>5. \A q \in 1..Len(tasks) : tasks'[q] = tasks[q]
  BY <1>2, StoreIs
<1> QED BY <1>1, <1>3, <1>4, <1>5

LEMMA AppliesFollowUp ==
  ASSUME StoreInv, NEW t \in 1..Len(tasks), Len(tasks) < capacity,
         Propose(Len(tasks) + 1, 0, {tasks[t].root}), UNCHANGED <<resolved, capacity>>
  PROVE  /\ Grows /\ Len(tasks') = Len(tasks) + 1 /\ tasks'[Len(tasks')].root = Len(tasks')
<1>1. PICK new : new = [root |-> Len(tasks) + 1, of |-> 0, needs |-> {tasks[t].root},
                        status |-> "Proposed", run |-> FALSE, approvals |-> 0]
  OBVIOUS
<1>2. tasks' = Append(tasks, new)
  BY <1>1 DEF Propose
<1>3. tasks[t].root \in 1..t
  BY StoreIs DEF FamiliesOK
<1>4. {tasks[t].root} \subseteq 1..Len(tasks) /\ {tasks[t].root} \subseteq Nat
  BY <1>3, StoreIs
<1>5. new \in Tasks /\ new.of = 0 /\ new.root = Len(tasks) + 1 /\ new.needs \subseteq 1..Len(tasks)
  <2>1. Len(tasks) + 1 \in Nat
    BY StoreIs
  <2> QED BY <1>1, <1>4, <2>1 DEF Tasks, Statuses
<1>6. /\ tasks' \in Seq(Tasks) /\ Len(tasks') = Len(tasks) + 1 /\ tasks'[Len(tasks) + 1] = new
      /\ FamiliesOK(tasks') /\ RootsOK(tasks') /\ LaterIs(tasks, tasks')
  BY <1>2, <1>5, StoreIs, IsProposed
<1>7. Grows
  BY <1>6, StoreIs DEF Grows, KeepsResolved
<1> QED BY <1>5, <1>6, <1>7

LEMMA AppliesReviewRepair ==
  ASSUME StoreInv, NEW t \in 1..Len(tasks), Len(tasks) < capacity,
         tasks[t].status = "ReviewReady",
         tasks' = Append([tasks EXCEPT ![t].status = "Rejected"],
                         [root |-> tasks[t].root, of |-> t, needs |-> tasks[t].needs,
                          status |-> "Proposed", run |-> FALSE, approvals |-> 0]),
         UNCHANGED <<resolved, capacity>>
  PROVE  Grows /\ Len(tasks') = Len(tasks) + 1 /\ tasks'[t].status = "Rejected"
<1>1. PICK task : task = [tasks[t] EXCEPT !.status = "Rejected"]
  OBVIOUS
<1>2. task \in Tasks /\ task.root = tasks[t].root /\ task.needs = tasks[t].needs
      /\ task.status = "Rejected" /\ Stays(tasks[t], task)
  <2>1. "Rejected" \in Statuses
    BY DEF Statuses
  <2>2. tasks[t] \in Tasks /\ task \in Tasks
    <3>1. tasks[t] \in Tasks /\ [tasks[t] EXCEPT !.status = "Rejected"] \in Tasks
      BY <2>1, ChangesOf
    <3> QED BY <1>1, <3>1
  <2>3. task.root = tasks[t].root /\ task.of = tasks[t].of /\ task.needs = tasks[t].needs
        /\ task.status = "Rejected"
    BY <1>1, <2>2 DEF Tasks
  <2> QED BY <2>2, <2>3 DEF Stays, Dropped, Broken
<1>3. PICK ts : ts = [tasks EXCEPT ![t] = task]
  OBVIOUS
<1>4. /\ ts \in Seq(Tasks) /\ Len(ts) = Len(tasks) /\ FamiliesOK(ts) /\ RootsOK(ts)
      /\ LaterIs(tasks, ts) /\ ts[t] = task
  <2>1. tasks \in Seq(Tasks) /\ FamiliesOK(tasks) /\ RootsOK(tasks)
    BY StoreIs
  <2>2. /\ ts \in Seq(Tasks) /\ Len(ts) = Len(tasks) /\ FamiliesOK(ts) /\ RootsOK(ts)
        /\ LaterIs(tasks, ts)
    BY <1>2, <1>3, <2>1, GetsOn
  <2> QED BY <2>1, <2>2, <1>3
<1>5. PICK new : new = [root |-> ts[t].root, of |-> t, needs |-> ts[t].needs,
                        status |-> "Proposed", run |-> FALSE, approvals |-> 0]
  OBVIOUS
<1>6. tasks' = Append(ts, new)
  BY <1>1, <1>2, <1>3, <1>4, <1>5
<1>7. /\ tasks' \in Seq(Tasks) /\ Len(tasks') = Len(tasks) + 1
      /\ FamiliesOK(tasks') /\ RootsOK(tasks') /\ LaterIs(ts, tasks')
  BY <1>4, <1>5, <1>6, RepairIs
<1>8. LaterIs(tasks, tasks')
  BY <1>4, <1>7, StoreIs, LaterOn
<1>9. Grows
  <2>1. Len(tasks') <= capacity
    BY <1>7, StoreIs
  <2> QED BY <1>7, <1>8, <2>1, StoreIs DEF Grows, KeepsResolved
<1>10. tasks'[t].status = "Rejected"
  BY <1>2, <1>4, <1>6
<1> QED BY <1>7, <1>9, <1>10

LEMMA AppliesResolve ==
  ASSUME StoreInv, NEW t \in 1..Len(tasks), resolved[tasks[t].root] = 0,
         resolved' = [resolved EXCEPT ![tasks[t].root] = t], UNCHANGED <<tasks, capacity>>
  PROVE  Grows
<1>1. tasks[t].root \in 1..t
  BY StoreIs DEF FamiliesOK
<1>2. tasks[t].root \in Ids /\ t \in Nat
  BY <1>1, StoreIs DEF Ids
<1>3. resolved' \in [Ids -> Nat] /\ KeepsResolved(resolved, resolved')
  BY <1>2, StoreIs DEF KeepsResolved
<1> QED BY <1>3, StoreIs, LaterStays DEF Grows

LEMMA ApplyOK ==
  ASSUME StoreInv, NEW kind, NEW t \in 1..Len(tasks), Apply(kind, t), UNCHANGED capacity
  PROVE  Grows
<1>0. /\ {"Approved", "Accepted", "Cancelled", "ReviewReady", "Failed", "Held", "Rejected"}
             \subseteq Statuses
      /\ {"Failed", "Unreachable", "Environment"} = Broken
  BY DEF Statuses, Broken
<1>1. CASE kind = "approve" \/ kind = "requeue"
  BY <1>0, <1>1, ApproveOK DEF Apply, Dropped
<1>2. CASE kind \in {"review", "recover", "cancel", "accept", "hold", "reject"}
  BY <1>0, <1>2, SetStatusOK DEF Apply, Dropped
<1>3. CASE kind = "resolve"
  BY <1>3, AppliesResolve DEF Apply
<1>4. CASE kind = "repair"
  BY <1>4, AppliesRepair DEF Apply, CanRepair
<1>5. CASE kind = "review-repair"
  BY <1>5, AppliesReviewRepair DEF Apply
<1>6. CASE kind = "follow-up"
  BY <1>6, AppliesFollowUp DEF Apply
<1>7. kind \in {"approve", "review", "resolve", "recover", "requeue", "repair", "cancel",
                "review-repair", "follow-up", "accept", "hold", "reject"}
  BY DEF Apply
<1> QED BY <1>1, <1>2, <1>3, <1>4, <1>5, <1>6, <1>7

-----------------------------------------------------------------------------
(* The parts of the invariant that a step need not look at. *)

LEMMA ViewGrows ==
  ASSUME StoreInv, ViewInv, StoreMoves, NEW t \in Existing(view)
  PROVE  /\ t \in Existing(view)' /\ t \in 1..Len(tasks') /\ t <= Len(tasks')
         /\ Stays(view.tasks[t], view'.tasks[t])
<1>1. LaterIs(view.tasks, view.tasks') /\ Existing(view) \subseteq Existing(view)'
      /\ 1..Len(tasks) \subseteq 1..Len(tasks')
  BY MovesFacts
<1>2. t \in 1..Len(view.tasks) /\ t \in 1..Len(tasks)
  BY ViewIs
<1>3. Stays(view.tasks[t], view'.tasks[t])
  BY <1>1, <1>2 DEF LaterIs
<1> QED BY <1>1, <1>2, <1>3

\* A state of the run that may be taken or saved on this snapshot: a family's limit is
\* one that the run has, or leaves room for the repairs there are.
RunFits(r) ==
  /\ r \in Runs /\ RunIn(r)
  /\ r.stale => r.phase = "finishing"
  /\ r.through <= Len(tasks)
  /\ \A q \in Ids : \/ r.limits[q] \in {saved.limits[q], file.limits[q]}
                    \/ r.limits[q] >= Repairs(view, q)

LEMMA BothFit ==
  ASSUME AutopilotInv
  PROVE  /\ RunFits(saved) /\ RunFits(file) /\ saveFaults \in Nat /\ overridden \in BOOLEAN
         /\ Running => file = saved
         /\ command.by = "autopilot" => file.limits = saved.limits
BY DEF AutopilotInv, RunInv, RunTypeOK, RunOK, RunFits

\* What a step leaves in memory and in the file.
RunMoves ==
  /\ RunFits(saved') /\ RunFits(file') /\ saveFaults' \in Nat /\ overridden' \in BOOLEAN
  /\ Running' => file' = saved'
  /\ command'.by = "autopilot" => file'.limits = saved'.limits

LEMMA FitsLater ==
  ASSUME AutopilotInv, StoreMoves, NEW r, RunFits(r)
  PROVE  /\ r \in Runs /\ r.roots \cup r.retry \subseteq Existing(view)'
         /\ r.roots \subseteq 1..Len(tasks') /\ r.retry \subseteq 1..Len(tasks')
         /\ \A root \in r.roots : view'.tasks[root].root = root
         /\ r.stale => r.phase = "finishing"
         /\ r.through <= Len(tasks')
<1>1. StoreInv /\ ViewInv
  BY DEF AutopilotInv
<1>2. Existing(view) \subseteq Existing(view)' /\ Len(tasks) <= Len(tasks')
      /\ Existing(view)' \subseteq 1..Len(tasks') /\ Len(tasks') \in Nat /\ Len(tasks) \in Nat
  BY <1>1, MovesFacts, StoreIs DEF StoreMoves, Grows, StoreInv, StoreTypeOK
<1>3. \A root \in r.roots : root \in Existing(view) /\ view.tasks[root].root = root
  BY DEF RunFits, RunIn, RootOf
<1>4. \A root \in r.roots : view'.tasks[root].root = root
  BY <1>1, <1>3, ViewGrows DEF Stays
<1>5. r.through <= Len(tasks')
  BY <1>2 DEF RunFits, Runs
<1> QED BY <1>2, <1>4, <1>5 DEF RunFits, RunIn

LEMMA RunFrame ==
  ASSUME AutopilotInv, StoreMoves, RunMoves,
         recovering' \cup workers' \subseteq Existing(view),
         job' \in [at : {"none", "composing", "made", "refused"}, round : Nat,
                  sources : SUBSET Nat],
         job' # NoJob => saved'.phase = "finishing"
  PROVE  RunInv'
<1>1. RunOK(saved)' /\ RunIn(saved)'
  BY FitsLater DEF RunMoves, RunOK, RunIn, RootOf
<1>2. RunOK(file)' /\ RunIn(file)'
  BY FitsLater DEF RunMoves, RunOK, RunIn, RootOf
<1>3. recovering' \cup workers' \subseteq Existing(view)'
  BY MovesFacts DEF AutopilotInv
<1>4. RunTypeOK'
  BY <1>1, <1>2 DEF RunMoves, RunTypeOK
<1> QED BY <1>1, <1>2, <1>3, <1>4 DEF RunMoves, RunInv

LEMMA RunStays ==
  ASSUME AutopilotInv, UNCHANGED <<saved, file, saveFaults>>, overridden' \in BOOLEAN,
         command'.by = "autopilot" => command.by = "autopilot"
  PROVE  RunMoves
BY BothFit DEF RunMoves, Running, Active, IsActive

\* A run that is not written.
LEMMA SavedFrame ==
  ASSUME AutopilotInv, StoreMoves, UNCHANGED <<saved, file, saveFaults, job>>,
         overridden' \in BOOLEAN, command'.by = "autopilot" => command.by = "autopilot",
         recovering' \cup workers' \subseteq Existing(view)
  PROVE  RunInv'
<1>1. RunMoves
  BY RunStays
<1> QED BY <1>1, RunFrame DEF AutopilotInv, RunInv, RunTypeOK

\* The run goes on in memory only if its state was saved.
LEMMA PersistIs ==
  ASSUME AutopilotInv, NEW s, RunFits(s), Persist(s)
  PROVE  /\ RunFits(saved') /\ RunFits(file') /\ saveFaults' \in Nat
         /\ Running' => file' = saved'
         /\ saved'.roots = s.roots /\ saved'.retry = s.retry /\ saved'.phase = s.phase
         /\ saved'.stale = s.stale /\ saved'.through = s.through /\ saved'.limits = s.limits
         /\ file' = s \/ file' = file
         /\ \/ saved' = s /\ saveFaults' = saveFaults
            \/ saved'.paused = IsActive(s) /\ saveFaults' # saveFaults
<1>1. PICK r \in Runs : r = s
  BY DEF RunFits
<1>2. CASE saved' = s /\ file' = s /\ UNCHANGED saveFaults
  BY <1>2, BothFit
<1>3. CASE /\ saveFaults > 0 /\ saveFaults' = saveFaults - 1
           /\ saved' = [s EXCEPT !.paused = IsActive(s)] /\ file' \in {file, s}
  <2>1. saveFaults' \in Nat /\ saveFaults' # saveFaults
    BY <1>3, BothFit
  <2>2. PICK paused \in BOOLEAN : paused = IsActive(s)
    <3>1. CASE IsActive(s)
      <4>1. TRUE = IsActive(s)
        BY <3>1 DEF IsActive
      <4> QED BY <4>1
    <3>2. CASE ~IsActive(s)
      <4>1. FALSE = IsActive(s)
        BY <3>2 DEF IsActive
      <4> QED BY <4>1
    <3> QED BY <3>1, <3>2
  <2>3. saved' = [r EXCEPT !.paused = paused] /\ saved' \in Runs
    BY <1>1, <1>3, <2>2 DEF Runs
  <2>4. /\ saved'.roots = s.roots /\ saved'.retry = s.retry /\ saved'.phase = s.phase
        /\ saved'.stale = s.stale /\ saved'.through = s.through /\ saved'.limits = s.limits
        /\ saved'.paused = IsActive(s)
    BY <1>1, <2>2, <2>3 DEF Runs
  <2>5. RunFits(saved') /\ RunFits(file')
    BY <1>3, <2>3, <2>4, BothFit DEF RunFits, RunIn
  <2>6. ~Running'
    BY <2>4 DEF Running, Active, IsActive
  <2> QED BY <1>3, <2>1, <2>4, <2>5, <2>6
<1> QED BY <1>2, <1>3 DEF Persist

LEMMA SaveIs ==
  ASSUME AutopilotInv, NEW s, RunFits(s), Save(s),
         command'.by = "autopilot" =>
            (command.by = "autopilot" \/ Running) /\ s.limits = saved.limits
  PROVE  /\ RunMoves
         /\ saved'.roots = s.roots /\ saved'.retry = s.retry /\ saved'.phase = s.phase
         /\ saved'.stale = s.stale /\ saved'.through = s.through /\ saved'.limits = s.limits
         /\ saved'.paused => overridden' \/ (s.paused /\ ~overridden)
         /\ ~saved'.paused => s.paused = FALSE \/ ~IsActive(s)
<1>1. /\ RunFits(saved') /\ RunFits(file') /\ saveFaults' \in Nat
      /\ Running' => file' = saved'
      /\ saved'.roots = s.roots /\ saved'.retry = s.retry /\ saved'.phase = s.phase
      /\ saved'.stale = s.stale /\ saved'.through = s.through /\ saved'.limits = s.limits
      /\ file' = s \/ file' = file
      /\ \/ saved' = s /\ saveFaults' = saveFaults
         \/ saved'.paused = IsActive(s) /\ saveFaults' # saveFaults
  BY PersistIs DEF Save
<1>2. overridden' = (saved'.paused /\ (overridden \/ saveFaults' # saveFaults))
  BY DEF Save
<1>3. saved'.paused \in BOOLEAN /\ s.paused \in BOOLEAN
  BY <1>1 DEF RunFits, Runs
<1>4. overridden' \in BOOLEAN
  BY <1>2
<1>5. command'.by = "autopilot" => file'.limits = saved'.limits
  BY <1>1, BothFit
<1>6. saved'.paused => overridden' \/ (s.paused /\ ~overridden)
  BY <1>1, <1>2
<1>7. ~saved'.paused => s.paused = FALSE \/ ~IsActive(s)
  BY <1>1, <1>3
<1> QED BY <1>1, <1>4, <1>5, <1>6, <1>7 DEF RunMoves

\* A state is saved or not: dispatch is off in a run that was and stays paused, and in
\* one that is paused for it the user may find it on.
LEMMA QuietAfter ==
  ASSUME AutopilotInv, NEW s, RunFits(s), Save(s), dispatching' \in {dispatching, FALSE},
         IsActive(s) /\ s.paused => Active /\ saved.paused,
         command'.by = "autopilot" => command.by = "autopilot" /\ s.limits = saved.limits
  PROVE  PausedIsQuiet'
<1>1. /\ saved'.phase = s.phase
      /\ saved'.paused => overridden' \/ (s.paused /\ ~overridden)
  BY SaveIs
<1>2. Active /\ saved.paused /\ dispatching => overridden
  BY DEF AutopilotInv, WorkInv, PausedIsQuiet
<1>3. Active' <=> IsActive(s)
  BY <1>1 DEF Active, IsActive
<1> SUFFICES ASSUME Active', saved'.paused, dispatching', ~overridden' PROVE FALSE
  BY DEF PausedIsQuiet
<1>4. IsActive(s) /\ s.paused /\ ~overridden
  BY <1>1, <1>3
<1>5. dispatching
  OBVIOUS
<1> QED BY <1>2, <1>4, <1>5

\* The attempts of /dispatch on start over on another revision, if any do.
Afresh == attempts' \in {attempts, [attempts EXCEPT ![<<"dispatch", 0>>] = 0]}

LEMMA AfreshIs ==
  ASSUME AutopilotInv, Afresh
  PROVE  /\ attempts' \in [Keys -> 0..Attempts + 1]
         /\ \A k \in Keys : attempts'[k] <= attempts[k]
<1>1. Attempts \in Nat /\ attempts \in [Keys -> 0..Attempts + 1]
  BY LoopConstants DEF AutopilotInv, StoreInv, MemoryInv, MemoryTypeOK
<1>2. 0 \in 0..Attempts + 1 /\ \A k \in Keys : attempts[k] \in Nat /\ attempts[k] >= 0
  BY <1>1
<1>3. CASE attempts' = attempts
  BY <1>1, <1>2, <1>3
<1>4. CASE attempts' = [attempts EXCEPT ![<<"dispatch", 0>>] = 0]
  <2>1. PICK key : key = <<"dispatch", 0>>
    OBVIOUS
  <2>2. attempts' = [attempts EXCEPT ![key] = 0]
    BY <1>4, <2>1
  <2>3. \A k \in Keys : attempts'[k] = IF k = key THEN 0 ELSE attempts[k]
    BY <1>1, <2>2
  <2>4. attempts' \in [Keys -> 0..Attempts + 1]
    BY <1>1, <1>2, <2>2
  <2>5. ASSUME NEW k \in Keys PROVE attempts'[k] <= attempts[k]
    BY <1>2, <2>3
  <2> QED BY <2>4, <2>5
<1> QED BY <1>3, <1>4 DEF Afresh

LEMMA MemoryFrame ==
  ASSUME AutopilotInv, StoreMoves, Afresh,
         UNCHANGED <<transient, recovering, ownerTransient>>,
         UNCHANGED automatic \/ automatic' \subseteq 1..Len(tasks'),
         last' \in [key : Keys \cup {NoKey}, transient : BOOLEAN],
         saved'.phase = "running" /\ ~saved'.paused => saved.phase = "running" /\ ~saved.paused
  PROVE  MemoryInv'
<1>1. 1..Len(tasks) \subseteq 1..Len(tasks')
  BY MovesFacts DEF AutopilotInv
<1>2. /\ attempts' \in [Keys -> 0..Attempts + 1]
      /\ \A k \in Keys : attempts'[k] <= attempts[k]
  BY AfreshIs
<1>3. saved.phase = "running" /\ ~saved.paused => \A k \in Keys : attempts'[k] <= Attempts
  <2>1. Attempts \in Nat /\ attempts \in [Keys -> 0..Attempts + 1]
        /\ (saved.phase = "running" /\ ~saved.paused => \A k \in Keys : attempts[k] <= Attempts)
    BY LoopConstants DEF AutopilotInv, StoreInv, MemoryInv, MemoryTypeOK
  <2>2. \A k \in Keys : attempts[k] \in Nat /\ attempts'[k] \in Nat
    BY <1>2, <2>1
  <2> QED BY <1>2, <2>1, <2>2
<1> QED BY <1>1, <1>2, <1>3 DEF AutopilotInv, MemoryInv, MemoryTypeOK

LEMMA ItemFrame ==
  ASSUME AutopilotInv, StoreMoves, UNCHANGED item,
         command'.by = "owner" => command.by = "owner" /\ command'.kind = command.kind
                                  /\ command'.task = command.task
  PROVE  ItemInv'
<1>1. StoreInv /\ ViewInv /\ ItemInv
  BY DEF AutopilotInv
<1>2. Existing(view) \subseteq Existing(view)' /\ Len(tasks) <= Len(tasks') /\ Len(tasks) \in Nat
      /\ Len(tasks') \in Nat /\ 0..Len(tasks) \subseteq 0..Len(tasks')
  <2>1. Existing(view) \subseteq Existing(view)' /\ Len(tasks) <= Len(tasks') /\ Len(tasks) \in Nat
        /\ Len(tasks') \in Nat
    BY <1>1, MovesFacts, StoreIs DEF StoreMoves, Grows
  <2> QED BY <2>1
<1>3. ItemTypeOK'
  BY <1>1, <1>2 DEF ItemInv, ItemTypeOK
<1>4. item.created # 0 => /\ item.effect = "FollowUp" => RootOf(view, item.created)' = item.created
                          /\ item.effect = "ReviewRepair" => Status(view, item.task)' = "Rejected"
  <2>0. SUFFICES ASSUME item.created # 0
                 PROVE  /\ item.effect = "FollowUp" => RootOf(view, item.created)' = item.created
                        /\ item.effect = "ReviewRepair" => Status(view, item.task)' = "Rejected"
    OBVIOUS
  <2>1. item.created \in Existing(view) /\ item.root # 0
    BY <1>1, <2>0 DEF ItemInv, NoItem
  <2>2. item.task \in Existing(view)
    BY <1>1, <2>1 DEF ItemInv
  <2>3. Stays(view.tasks[item.created], view'.tasks[item.created])
        /\ Stays(view.tasks[item.task], view'.tasks[item.task])
    BY <1>1, <2>1, <2>2, ViewGrows
  <2> QED BY <1>1, <2>0, <2>3 DEF ItemInv, RootOf, Status, Stays
<1> QED BY <1>1, <1>2, <1>3, <1>4 DEF ItemInv

LEMMA WorkFrame ==
  ASSUME AutopilotInv, StoreMoves, UNCHANGED <<workers, flagged, contended>>,
         dispatching' \in {dispatching, FALSE}, PausedIsQuiet'
  PROVE  WorkInv'
<1>1. 1..Len(tasks) \subseteq 1..Len(tasks')
  BY MovesFacts DEF AutopilotInv
<1> QED BY <1>1 DEF AutopilotInv, WorkInv, WorkTypeOK

\* Quiet as before, where the run stays as it is.
LEMMA QuietStays ==
  ASSUME AutopilotInv, UNCHANGED saved, dispatching' \in {dispatching, FALSE},
         overridden => overridden'
  PROVE  PausedIsQuiet'
BY DEF AutopilotInv, WorkInv, PausedIsQuiet, Active, IsActive

-----------------------------------------------------------------------------
(* The repairs of the loop. *)

LEMMA SpentIsFinite ==
  ASSUME NEW s, s.tasks \in Seq(Tasks), NEW root
  PROVE  /\ Spent(s, root) \subseteq 1..Len(s.tasks) /\ IsFiniteSet(Spent(s, root))
         /\ Repairs(s, root) \in Nat
<1>1. Spent(s, root) \subseteq 1..Len(s.tasks)
  BY DEF Spent, Existing
<1>2. IsFiniteSet(1..Len(s.tasks))
  BY FS_Interval
<1>3. IsFiniteSet(Spent(s, root))
  BY <1>1, <1>2, FS_Subset
<1> QED BY <1>1, <1>3, FS_CardinalityType DEF Repairs

\* A repair of the loop that was not dropped counts as spent, in the snapshot too.
LEMMA LoopSpends ==
  ASSUME AutopilotInv, NEW root
  PROVE  /\ ByLoop(root) \subseteq Spent(view, root) /\ IsFiniteSet(ByLoop(root))
         /\ Cardinality(ByLoop(root)) \in Nat /\ Repairs(view, root) \in Nat
         /\ Cardinality(ByLoop(root)) <= Repairs(view, root)
<1>1. StoreInv /\ ViewInv /\ LoopInv
  BY DEF AutopilotInv
<1>2. ASSUME NEW t \in ByLoop(root) PROVE t \in Spent(view, root)
  <2>1. t \in automatic /\ t \in Existing(view)
    BY <1>1 DEF ByLoop, LoopInv
  <2>2. Stays(view.tasks[t], tasks[t])
    BY <1>1, <2>1, ViewIs
  <2> QED BY <1>1, <2>1, <2>2 DEF ByLoop, Stays, Spent, LoopInv, RootOf
<1>3. IsFiniteSet(Spent(view, root)) /\ Repairs(view, root) \in Nat
  BY <1>1, StoreIs, SpentIsFinite
<1>4. ByLoop(root) \subseteq Spent(view, root)
  BY <1>2
<1> QED BY <1>3, <1>4, FS_Subset, FS_CardinalityType DEF Repairs

\* What the repairs of the loop are stays so, and none comes back.
LEMMA LoopStays ==
  ASSUME AutopilotInv, StoreMoves, NEW t \in automatic
  PROVE  /\ t \in Existing(view)' /\ view'.tasks[t].of # 0
         /\ Status(view, view.tasks[t].of)' \in Broken
         /\ tasks'[t].root = tasks[t].root /\ (Dropped(tasks[t]) => Dropped(tasks'[t]))
<1>1. StoreInv /\ ViewInv /\ LoopInv
  BY DEF AutopilotInv
<1>2. t \in Existing(view) /\ view.tasks[t].of # 0 /\ Status(view, view.tasks[t].of) \in Broken
  BY <1>1 DEF LoopInv
<1>3. Stays(view.tasks[t], view'.tasks[t]) /\ t \in Existing(view)'
  BY <1>1, <1>2, ViewGrows
<1>4. view.tasks[t].of \in Existing(view)
  <2>1. t \in 1..Len(view.tasks) /\ t \in 1..Len(tasks) /\ view.tasks[t].of = tasks[t].of
    BY <1>1, <1>2, ViewIs DEF Stays
  <2>2. tasks[t].of \in 0..t - 1
    BY <1>1, <2>1, StoreIs DEF FamiliesOK
  <2> QED BY <1>1, <1>2, <2>1, <2>2, StoreIs
<1>5. Stays(view.tasks[view.tasks[t].of], view'.tasks[view.tasks[t].of])
  BY <1>1, <1>4, ViewGrows
<1>6. Stays(tasks[t], tasks'[t])
  BY <1>1, <1>2, ViewIs DEF StoreMoves, Grows, LaterIs
<1> QED BY <1>2, <1>3, <1>5, <1>6 DEF Stays, Status

LEMMA LimitIs ==
  ASSUME AutopilotInv, NEW r, RunFits(r), NEW q \in Ids
  PROVE  LimitIn(r, q) \in Int /\ Cardinality(ByLoop(q)) <= LimitIn(r, q)
<1>1. MaxRepairs \in Nat
  BY LoopConstants DEF AutopilotInv, StoreInv
<1>2. r \in Runs /\ saved \in Runs /\ file \in Runs
  BY BothFit DEF RunFits
<1>3. LimitIn(r, q) \in Int
  BY <1>1, <1>2 DEF LimitIn, Runs
<1>4. /\ Cardinality(ByLoop(q)) <= LimitIn(saved, q)
      /\ Cardinality(ByLoop(q)) <= LimitIn(file, q)
  BY DEF AutopilotInv, LoopInv, RepairsBounded, RepairLimit
<1>5. CASE r.limits[q] \in {saved.limits[q], file.limits[q]}
  <2>1. LimitIn(r, q) = LimitIn(saved, q) \/ LimitIn(r, q) = LimitIn(file, q)
    BY <1>5 DEF LimitIn
  <2> QED BY <1>3, <1>4, <2>1
<1>6. CASE r.limits[q] >= Repairs(view, q)
  <2>1. /\ Cardinality(ByLoop(q)) \in Nat /\ Repairs(view, q) \in Nat
        /\ Cardinality(ByLoop(q)) <= Repairs(view, q)
    BY LoopSpends
  <2>2. r.limits[q] \in Nat \cup {-1}
    BY <1>2 DEF Runs
  <2>3. LimitIn(r, q) = r.limits[q]
    BY <1>6, <2>1, <2>2 DEF LimitIn
  <2> QED BY <1>3, <1>6, <2>1, <2>2, <2>3
<1> QED BY <1>3, <1>5, <1>6 DEF RunFits

\* Nothing but the loop adds to its repairs.
LEMMA LoopFrame ==
  ASSUME AutopilotInv, StoreMoves, UNCHANGED automatic, RunFits(saved'), RunFits(file')
  PROVE  LoopInv'
<1>1. /\ automatic' \subseteq Existing(view)'
      /\ \A t \in automatic' : /\ view'.tasks[t].of # 0
                               /\ Status(view, view.tasks[t].of)' \in Broken
  BY LoopStays DEF LoopInv
<1>2. ASSUME NEW r \in Ids
      PROVE  /\ Cardinality(ByLoop(r)') <= LimitIn(saved', r)
             /\ Cardinality(ByLoop(r)') <= LimitIn(file', r)
  <2>1. ByLoop(r)' \subseteq ByLoop(r)
    BY LoopStays DEF ByLoop
  <2>2. IsFiniteSet(ByLoop(r)) /\ Cardinality(ByLoop(r)) \in Nat
    BY LoopSpends
  <2>3. Cardinality(ByLoop(r)') <= Cardinality(ByLoop(r)) /\ Cardinality(ByLoop(r)') \in Nat
    BY <2>1, <2>2, FS_Subset, FS_CardinalityType
  <2>4. LimitIn(saved', r) \in Int /\ Cardinality(ByLoop(r)) <= LimitIn(saved', r)
    BY LimitIs
  <2>5. LimitIn(file', r) \in Int /\ Cardinality(ByLoop(r)) <= LimitIn(file', r)
    BY LimitIs
  <2> QED BY <2>2, <2>3, <2>4, <2>5
<1>3. (\A r \in Ids : Cardinality(ByLoop(r)) <= RepairLimit(r))'
      /\ (\A r \in Ids : Cardinality(ByLoop(r)) <= LimitIn(file, r))'
  BY <1>2 DEF RepairLimit, LimitIn
<1> QED BY <1>1, <1>3 DEF LoopInv, RepairsBounded

\* What becomes of the command: it is gone, or it is the same, outdated or still
\* about the snapshot.
StaysFit ==
  \/ command' = NoCommand
  \/ /\ command.at # "none" /\ command'.at # "none" /\ command' \in Commands
     /\ command'.by = command.by /\ command'.kind = command.kind
     /\ command'.task = command.task
     /\ \/ command'.stale
        \/ ~command.stale /\ ~behind' /\ view'.tasks = view.tasks

LEMMA CommandIs ==
  ASSUME AutopilotInv
  PROVE  /\ command \in Commands /\ NoCommand \in Commands
         /\ command = NoCommand <=> command.at = "none"
         /\ command.at # "none" /\ ~command.stale => ~behind
         /\ command.by = "autopilot" => saved.phase = "running"
         /\ command.kind = "dispatch" => command.by \in {"autopilot", "user"}
         /\ command.kind = "dispatch" /\ command.by = "autopilot" => ~saved.paused \/ overridden
<1>1. NoCommand \in Commands
  BY DEF NoCommand, Commands, CommandKinds
<1> QED BY <1>1 DEF AutopilotInv, CommandInv, CommandTypeOK, NoCommand

LEMMA KeepCarries ==
  ASSUME AutopilotInv, UNCHANGED <<store, command>>, Load \/ UNCHANGED <<view, behind>>
  PROVE  StaysFit
<1>1. ~behind => view.tasks = tasks
  BY DEF AutopilotInv, ViewInv
<1>2. view'.tasks = tasks \/ view'.tasks = view.tasks
  BY DEF Load, store
<1>3. ~behind => ~behind'
  BY DEF Load
<1> QED BY <1>1, <1>2, <1>3, CommandIs DEF StaysFit

LEMMA DisableCarries ==
  ASSUME AutopilotInv, UNCHANGED store, Disable, Load \/ UNCHANGED <<view, behind>>
  PROVE  StaysFit /\ dispatching' = FALSE /\ command'.kind # "dispatch"
<1>1. command' = NoCommand \/ (UNCHANGED command /\ command.kind # "dispatch")
  BY DEF Disable
<1>2. StaysFit
  BY <1>1, KeepCarries DEF StaysFit
<1> QED BY <1>1, <1>2 DEF Disable, NoCommand

LEMMA OutdateCarries ==
  ASSUME AutopilotInv, Outdate
  PROVE  StaysFit
<1>1. CASE command = NoCommand
  BY <1>1 DEF Outdate, StaysFit
<1>2. CASE command # NoCommand
  <2>1. PICK c \in Commands : c = command
    BY CommandIs
  <2>2. [c EXCEPT !.stale = TRUE] \in Commands
    BY DEF Commands
  <2>3. command' = [c EXCEPT !.stale = TRUE] /\ command.at # "none"
    BY <1>2, <2>1, CommandIs DEF Outdate
  <2> QED BY <2>1, <2>2, <2>3 DEF StaysFit, Commands
<1> QED BY <1>1, <1>2

\* What a carried command still says of the run.
Fits ==
  command' # NoCommand =>
     /\ command'.by = "autopilot" =>
           saved'.phase = "running" /\ UNCHANGED saved.limits
     /\ command'.kind = "dispatch" /\ command'.by = "autopilot" => ~saved'.paused \/ overridden'

LEMMA CommandFrame ==
  ASSUME AutopilotInv, StoreMoves, StaysFit, Fits,
         ownerLast' \in {"none", "ok", "refused", "transient"}
  PROVE  CommandInv' /\ RepairInv'
<1>1. StoreInv /\ ViewInv /\ CommandInv /\ RepairInv
  BY DEF AutopilotInv
<1>2. Existing(view) \subseteq Existing(view)' /\ Len(tasks) <= Len(tasks') /\ Len(tasks) \in Nat
      /\ Len(tasks') \in Nat
  BY <1>1, MovesFacts, StoreIs DEF StoreMoves, Grows
<1>3. CASE command' = NoCommand
  <2>1. CommandTypeOK'
    BY <1>2, <1>3, CommandIs DEF CommandTypeOK, NoCommand
  <2> QED BY <1>3, <2>1 DEF CommandInv, RepairInv, NoCommand
<1>4. CASE command' # NoCommand
  <2>1. /\ command.at # "none" /\ command'.at # "none" /\ command' \in Commands
        /\ command'.by = command.by /\ command'.kind = command.kind
        /\ command'.task = command.task
        /\ \/ command'.stale
           \/ ~command.stale /\ ~behind' /\ view'.tasks = view.tasks
        /\ command'.by = "autopilot" => saved'.phase = "running" /\ UNCHANGED saved.limits
        /\ command'.kind = "dispatch" /\ command'.by = "autopilot"
              => ~saved'.paused \/ overridden'
    BY <1>4 DEF StaysFit, Fits
  <2>2. CommandTypeOK'
    BY <1>1, <1>2, <2>1 DEF CommandInv, CommandTypeOK, Commands
  <2>3. CommandInv'
    BY <1>1, <1>2, <2>1, <2>2 DEF CommandInv
  <2>4. RepairInv'
    BY <1>1, <2>1 DEF RepairInv, Status, RootOf, Repairs, Spent, RepairLimit, LimitIn,
       Existing
  <2> QED BY <2>3, <2>4
<1> QED BY <1>3, <1>4

LEMMA KeepFits ==
  ASSUME AutopilotInv, StaysFit, UNCHANGED saved, overridden => overridden'
  PROVE  Fits
<1>1. command' # NoCommand => command'.by = command.by /\ command'.kind = command.kind
  BY DEF StaysFit
<1> QED BY <1>1, CommandIs DEF Fits

LEMMA Still ==
  ASSUME AutopilotInv, UNCHANGED <<store, capacity>>, Load \/ UNCHANGED <<view, behind>>
  PROVE  StoreMoves
BY StillThere DEF StoreMoves, Looks, Shows, Load, AutopilotInv

LEMMA OwnersCommand ==
  ASSUME StaysFit
  PROVE  /\ command'.by = "owner" => command.by = "owner" /\ command'.kind = command.kind
                                     /\ command'.task = command.task
         /\ command'.by = "autopilot" => command.by = "autopilot"
BY DEF StaysFit, NoCommand

LEMMA LastIs ==
  ASSUME AutopilotInv
  PROVE  /\ last \in [key : Keys \cup {NoKey}, transient : BOOLEAN]
         /\ ownerLast \in {"none", "ok", "refused", "transient"}
BY DEF AutopilotInv, MemoryInv, MemoryTypeOK, CommandInv, CommandTypeOK

\* A step that leaves the run, the instruction and the repairs alone.
LEMMA Aside ==
  ASSUME AutopilotInv, StoreMoves, StaysFit, Load \/ UNCHANGED attempts,
         UNCHANGED <<saved, file, saveFaults, job, transient, recovering, item, ownerTransient,
                     automatic>>,
         last' \in [key : Keys \cup {NoKey}, transient : BOOLEAN],
         ownerLast' \in {"none", "ok", "refused", "transient"},
         workers' \subseteq Existing(view), flagged' \subseteq workers',
         dispatching' \in BOOLEAN, contended' \in BOOLEAN,
         overridden' \in BOOLEAN, overridden => overridden',
         dispatching' \in {dispatching, FALSE} \/ PausedIsQuiet'
  PROVE  AutopilotInv'
<1>1. StoreInv' /\ ViewInv' /\ 1..Len(tasks) \subseteq 1..Len(tasks')
  BY MovesFacts DEF AutopilotInv
<1>2. RunInv'
  BY SavedFrame, OwnersCommand DEF AutopilotInv, RunInv
<1>3. MemoryInv'
  <2>1. Afresh
    BY DEF Load, Afresh
  <2> QED BY <2>1, MemoryFrame
<1>4. Fits
  BY KeepFits
<1>5. CommandInv' /\ RepairInv'
  BY <1>4, CommandFrame
<1>6. ItemInv'
  BY ItemFrame, OwnersCommand
<1>7. WorkInv'
  <2>1. Existing(view) \subseteq 1..Len(tasks')
    BY <1>1, StoreIs DEF AutopilotInv
  <2>2. PausedIsQuiet'
    BY QuietStays
  <2> QED BY <2>1, <2>2 DEF WorkInv, WorkTypeOK
<1>8. LoopInv'
  BY LoopFrame, BothFit
<1> QED BY <1>1, <1>2, <1>3, <1>5, <1>6, <1>7, <1>8 DEF AutopilotInv

\* The run is paused.
LEMMA HaltIs ==
  ASSUME AutopilotInv, NEW s, RunFits(s), IsActive(s), s.limits = saved.limits, Halt(s),
         command'.by = "autopilot" => command.by = "autopilot"
  PROVE  /\ RunMoves /\ dispatching' = FALSE /\ saved'.paused = TRUE
         /\ saved'.phase = s.phase /\ saved'.limits = s.limits
<1>1. PICK r \in Runs : r = s
  BY DEF RunFits
<1>2. PICK w : w = [r EXCEPT !.paused = TRUE]
  OBVIOUS
<1>3. /\ w \in Runs /\ w.roots = s.roots /\ w.retry = s.retry /\ w.phase = s.phase
      /\ w.stale = s.stale /\ w.through = s.through /\ w.limits = s.limits /\ w.paused = TRUE
  BY <1>1, <1>2 DEF Runs
<1>4. RunFits(w) /\ Persist(w)
  BY <1>1, <1>2, <1>3 DEF RunFits, RunIn, Halt
<1>5. /\ RunFits(saved') /\ RunFits(file') /\ saveFaults' \in Nat /\ (Running' => file' = saved')
      /\ saved'.phase = w.phase /\ saved'.limits = w.limits /\ (file' = w \/ file' = file)
      /\ saved' = w \/ saved'.paused = IsActive(w)
  BY <1>4, PersistIs
<1>6. IsActive(w) = TRUE
  BY <1>3 DEF IsActive
<1>7. overridden' = FALSE /\ dispatching' = FALSE
  BY DEF Halt, Disable
<1>8. command'.by = "autopilot" => file'.limits = saved'.limits
  BY <1>3, <1>5, BothFit
<1> QED BY <1>3, <1>5, <1>6, <1>7, <1>8 DEF RunMoves

\* The run is paused, or is as it was.
LEMMA Halts ==
  ASSUME AutopilotInv,
         UNCHANGED <<store, view, behind, capacity, memory, owner, job, automatic, workers>>,
         \/ Active /\ Halt(saved)
         \/ UNCHANGED <<stateFile, command>> /\ dispatching' \in {dispatching, FALSE},
         flagged' \subseteq workers, contended' \in BOOLEAN
  PROVE  AutopilotInv' /\ (Active /\ Halt(saved) => saved'.paused)
<1>1. StoreMoves
  BY Still
<1>2. StoreInv' /\ ViewInv' /\ 1..Len(tasks) \subseteq 1..Len(tasks')
  BY <1>1, MovesFacts DEF AutopilotInv
<1>3. /\ recovering' \cup workers' \subseteq Existing(view)
      /\ job' \in [at : {"none", "composing", "made", "refused"}, round : Nat, sources : SUBSET Nat]
      /\ job' # NoJob => saved.phase = "finishing"
      /\ dispatching \in BOOLEAN /\ workers \subseteq 1..Len(tasks)
  BY DEF AutopilotInv, RunInv, RunTypeOK, WorkInv, WorkTypeOK, memory
<1>4. CASE Active /\ Halt(saved)
  <2>1. StaysFit /\ dispatching' = FALSE /\ command'.kind # "dispatch"
    BY <1>4, DisableCarries DEF Halt
  <2>2. /\ RunMoves /\ saved'.paused = TRUE
        /\ saved'.phase = saved.phase /\ saved'.limits = saved.limits
    BY <1>4, <2>1, HaltIs, BothFit, OwnersCommand DEF Active
  <2>3. RunInv' /\ LoopInv'
    BY <1>1, <1>3, <2>2, RunFrame, LoopFrame DEF RunMoves
  <2>4. MemoryInv'
    BY <1>1, <2>2, MemoryFrame, LastIs DEF memory, owner, Afresh
  <2>5. Fits
    <3>1. command' # NoCommand => command'.by = command.by
      BY <2>1 DEF StaysFit
    <3> QED BY <2>1, <2>2, <3>1, CommandIs DEF Fits
  <2>6. CommandInv' /\ RepairInv' /\ ItemInv'
    BY <1>1, <2>1, <2>5, CommandFrame, LastIs, ItemFrame, OwnersCommand DEF owner
  <2>7. WorkInv'
    <3>1. PausedIsQuiet'
      BY <2>1 DEF PausedIsQuiet
    <3> QED BY <1>2, <1>3, <2>1, <3>1 DEF WorkInv, WorkTypeOK
  <2> QED BY <1>2, <2>2, <2>3, <2>4, <2>6, <2>7 DEF AutopilotInv
<1>5. CASE UNCHANGED <<stateFile, command>> /\ dispatching' \in {dispatching, FALSE}
             /\ ~(Active /\ Halt(saved))
  <2>1. StaysFit
    BY <1>5, KeepCarries
  <2>2. overridden' \in BOOLEAN /\ (overridden => overridden') /\ UNCHANGED <<saved, file, saveFaults>>
    BY <1>5, BothFit DEF stateFile
  <2>3. dispatching' \in BOOLEAN /\ workers' \subseteq Existing(view) /\ flagged' \subseteq workers'
    BY <1>3, <1>5
  <2> QED BY <1>1, <1>5, <2>1, <2>2, <2>3, Aside, LastIs DEF memory, owner
<1> QED BY <1>4, <1>5

-----------------------------------------------------------------------------
(* Workers, the barrier and the user. *)

LEMMA WorkIs ==
  ASSUME AutopilotInv
  PROVE  /\ workers \subseteq Existing(view) /\ flagged \subseteq workers
         /\ dispatching \in BOOLEAN /\ contended \in BOOLEAN /\ overridden \in BOOLEAN
         /\ workers \subseteq 1..Len(tasks)
BY DEF AutopilotInv, WorkInv, WorkTypeOK, RunInv, RunTypeOK

LEMMA LaunchOK ==
  ASSUME AutopilotInv, NEW t \in 1..Len(tasks), Launch(t)
  PROVE  AutopilotInv'
<1>1. StoreMoves /\ StaysFit
  BY Still, KeepCarries DEF Launch, bounds
<1>2. workers' = workers \cup {t} /\ t \in Existing(view)
  BY DEF Launch, Spawn, CanLaunch
<1> QED BY <1>1, <1>2, Aside, WorkIs, LastIs DEF Launch, stateFile, memory, owner,
       branch

LEMMA ClaimOK ==
  ASSUME AutopilotInv, NEW t \in 1..Len(tasks), Claim(t)
  PROVE  AutopilotInv'
<1>1. StoreMoves
  <2>1. PICK new : new = [tasks[t] EXCEPT !.status = "Running", !.run = TRUE]
    OBVIOUS
  <2>2. StoreInv /\ "Running" \in Statuses
    <3>1. StoreInv
      BY Zenon DEF AutopilotInv
    <3> QED BY <3>1 DEF Statuses
  <2>3. tasks[t] \in Tasks /\ new \in Tasks
    BY <2>1, <2>2, ChangesOf
  <2>4. new.root = tasks[t].root /\ new.of = tasks[t].of /\ new.needs = tasks[t].needs
    BY <2>1, <2>3 DEF Tasks
  <2>5. tasks' = [tasks EXCEPT ![t] = new]
    BY <2>1 DEF Claim
  <2>6. tasks[t].status \notin Broken \cup {"Accepted", "Rejected"} /\ ~Dropped(tasks[t])
    BY DEF Claim, Broken, Dropped
  <2>7. Grows
    BY <2>2, <2>3, <2>4, <2>5, <2>6, StatusMoves DEF Claim, bounds
  <2> QED BY <2>7 DEF StoreMoves, Looks, Claim
<1>2. StaysFit
  BY OutdateCarries DEF Claim
<1> QED BY <1>1, <1>2, Aside, WorkIs, LastIs DEF Claim, stateFile, memory, owner,
       branch, work

LEMMA ClaimRefusedOK ==
  ASSUME AutopilotInv, NEW t \in 1..Len(tasks), ClaimRefused(t)
  PROVE  AutopilotInv'
<1>1. UNCHANGED <<store, capacity>> /\ Load
  BY DEF ClaimRefused, Load, store, bounds
<1>2. StoreMoves
  BY <1>1, Still
<1>3. workers' \subseteq Existing(view) /\ flagged' \subseteq workers'
  BY WorkIs DEF ClaimRefused
<1>4. CASE UNCHANGED <<contended, dispatching, command>>
  BY <1>1, <1>2, <1>3, <1>4, KeepCarries, Aside, WorkIs, LastIs DEF ClaimRefused, stateFile,
     owner, branch
<1>5. CASE contended' = TRUE /\ Disable
  <2>1. StaysFit /\ dispatching' = FALSE
    BY <1>1, <1>5, DisableCarries
  <2> QED BY <1>1, <1>2, <1>3, <1>5, <2>1, Aside, WorkIs, LastIs DEF ClaimRefused, stateFile,
     owner, branch
<1> QED BY <1>4, <1>5 DEF ClaimRefused, Defer

LEMMA EndRunOK ==
  ASSUME AutopilotInv, NEW t \in 1..Len(tasks), EndRun(t)
  PROVE  AutopilotInv'
<1>1. StoreMoves
  <2>1. PICK status \in {"ReviewReady"} \cup Broken \cup {"Cancelled"} : SetStatus(t, status)
    BY DEF EndRun
  <2>2. status \in Statuses
    BY <2>1 DEF Statuses
  <2>3. tasks[t].status \notin Broken \cup {"Accepted", "Rejected"} /\ ~Dropped(tasks[t])
    BY DEF EndRun, Broken, Dropped
  <2>4. Grows
    BY <2>1, <2>2, <2>3, SetStatusOK DEF EndRun, bounds, AutopilotInv
  <2> QED BY <2>4 DEF StoreMoves, Looks, Shows, Load, EndRun
<1>2. StaysFit
  BY OutdateCarries DEF EndRun
<1>3. workers' \subseteq Existing(view) /\ flagged' \subseteq workers'
  BY WorkIs DEF EndRun
<1> QED BY <1>1, <1>2, <1>3, Aside, WorkIs, LastIs DEF EndRun, stateFile, owner, branch,
       launching

LEMMA RefreshOK ==
  ASSUME AutopilotInv, Refresh
  PROVE  AutopilotInv'
<1>1. StoreMoves /\ StaysFit
  BY Still, KeepCarries DEF Refresh, bounds
<1> QED BY <1>1, Aside, WorkIs, LastIs DEF Refresh, stateFile, owner, branch, launching, work

LEMMA WithdrawOK ==
  ASSUME AutopilotInv, Withdraw
  PROVE  AutopilotInv'
<1>1. StoreMoves /\ StaysFit
  BY Still DEF Withdraw, bounds, StaysFit
<1> QED BY <1>1, Aside, WorkIs, LastIs DEF Withdraw, stateFile, memory, owner, branch, launching,
       work

LEMMA OpenBarrierOK ==
  ASSUME AutopilotInv, OpenBarrier
  PROVE  AutopilotInv'
<1>1. StoreMoves
  BY Still DEF OpenBarrier, bounds
<1>2. StaysFit
  <2>1. PICK c \in Commands : c = command
    BY CommandIs
  <2>2. [c EXCEPT !.at = "sent"] \in Commands
    BY DEF Commands
  <2>3. command' = [c EXCEPT !.at = "sent"] /\ c.at = "barrier"
    BY <2>1 DEF OpenBarrier
  <2>4. c.stale \/ ~behind'
    BY <2>1, <2>3, CommandIs DEF OpenBarrier
  <2> QED BY <2>1, <2>2, <2>3, <2>4 DEF StaysFit, Commands, OpenBarrier
<1> QED BY <1>1, <1>2, Aside, WorkIs, LastIs DEF OpenBarrier, stateFile, memory, owner, branch,
       launching, work

LEMMA AnswerIs ==
  ASSUME AutopilotInv, NEW outcome \in {"ok", "refused", "transient"}, Answered(outcome)
  PROVE  /\ command' = NoCommand /\ StaysFit
         /\ last' \in [key : Keys \cup {NoKey}, transient : BOOLEAN]
         /\ ownerLast' \in {"none", "ok", "refused", "transient"}
<1>1. PICK l \in [key : Keys \cup {NoKey}, transient : BOOLEAN] : l = last
  BY LastIs
<1>2. [l EXCEPT !.transient = outcome = "transient"]
         \in [key : Keys \cup {NoKey}, transient : BOOLEAN]
  OBVIOUS
<1> QED BY <1>1, <1>2, LastIs DEF Answered, StaysFit

LEMMA EnableDispatchOK ==
  ASSUME AutopilotInv, EnableDispatch
  PROVE  AutopilotInv'
<1>1. StoreMoves
  BY Still DEF EnableDispatch, bounds
<1>2. /\ StaysFit /\ last' \in [key : Keys \cup {NoKey}, transient : BOOLEAN]
      /\ ownerLast' \in {"none", "ok", "refused", "transient"}
  BY AnswerIs DEF EnableDispatch
<1>3. dispatching' \in BOOLEAN /\ command.kind = "dispatch"
  BY WorkIs, CommandIs DEF EnableDispatch
<1>4. overridden' \in BOOLEAN /\ (overridden => overridden') /\ UNCHANGED saved
  BY WorkIs DEF EnableDispatch
<1>5. PausedIsQuiet'
  <2>1. command.by = "user" \/ (command.by = "autopilot" /\ (~saved.paused \/ overridden))
    BY <1>3, CommandIs
  <2>2. saved'.paused => overridden'
    BY <1>4, <2>1 DEF EnableDispatch
  <2> QED BY <2>2 DEF PausedIsQuiet
<1> QED BY <1>1, <1>2, <1>3, <1>4, <1>5, Aside, WorkIs DEF EnableDispatch, branch, work

LEMMA StartOwnerOK ==
  ASSUME AutopilotInv, StartOwner
  PROVE  AutopilotInv'
<1>1. StoreMoves
  BY Still DEF StartOwner, bounds
<1>2. /\ StaysFit /\ last' \in [key : Keys \cup {NoKey}, transient : BOOLEAN]
      /\ ownerLast' \in {"none", "ok", "refused", "transient"}
  BY AnswerIs DEF StartOwner
<1>3. workers' \subseteq Existing(view) /\ flagged \subseteq workers'
  BY WorkIs DEF StartOwner, Spawn, CanLaunch
<1> QED BY <1>1, <1>2, <1>3, Aside, WorkIs DEF StartOwner, stateFile, branch

LEMMA CancelOwnerOK ==
  ASSUME AutopilotInv, CancelOwner
  PROVE  AutopilotInv'
<1>1. StoreMoves
  BY Still DEF CancelOwner, bounds
<1>2. /\ StaysFit /\ last' \in [key : Keys \cup {NoKey}, transient : BOOLEAN]
      /\ ownerLast' \in {"none", "ok", "refused", "transient"}
  BY AnswerIs DEF CancelOwner
<1>3. flagged' \subseteq workers
  BY WorkIs DEF CancelOwner
<1> QED BY <1>1, <1>2, <1>3, Aside, WorkIs DEF CancelOwner, stateFile, branch, launching

LEMMA CancelWorkerOK ==
  ASSUME AutopilotInv, NEW t \in 1..Len(tasks), CancelWorker(t)
  PROVE  AutopilotInv'
<1>1. StoreMoves /\ StaysFit
  BY Still, KeepCarries DEF CancelWorker, bounds, Input
<1> QED BY <1>1, Aside, WorkIs, LastIs DEF CancelWorker, stateFile, memory, owner, branch,
       launching, Input

LEMMA WriteOK ==
  ASSUME AutopilotInv, NEW t \in 1..Len(tasks), NEW kind, Write(kind, t)
  PROVE  AutopilotInv'
<1>1. StoreMoves
  BY ApplyOK DEF Write, Input, StoreMoves, Looks, AutopilotInv
<1>2. StaysFit
  BY OutdateCarries DEF Write
<1> QED BY <1>1, <1>2, Aside, WorkIs, LastIs DEF Write, stateFile, memory, owner, branch,
       launching, work

LEMMA PauseOK ==
  ASSUME AutopilotInv, Pause \/ Stop \/ TickContended
  PROVE  AutopilotInv'
<1>1. CASE Pause
  BY <1>1, Halts, WorkIs DEF Pause, Input, branch, work
<1>2. CASE Stop
  BY <1>2, Halts, WorkIs DEF Stop, Input, branch
<1>3. CASE TickContended
  BY <1>3, Halts, WorkIs DEF TickContended, bounds, branch, work, Running
<1> QED BY <1>1, <1>2, <1>3

LEMMA DispatchOffOK ==
  ASSUME AutopilotInv, DispatchOff
  PROVE  AutopilotInv'
<1>1. StoreMoves
  BY Still DEF DispatchOff, Input
<1>2. StaysFit /\ dispatching' = FALSE
  BY DisableCarries DEF DispatchOff
<1> QED BY <1>1, <1>2, Aside, WorkIs, LastIs DEF DispatchOff, stateFile, memory, owner, branch,
       work

\* A command of the user's own.
LEMMA TypedOK ==
  ASSUME AutopilotInv, NEW kind, NEW t, Type(kind, t),
         \/ kind = "dispatch" /\ t = 0
         \/ kind = "run" /\ t \in Existing(view)
  PROVE  AutopilotInv'
<1>1. StoreInv /\ ViewInv /\ CommandInv
  BY DEF AutopilotInv
<1>2. StoreMoves
  BY Still DEF Type, Input
<1>3. PICK c : c = [by |-> "user", kind |-> kind, task |-> t, at |-> "barrier", stale |-> behind]
  OBVIOUS
<1>4. command' = c
  BY <1>3 DEF Type
<1>5. t \in Nat /\ t <= Len(tasks)
  BY <1>1, ViewIs, StoreIs
<1>6. c \in Commands
  BY <1>1, <1>3, <1>5, StoreIs DEF Commands, CommandKinds, Kinds
<1>7. CommandInv' /\ RepairInv'
  BY <1>1, <1>3, <1>4, <1>5, <1>6 DEF Type, owner, store, CommandInv, CommandTypeOK, RepairInv,
     Existing
<1>8. overridden' \in BOOLEAN /\ overridden' = overridden /\ UNCHANGED <<saved, file, saveFaults>>
  BY WorkIs DEF Type, stateFile
<1>9. RunInv'
  BY <1>2, <1>3, <1>4, <1>8, SavedFrame DEF Type, memory, work, branch, AutopilotInv, RunInv
<1>10. RunFits(saved') /\ RunFits(file')
  BY <1>8, BothFit
<1>11. MemoryInv' /\ LoopInv'
  BY <1>2, <1>8, <1>10, MemoryFrame, LoopFrame, LastIs DEF Type, memory, owner, Afresh
<1>12. ItemInv' /\ WorkInv'
  <2>1. PausedIsQuiet'
    BY <1>8, QuietStays DEF Type, launching
  <2> QED BY <1>2, <1>3, <1>4, <2>1, ItemFrame, WorkFrame DEF Type, owner, launching, work
<1> QED BY <1>1, <1>2, <1>7, <1>9, <1>11, <1>12, MovesFacts DEF AutopilotInv

-----------------------------------------------------------------------------
(* The commands. *)

\* A repair that the loop saves is of a task that failed, within the limit.
LEMMA LoopRepairs ==
  ASSUME AutopilotInv, StoreMoves, Load, UNCHANGED <<saved, file>>, file.limits = saved.limits,
         NEW t \in 1..Len(tasks),
         Propose(tasks[t].root, t, tasks[t].needs), UNCHANGED resolved, Len(tasks) < capacity,
         UNCHANGED capacity, Status(view, t) \in Broken, view.tasks = tasks,
         Repairs(view, tasks[t].root) < RepairLimit(tasks[t].root),
         automatic' = automatic \cup {Len(tasks')}
  PROVE  LoopInv'
<1> DEFINE root == tasks[t].root
<1>0. PICK n : n = Len(tasks')
  OBVIOUS
<1>1. StoreInv /\ ViewInv /\ LoopInv
  BY DEF AutopilotInv
<1>2. /\ n = Len(tasks) + 1 /\ tasks'[n].of = t /\ tasks'[n].root = root /\ n \in Nat
      /\ tasks'[t] = tasks[t] /\ t \in Nat /\ t # 0
  BY <1>0, <1>1, AppliesRepair, StoreIs
<1>3. Existing(view)' = 1..n /\ view'.tasks = tasks'
  BY <1>0 DEF Load, Existing
<1>4. /\ n \in Existing(view)' /\ view'.tasks[n].of # 0
      /\ Status(view, view.tasks[n].of)' \in Broken
  BY <1>1, <1>2, <1>3 DEF Status
<1>5. /\ automatic' \subseteq Existing(view)'
      /\ \A q \in automatic' : /\ view'.tasks[q].of # 0
                               /\ Status(view, view.tasks[q].of)' \in Broken
  BY <1>0, <1>4, LoopStays
<1>6. ASSUME NEW r \in Ids PROVE Cardinality(ByLoop(r)') <= LimitIn(saved, r)
  <2>1. ByLoop(r)' \subseteq ByLoop(r) \cup {n} /\ (r # root => ByLoop(r)' \subseteq ByLoop(r))
    BY <1>0, <1>2, LoopStays DEF ByLoop
  <2>2. IsFiniteSet(ByLoop(r)) /\ Cardinality(ByLoop(r)) \in Nat
        /\ Cardinality(ByLoop(r)) <= Repairs(view, r) /\ Repairs(view, r) \in Nat
    BY LoopSpends
  <2>3. /\ IsFiniteSet(ByLoop(r) \cup {n}) /\ Cardinality(ByLoop(r) \cup {n}) \in Nat
        /\ Cardinality(ByLoop(r) \cup {n}) <= Cardinality(ByLoop(r)) + 1
    <3>1. PICK S : S = ByLoop(r)
      OBVIOUS
    <3>2. IsFiniteSet(S \cup {n})
          /\ Cardinality(S \cup {n}) = IF n \in S THEN Cardinality(S) ELSE Cardinality(S) + 1
      BY <2>2, <3>1, FS_AddElement
    <3> QED BY <2>2, <3>1, <3>2
  <2>4. LimitIn(saved, r) \in Int /\ Cardinality(ByLoop(r)) <= LimitIn(saved, r)
    BY BothFit, LimitIs
  <2>5. CASE r = root
    <3>1. Cardinality(ByLoop(r)') <= Cardinality(ByLoop(r) \cup {n})
          /\ Cardinality(ByLoop(r)') \in Nat
      BY <2>1, <2>3, FS_Subset, FS_CardinalityType
    <3>2. Repairs(view, r) < LimitIn(saved, r)
      BY <2>5 DEF RepairLimit
    <3> QED BY <2>2, <2>3, <2>4, <3>1, <3>2
  <2>6. CASE r # root
    <3>1. Cardinality(ByLoop(r)') <= Cardinality(ByLoop(r)) /\ Cardinality(ByLoop(r)') \in Nat
      BY <2>1, <2>2, <2>6, FS_Subset, FS_CardinalityType
    <3> QED BY <2>2, <2>4, <3>1
  <2> QED BY <2>5, <2>6
<1>7. /\ (\A r \in Ids : Cardinality(ByLoop(r)) <= RepairLimit(r))'
      /\ (\A r \in Ids : Cardinality(ByLoop(r)) <= LimitIn(file, r))'
  BY <1>6 DEF RepairLimit, LimitIn
<1> QED BY <1>5, <1>7 DEF LoopInv, RepairsBounded

\* What the owner's command makes is noted.
LEMMA OwnerMakes ==
  ASSUME AutopilotInv, StoreMoves, Load, command' = NoCommand, command.at = "sent",
         command.by = "owner", Apply(command.kind, command.task), UNCHANGED capacity,
         command.kind \in {"repair", "review-repair", "follow-up"},
         item' = [item EXCEPT !.created = Len(tasks')]
  PROVE  ItemInv'
<1>1. StoreInv /\ ViewInv /\ ItemInv /\ CommandInv
  BY DEF AutopilotInv
<1>2. command.task \in 1..Len(tasks)
  BY <1>1, ViewIs DEF CommandInv
<1>3. /\ Len(tasks') = Len(tasks) + 1 /\ Len(tasks) \in Nat
      /\ command.kind = "review-repair" => tasks'[command.task].status = "Rejected"
      /\ command.kind = "follow-up" => tasks'[Len(tasks')].root = Len(tasks')
  BY <1>1, <1>2, AppliesRepair, AppliesFollowUp, AppliesReviewRepair, StoreIs DEF Apply, CanRepair
<1>4. PICK i \in Items : i = item
  BY <1>1 DEF ItemInv, ItemTypeOK
<1>5. PICK k \in Nat : k = Len(tasks')
  BY <1>3
<1>6. /\ item' \in Items /\ item'.root = item.root /\ item'.task = item.task
      /\ item'.effect = item.effect /\ item'.created = k
  BY <1>4, <1>5 DEF Items
<1>7. Existing(view)' = 1..k /\ view'.tasks = tasks' /\ k # 0
  BY <1>3, <1>5 DEF Load, Existing
<1>8. /\ item.root # 0 /\ {item.root, item.task} \subseteq Existing(view)
      /\ item.created = 0
      /\ command.kind = "repair" => item.effect \in {"Repair", "AfterCheck"}
      /\ command.kind = "review-repair" => item.effect = "ReviewRepair" /\ command.task = item.task
      /\ command.kind = "follow-up" => item.effect = "FollowUp"
  BY <1>1 DEF ItemInv
<1>9. {item.root, item.task} \subseteq Existing(view)'
  BY <1>1, <1>8, MovesFacts
<1>10. ItemTypeOK'
  BY <1>3, <1>5, <1>6, <1>7, <1>9 DEF ItemTypeOK
<1>11. /\ item'.effect \notin {"none", "Steer"}
       /\ item'.effect = "FollowUp" => RootOf(view, item.created)' = item'.created
       /\ item'.effect = "ReviewRepair" => Status(view, item.task)' = "Rejected"
  BY <1>3, <1>5, <1>6, <1>7, <1>8 DEF RootOf, Status
<1>12. k \in 1..k
  BY <1>7
<1> QED BY <1>6, <1>7, <1>8, <1>9, <1>10, <1>11, <1>12 DEF ItemInv, NoCommand

LEMMA TransactOK ==
  ASSUME AutopilotInv, Transact
  PROVE  AutopilotInv'
<1>0. StoreInv /\ ViewInv /\ CommandInv
  BY DEF AutopilotInv
<1>1. CASE UNCHANGED <<store, item, automatic>> /\ (Load \/ UNCHANGED <<view, behind, attempts>>)
           /\ \E outcome \in {"refused", "transient"} : Answered(outcome)
  <2>1. StoreMoves
    BY <1>1, Still DEF Transact, bounds
  <2>2. /\ StaysFit /\ last' \in [key : Keys \cup {NoKey}, transient : BOOLEAN]
        /\ ownerLast' \in {"none", "ok", "refused", "transient"}
    BY <1>1, AnswerIs
  <2> QED BY <1>1, <2>1, <2>2, Aside, WorkIs DEF Transact, stateFile, branch, launching, work
<1>2. CASE /\ ~command.stale /\ Apply(command.kind, command.task) /\ Load /\ Answered("ok")
           /\ item' = IF command.kind \in {"repair", "review-repair", "follow-up"}
                         /\ command.by = "owner"
                      THEN [item EXCEPT !.created = Len(tasks')] ELSE item
           /\ automatic' = IF command.kind = "repair" /\ command.by = "autopilot"
                           THEN automatic \cup {Len(tasks')} ELSE automatic
  <2>1. command.task \in Existing(view) /\ command.task \in 1..Len(tasks)
        /\ command.at = "sent" /\ ~behind
    BY <1>0, <1>2, ViewIs DEF CommandInv, Transact, NoCommand
  <2>2. StoreMoves
    BY <1>0, <1>2, <2>1, ApplyOK DEF Transact, bounds, StoreMoves, Looks, Shows, Load
  <2>3. /\ command' = NoCommand /\ StaysFit /\ Fits
        /\ last' \in [key : Keys \cup {NoKey}, transient : BOOLEAN]
        /\ ownerLast' \in {"none", "ok", "refused", "transient"}
    BY <1>2, AnswerIs DEF Fits
  <2>4. StoreInv' /\ ViewInv' /\ Len(tasks') \in Nat
    BY <1>0, <2>2, MovesFacts DEF StoreMoves, Grows
  <2>5. /\ UNCHANGED <<saved, file, saveFaults, overridden, job, recovering, workers, flagged,
                       dispatching, contended, transient, ownerTransient, capacity>>
        /\ Afresh
    BY <1>2 DEF Transact, stateFile, branch, launching, work, bounds, Load, Afresh
  <2>6. RunInv'
    BY <2>2, <2>3, <2>5, SavedFrame, WorkIs DEF AutopilotInv, RunInv, NoCommand
  <2>7. automatic' = automatic \/ automatic' = automatic \cup {Len(tasks')}
    BY <1>2
  <2>8. automatic' \subseteq 1..Len(tasks')
    <3>1. 1..Len(tasks) \subseteq 1..Len(tasks') /\ Len(tasks) <= Len(tasks')
      BY <1>0, <2>2, MovesFacts
    <3>2. Len(tasks') \in 1..Len(tasks')
      BY <2>1, <2>4, <3>1, <1>0, StoreIs
    <3>3. automatic \subseteq 1..Len(tasks)
      BY DEF AutopilotInv, MemoryInv, MemoryTypeOK
    <3> QED BY <2>7, <3>1, <3>2, <3>3
  <2>9. MemoryInv'
    BY <2>2, <2>3, <2>5, <2>8, MemoryFrame
  <2>10. CommandInv' /\ RepairInv'
    BY <2>2, <2>3, CommandFrame
  <2>11. ItemInv'
    <3>1. CASE command.kind \in {"repair", "review-repair", "follow-up"} /\ command.by = "owner"
      BY <1>2, <2>1, <2>2, <2>3, <2>5, <3>1, OwnerMakes
    <3>2. CASE ~(command.kind \in {"repair", "review-repair", "follow-up"}
                 /\ command.by = "owner")
      <4>1. UNCHANGED item
        BY <1>2, <3>2
      <4> QED BY <2>2, <2>3, <4>1, ItemFrame, OwnersCommand
    <3> QED BY <3>1, <3>2
  <2>12. WorkInv'
    BY <2>2, <2>5, WorkFrame, QuietStays
  <2>13. LoopInv'
    <3>1. CASE command.kind = "repair" /\ command.by = "autopilot"
      <4>1. view.tasks = tasks
        BY <1>0, <2>1 DEF ViewInv
      <4>2. /\ Status(view, command.task) \in Broken
            /\ Repairs(view, tasks[command.task].root) < RepairLimit(tasks[command.task].root)
        BY <1>2, <3>1, <4>1 DEF AutopilotInv, RepairInv, RootOf
      <4>3. /\ Propose(tasks[command.task].root, command.task, tasks[command.task].needs)
            /\ UNCHANGED resolved /\ Len(tasks) < capacity
        BY <1>2, <3>1 DEF Apply, CanRepair
      <4>4. automatic' = automatic \cup {Len(tasks')} /\ Load /\ file.limits = saved.limits
        BY <1>2, <3>1, BothFit
      <4> QED BY <2>1, <2>2, <2>5, <4>1, <4>2, <4>3, <4>4, LoopRepairs
    <3>2. CASE ~(command.kind = "repair" /\ command.by = "autopilot")
      BY <1>2, <2>2, <2>5, <3>2, LoopFrame, BothFit
    <3> QED BY <3>1, <3>2
  <2> QED BY <2>4, <2>6, <2>9, <2>10, <2>11, <2>12, <2>13 DEF AutopilotInv
<1> QED BY <1>1, <1>2 DEF Transact

LEMMA ComposeOK ==
  ASSUME AutopilotInv, Compose
  PROVE  AutopilotInv'
<1>1. StoreMoves /\ StaysFit
  BY Still, KeepCarries DEF Compose, bounds
<1>2. RunInv'
  <2>1. PICK j \in [at : {"none", "composing", "made", "refused"}, round : Nat,
                    sources : SUBSET Nat] : j = job
    BY DEF AutopilotInv, RunInv, RunTypeOK
  <2>2. \A w \in {"made", "refused"} :
          [j EXCEPT !.at = w] \in [at : {"none", "composing", "made", "refused"}, round : Nat,
                                    sources : SUBSET Nat]
    OBVIOUS
  <2>3. PICK w \in {"made", "refused"} : job' = [j EXCEPT !.at = w]
    BY <2>1 DEF Compose
  <2>4. job # NoJob
    BY DEF Compose, NoJob
  <2>5. RunMoves
    BY RunStays, WorkIs DEF Compose, stateFile
  <2> QED BY <1>1, <2>2, <2>3, <2>4, <2>5, RunFrame DEF Compose, stateFile, memory, work,
          AutopilotInv, RunInv, RunTypeOK
<1>3. MemoryInv'
  BY <1>1, MemoryFrame, LastIs DEF Compose, stateFile, memory, owner, Afresh
<1>4. CommandInv' /\ RepairInv'
  BY <1>1, CommandFrame, KeepFits, LastIs DEF Compose, stateFile, owner, launching
<1>5. ItemInv' /\ WorkInv' /\ LoopInv'
  <2>1. PausedIsQuiet'
    BY QuietStays DEF Compose, stateFile, launching
  <2> QED BY <1>1, <2>1, ItemFrame, OwnersCommand, WorkFrame, LoopFrame, BothFit
          DEF Compose, stateFile, owner, launching, work
<1> QED BY <1>1, <1>2, <1>3, <1>4, <1>5, MovesFacts DEF AutopilotInv

-----------------------------------------------------------------------------
(* The state file. *)

LEMMA SavedIs ==
  ASSUME AutopilotInv
  PROVE  /\ saved \in Runs /\ saved.roots \cup saved.retry \subseteq Existing(view)
         /\ recovering \cup workers \subseteq Existing(view)
         /\ \A r \in saved.roots : RootOf(view, r) = r
         /\ saved.stale => saved.phase = "finishing"
         /\ saved.through <= Len(tasks) /\ saved.through \in Nat
         /\ job \in [at : {"none", "composing", "made", "refused"}, round : Nat,
                     sources : SUBSET Nat]
         /\ NoJob \in [at : {"none", "composing", "made", "refused"}, round : Nat,
                       sources : SUBSET Nat]
         /\ job # NoJob => saved.phase = "finishing"
         /\ Existing(view) \subseteq Nat
         /\ Active /\ saved.paused /\ dispatching => overridden
<1>1. Existing(view) \subseteq Nat
  BY ViewIs DEF AutopilotInv
<1>2. NoJob \in [at : {"none", "composing", "made", "refused"}, round : Nat, sources : SUBSET Nat]
  BY DEF NoJob
<1> QED BY <1>1, <1>2 DEF AutopilotInv, RunInv, RunTypeOK, RunOK, RunIn, Runs, WorkInv,
       PausedIsQuiet

LEMMA FreshMemory ==
  ASSUME AutopilotInv, StoreMoves, attempts' = NoAttempts, transient' \in {0, transient},
         ownerTransient' \in {0, ownerTransient},
         last' \in [key : Keys \cup {NoKey}, transient : BOOLEAN],
         recovering' \subseteq 1..Len(tasks), UNCHANGED automatic
  PROVE  MemoryInv'
<1>1. 1..Len(tasks) \subseteq 1..Len(tasks')
  BY MovesFacts DEF AutopilotInv
<1>2. Attempts \in Nat \ {0} /\ TransientLimit \in Nat \ {0}
  BY LoopConstants DEF AutopilotInv, StoreInv
<1>3. NoAttempts \in [Keys -> 0..Attempts + 1] /\ \A k \in Keys : NoAttempts[k] <= Attempts
  BY <1>2 DEF NoAttempts
<1> QED BY <1>1, <1>2, <1>3 DEF AutopilotInv, MemoryInv, MemoryTypeOK

LEMMA HeadsIn ==
  ASSUME AutopilotInv, NEW r \in saved.roots
  PROVE  HeadOf(view, r) \in Existing(view)
<1>1. view.tasks \in Seq(Tasks)
  BY StoreIs DEF AutopilotInv
<1>2. r \in Existing(view) /\ RootOf(view, r) = r
  BY SavedIs
<1> QED BY <1>1, <1>2, HeadIs

LEMMA FitsAs ==
  ASSUME AutopilotInv, NEW s \in Runs, s.roots = saved.roots, s.retry \subseteq Existing(view),
         s.stale => s.phase = "finishing", s.through <= Len(tasks),
         \A q \in Ids : s.limits[q] = saved.limits[q] \/ s.limits[q] >= Repairs(view, q)
  PROVE  RunFits(s)
BY SavedIs DEF RunFits, RunIn

\* A state is saved, or the run is paused for it, while the command stays.
LEMMA Writes ==
  ASSUME AutopilotInv, NEW s, RunFits(s), Save(s), UNCHANGED <<store, view, behind, capacity>>,
         UNCHANGED <<command, item, ownerLast, workers, flagged, contended, automatic>>,
         command.by = "autopilot" => s.phase = saved.phase /\ s.limits = saved.limits,
         IsActive(s) /\ s.paused => Active /\ saved.paused,
         dispatching' \in {dispatching, FALSE}, recovering' \subseteq recovering,
         job' \in [at : {"none", "composing", "made", "refused"}, round : Nat,
                  sources : SUBSET Nat],
         job' # NoJob => s.phase = "finishing", MemoryInv'
  PROVE  AutopilotInv'
<1>1. StoreMoves /\ StaysFit
  BY Still, KeepCarries
<1>2. /\ RunMoves /\ saved'.phase = s.phase /\ saved'.limits = s.limits
      /\ saved'.paused => overridden' \/ (s.paused /\ ~overridden)
  BY SaveIs
<1>3. RunInv'
  BY <1>1, <1>2, RunFrame, SavedIs
<1>4. Fits
  <2>1. SUFFICES ASSUME command.by = "autopilot"
                 PROVE  /\ saved'.phase = "running" /\ UNCHANGED saved.limits
                        /\ command.kind = "dispatch" => ~saved'.paused \/ overridden'
    BY DEF Fits
  <2>2. saved'.phase = "running" /\ s.phase = "running" /\ UNCHANGED saved.limits
    BY <1>2, <2>1, CommandIs
  <2>3. s.paused => saved.paused
    BY <2>2 DEF IsActive
  <2> QED BY <1>2, <2>1, <2>2, <2>3, CommandIs
<1>5. CommandInv' /\ RepairInv'
  BY <1>1, <1>4, CommandFrame, LastIs
<1>6. ItemInv' /\ LoopInv'
  BY <1>1, <1>2, ItemFrame, LoopFrame DEF RunMoves
<1>7. PausedIsQuiet'
  BY QuietAfter
<1>8. WorkInv'
  BY <1>1, <1>7, WorkFrame
<1> QED BY <1>1, <1>3, <1>5, <1>6, <1>8, MovesFacts DEF AutopilotInv

LEMMA RecordProgressOK ==
  ASSUME AutopilotInv, RecordProgress
  PROVE  AutopilotInv'
<1>1. RunFits(saved) /\ Save(saved) /\ Active
  BY BothFit DEF RecordProgress
<1>2. saved'.phase = saved.phase /\ (~saved'.paused => saved.paused = FALSE \/ ~IsActive(saved))
  BY <1>1, SaveIs DEF RecordProgress
<1>3. MemoryInv'
  BY <1>1, <1>2, Still, MemoryFrame, LastIs DEF RecordProgress, bounds, memory, owner, Afresh,
     Active
<1> QED BY <1>1, <1>3, Writes, SavedIs DEF RecordProgress, bounds, memory, owner, launching, work,
       branch, Active

\* The run goes on.
GoesOn == [saved EXCEPT !.paused = FALSE,
                        !.retry = @ \cup {t \in {HeadOf(view, r) : r \in DOMAIN Settled(view)} :
                                             Status(view, t) = "Cancelled" /\ view.tasks[t].run}]

LEMMA Resumes ==
  ASSUME AutopilotInv
  PROVE  /\ RunFits(GoesOn) /\ GoesOn.phase = saved.phase /\ ~GoesOn.paused
         /\ GoesOn.limits = saved.limits
<1>1. PICK more : more = {t \in {HeadOf(view, r) : r \in DOMAIN Settled(view)} :
                            /\ Status(view, t) = "Cancelled" /\ view.tasks[t].run}
  OBVIOUS
<1>2. more \subseteq Existing(view)
  BY <1>1, HeadsIn, SettledDomain
<1>3. PICK s \in Runs : s = saved
  BY SavedIs
<1>4. s.retry \cup more \subseteq Existing(view) /\ s.retry \cup more \in SUBSET Nat
  BY <1>2, <1>3, SavedIs
<1> DEFINE w == [s EXCEPT !.paused = FALSE, !.retry = @ \cup more]
<1>5. w \in Runs
  BY <1>4 DEF Runs
<1>6. /\ w.roots = s.roots /\ w.phase = s.phase /\ w.retry = s.retry \cup more
      /\ ~w.paused /\ w.stale = s.stale /\ w.through = s.through /\ w.limits = s.limits
  BY DEF Runs
<1>7. GoesOn = w
  BY <1>1, <1>3 DEF GoesOn
<1>8. RunFits(w)
  <2> HIDE DEF w
  <2> QED BY <1>3, <1>4, <1>5, <1>6, SavedIs, FitsAs
<1> QED BY <1>3, <1>6, <1>7, <1>8

LEMMA ResumeOK ==
  ASSUME AutopilotInv, Save(GoesOn),
         attempts' = NoAttempts, transient' \in {0, transient}, recovering' \in {{}, recovering},
         last' \in [key : Keys \cup {NoKey}, transient : BOOLEAN],
         UNCHANGED <<store, view, behind, command, owner, launching, work, branch, capacity,
                     automatic>>
  PROVE  AutopilotInv'
<1>1. MemoryInv'
  <2>1. recovering' \subseteq 1..Len(tasks)
    BY DEF AutopilotInv, MemoryInv, MemoryTypeOK
  <2> QED BY <2>1, Still, FreshMemory DEF owner
<1>2. /\ RunFits(GoesOn) /\ GoesOn.phase = saved.phase /\ ~GoesOn.paused
      /\ GoesOn.limits = saved.limits
  BY Resumes
<1> HIDE DEF GoesOn
<1> QED BY <1>1, <1>2, Writes, SavedIs DEF owner, launching, work, branch

\* The file's state, as the next process takes it up.
LEMMA RestoredIs ==
  ASSUME AutopilotInv
  PROVE  /\ RunFits(Restored(file)) /\ Restored(file).limits = file.limits
         /\ IsActive(Restored(file)) => Restored(file).paused
         /\ ~IsActive(Restored(file)) => Restored(file) = file
<1>1. PICK s \in Runs : s = file
  BY BothFit DEF RunFits
<1>2. PICK w : w = [s EXCEPT !.paused = TRUE, !.phase = "running", !.stale = FALSE]
  OBVIOUS
<1>3. /\ w \in Runs /\ w.roots = s.roots /\ w.retry = s.retry /\ w.paused = TRUE /\ ~w.stale
      /\ w.phase = "running" /\ w.through = s.through /\ w.limits = s.limits
  BY <1>2 DEF Runs
<1>4. RunFits(w)
  BY <1>1, <1>3, BothFit DEF RunFits, RunIn
<1>5. CASE IsActive(file)
  BY <1>1, <1>2, <1>3, <1>4, <1>5 DEF Restored, IsActive
<1>6. CASE ~IsActive(file)
  BY <1>6, BothFit DEF Restored
<1> QED BY <1>5, <1>6

LEMMA CrashOK ==
  ASSUME AutopilotInv, Crash
  PROVE  AutopilotInv'
<1>1. StoreMoves /\ StaysFit
  <2>1. Grows
    BY StillThere DEF Crash, AutopilotInv
  <2> QED BY <2>1 DEF Crash, StaysFit, StoreMoves, Looks, Shows, store
<1>2. /\ saved' = Restored(file) /\ file' = file /\ saveFaults' = saveFaults /\ overridden' = FALSE
      /\ command' = NoCommand
  BY DEF Crash
<1>3. RunMoves
  <2>1. ~Running'
    BY <1>2, RestoredIs DEF Running, Active, IsActive
  <2> QED BY <1>2, <2>1, RestoredIs, BothFit DEF RunMoves, NoCommand
<1>4. RunInv'
  BY <1>1, <1>3, RunFrame, SavedIs DEF Crash
<1>5. MemoryInv'
  <2>1. last' \in [key : Keys \cup {NoKey}, transient : BOOLEAN]
    BY DEF Crash
  <2> QED BY <1>1, <2>1, FreshMemory DEF Crash
<1>6. CommandInv' /\ RepairInv'
  BY <1>1, CommandFrame DEF Crash, Fits
<1>7. ItemInv' /\ LoopInv'
  BY <1>1, <1>3, ItemFrame, OwnersCommand, LoopFrame DEF Crash, RunMoves
<1>8. WorkInv'
  BY DEF Crash, WorkInv, WorkTypeOK, PausedIsQuiet
<1> QED BY <1>1, <1>4, <1>5, <1>6, <1>7, <1>8, MovesFacts DEF AutopilotInv

\* A command of the loop that is under way means that the run goes on.
LEMMA Unfinished ==
  ASSUME AutopilotInv, saved.phase # "running"
  PROVE  command.by # "autopilot"
BY CommandIs

LEMMA ReenterOK ==
  ASSUME AutopilotInv, Reenter
  PROVE  AutopilotInv'
<1>1. StoreMoves
  BY Still DEF Reenter, bounds
<1>2. PICK n \in Nat : n = Len(view.tasks) /\ n <= Len(tasks)
  BY StoreIs DEF AutopilotInv
<1>3. PICK s \in Runs : s = saved
  BY SavedIs
<1>4. saved.phase # "running" /\ saved.phase # "finishing" /\ ~s.stale
  BY <1>3, SavedIs DEF Reenter, Active, IsActive
<1>5. PICK w : /\ RunFits(w) /\ Save(w)
               /\ \/ w.phase = saved.phase /\ UNCHANGED attempts
                  \/ ~w.paused /\ attempts' = NoAttempts
  <2>1. CASE Save([saved EXCEPT !.through = Len(view.tasks)]) /\ UNCHANGED attempts
    <3>1. PICK v : v = [s EXCEPT !.through = n]
      OBVIOUS
    <3>2. /\ v \in Runs /\ v.roots = s.roots /\ v.retry = s.retry /\ ~v.stale
          /\ v.phase = s.phase /\ v.through = n /\ v.limits = s.limits
      BY <1>4, <3>1 DEF Runs
    <3>3. RunFits(v)
      BY <1>2, <1>3, <3>2, SavedIs, FitsAs
    <3> QED BY <1>2, <1>3, <2>1, <3>1, <3>2, <3>3
  <2>2. CASE ~(Save([saved EXCEPT !.through = Len(view.tasks)]) /\ UNCHANGED attempts)
    <3> DEFINE repaired == {view.tasks[t].root : t \in
                  {u \in saved.through + 1..Len(view.tasks) :
                      Status(view, u) # "Cancelled" /\ view.tasks[u].of # 0}} \cap saved.roots
               reentrant == saved.phase = "failed" /\ saved.reentrant
               raised == [r \in Ids |->
                            IF r \in repaired
                            THEN IF reentrant /\ Repairs(view, r) <= MaxRepairs
                                 THEN MaxRepairs + 1 ELSE Repairs(view, r)
                            ELSE saved.limits[r]]
               further == IF saved.branch # {} THEN saved.round + 1 ELSE saved.round
    <3>1. PICK limits, round : limits = raised /\ round = further
      OBVIOUS
    <3>2. /\ Save([saved EXCEPT !.phase = "running", !.paused = FALSE,
                                !.through = Len(view.tasks), !.limits = limits,
                                !.round = round])
          /\ attempts' = NoAttempts
      BY <2>2, <3>1 DEF Reenter
    <3> HIDE DEF repaired, reentrant
    <3>3. MaxRepairs \in Nat /\ \A r \in Ids : Repairs(view, r) \in Nat
      BY LoopSpends, LoopConstants DEF AutopilotInv, StoreInv
    <3>4. limits \in [Ids -> Nat \cup {-1}]
          /\ \A r \in Ids : limits[r] = saved.limits[r] \/ limits[r] >= Repairs(view, r)
      BY <3>1, <3>3, <1>3 DEF Runs
    <3>5. round \in Nat
      BY <3>1, <1>3 DEF Runs
    <3>6. PICK v : v = [s EXCEPT !.phase = "running", !.paused = FALSE, !.through = n,
                                 !.limits = limits, !.round = round]
      OBVIOUS
    <3>7. /\ v \in Runs /\ v.roots = s.roots /\ v.retry = s.retry /\ ~v.stale
          /\ ~v.paused /\ v.through = n /\ v.limits = limits
      BY <1>4, <3>4, <3>5, <3>6 DEF Runs
    <3>8. RunFits(v)
      BY <1>2, <1>3, <3>4, <3>7, SavedIs, FitsAs
    <3> QED BY <1>2, <1>3, <3>2, <3>6, <3>7, <3>8
  <2> QED BY <2>1, <2>2
<1>6. saved'.phase = w.phase /\ ~IsActive(saved) /\ (IsActive(w) => ~w.paused)
  BY <1>4, <1>5, SaveIs, Unfinished DEF IsActive, Reenter
<1>7. MemoryInv'
  <2>1. CASE w.phase = saved.phase /\ UNCHANGED attempts
    BY <1>1, <1>4, <1>6, <2>1, MemoryFrame, LastIs DEF Reenter, owner, Afresh
  <2>2. CASE attempts' = NoAttempts
    BY <1>1, <2>2, FreshMemory, LastIs DEF Reenter, owner, AutopilotInv, MemoryInv, MemoryTypeOK
  <2> QED BY <1>5, <2>1, <2>2
<1>8. job = NoJob
  BY <1>4, SavedIs
<1> QED BY <1>4, <1>5, <1>6, <1>7, <1>8, Writes, SavedIs, Unfinished DEF Reenter, bounds, owner,
       launching, work, branch

LEMMA PollOK ==
  ASSUME AutopilotInv, PollIntegration
  PROVE  AutopilotInv'
<1>1. StoreMoves
  BY Still DEF PollIntegration, bounds
<1>2. saved.phase = "finishing" /\ job' = NoJob
  BY SavedIs DEF PollIntegration, NoJob
<1>3. PICK n \in Nat : n = Len(view.tasks) /\ n <= Len(tasks)
  BY StoreIs DEF AutopilotInv
<1>4. PICK s \in Runs : s = saved
  BY SavedIs
<1>5. PICK w : /\ RunFits(w) /\ Save(w)
               /\ \/ w.phase = "done" /\ UNCHANGED attempts
                  \/ w.paused = saved.paused /\ attempts' = NoAttempts
  <2>1. CASE saved.stale
    <3>1. PICK v : v = [s EXCEPT !.stale = FALSE, !.phase = "running"]
      OBVIOUS
    <3>2. Save(v) /\ attempts' = NoAttempts
      BY <1>4, <2>1, <3>1 DEF PollIntegration
    <3>3. /\ v \in Runs /\ v.roots = s.roots /\ v.retry = s.retry /\ ~v.stale
          /\ v.through = s.through /\ v.limits = s.limits /\ v.paused = s.paused
      BY <3>1 DEF Runs
    <3>4. RunFits(v)
      BY <1>4, <3>3, SavedIs, FitsAs
    <3> QED BY <1>4, <3>2, <3>3, <3>4
  <2>2. CASE ~saved.stale
    <3>1. PICK made \in SUBSET Nat : Done(saved, made) /\ UNCHANGED attempts
      <4>1. job.sources \in SUBSET Nat /\ {} \in SUBSET Nat
        BY SavedIs
      <4> QED BY <2>2, <4>1 DEF PollIntegration
    <3>2. PICK v : v = [s EXCEPT !.phase = "done", !.through = n, !.branch = made,
                                 !.stale = FALSE]
      OBVIOUS
    <3>3. /\ v \in Runs /\ v.roots = s.roots /\ v.retry = s.retry /\ ~v.stale
          /\ v.through = n /\ v.limits = s.limits /\ v.phase = "done"
      BY <3>2 DEF Runs
    <3>4. RunFits(v)
      BY <1>3, <1>4, <3>3, SavedIs, FitsAs
    <3> QED BY <1>3, <1>4, <3>1, <3>2, <3>3, <3>4 DEF Done
  <2> QED BY <2>1, <2>2
<1>6. saved'.phase = w.phase
  BY <1>2, <1>5, SaveIs, Unfinished DEF PollIntegration
<1>7. MemoryInv'
  <2>1. CASE w.phase = "done" /\ UNCHANGED attempts
    BY <1>1, <1>6, <2>1, MemoryFrame, LastIs DEF PollIntegration, owner, Afresh
  <2>2. CASE attempts' = NoAttempts
    BY <1>1, <2>2, FreshMemory, LastIs DEF PollIntegration, owner, AutopilotInv, MemoryInv,
       MemoryTypeOK
  <2> QED BY <1>5, <2>1, <2>2
<1>8. IsActive(w) /\ w.paused => Active /\ saved.paused
  BY <1>2, <1>5 DEF IsActive, Active
<1> QED BY <1>2, <1>5, <1>7, <1>8, Writes, SavedIs, Unfinished DEF PollIntegration, bounds, owner,
       launching, work

-----------------------------------------------------------------------------
(* One turn of the loop. *)

LEMMA RecoveredIs ==
  ASSUME AutopilotInv
  PROVE  /\ RunFits(WithRecovered) /\ WithRecovered \in Runs
         /\ WithRecovered.roots = saved.roots
         /\ WithRecovered.retry \subseteq Existing(view) /\ WithRecovered.phase = saved.phase
         /\ WithRecovered.paused = saved.paused /\ WithRecovered.stale = saved.stale
         /\ WithRecovered.through = saved.through /\ WithRecovered.limits = saved.limits
         /\ WithRecovered.round = saved.round
         /\ StillRecovering \subseteq recovering
<1>1. PICK s \in Runs : s = saved
  BY SavedIs
<1>2. PICK more : more = {t \in recovering : Status(view, t) = "Cancelled"}
  OBVIOUS
<1>3. s.retry \cup more \subseteq Existing(view) /\ s.retry \cup more \in SUBSET Nat
  BY <1>1, <1>2, SavedIs
<1>4. [s EXCEPT !.retry = @ \cup more] \in Runs
  BY <1>3 DEF Runs
<1>5. WithRecovered = [s EXCEPT !.retry = @ \cup more]
  BY <1>1, <1>2 DEF WithRecovered
<1>6. /\ WithRecovered \in Runs /\ WithRecovered.roots = saved.roots
      /\ WithRecovered.retry \subseteq Existing(view) /\ WithRecovered.phase = saved.phase
      /\ WithRecovered.paused = saved.paused /\ WithRecovered.stale = saved.stale
      /\ WithRecovered.through = saved.through /\ WithRecovered.limits = saved.limits
      /\ WithRecovered.round = saved.round
  BY <1>1, <1>3, <1>4, <1>5 DEF Runs
<1>7. RunFits(WithRecovered)
  BY <1>6, SavedIs, FitsAs
<1> QED BY <1>6, <1>7 DEF StillRecovering

LEMMA ViewRoots ==
  ASSUME AutopilotInv
  PROVE  RootsOK(view.tasks)
<1>1. StoreInv /\ ViewInv
  BY Zenon DEF AutopilotInv
<1>2. ASSUME NEW t \in 1..Len(view.tasks)
      PROVE  /\ view.tasks[t].needs \subseteq 1..t - 1
             /\ view.tasks[view.tasks[t].root].root = view.tasks[t].root
  <2>1. t \in Existing(view) /\ t \in Nat
    BY <1>1, StoreIs
  <2>2. Stays(view.tasks[t], tasks[t]) /\ t \in 1..Len(tasks)
    BY <1>1, <2>1, ViewIs
  <2>3. tasks[t].root \in 1..t /\ tasks[t].needs \subseteq 1..t - 1
        /\ tasks[tasks[t].root].root = tasks[t].root
    BY <1>1, <2>2, StoreIs DEF FamiliesOK, RootsOK
  <2>4. tasks[t].root \in Existing(view)
    BY <1>1, <2>1, <2>3, StoreIs
  <2>5. Stays(view.tasks[tasks[t].root], tasks[tasks[t].root])
    BY <1>1, <2>4, ViewIs
  <2>6. view.tasks[t].root = tasks[t].root /\ view.tasks[t].needs = tasks[t].needs
    BY <2>2 DEF Stays
  <2>7. view.tasks[tasks[t].root].root = tasks[tasks[t].root].root
    BY <2>5 DEF Stays
  <2> QED BY <2>3, <2>6, <2>7
<1> QED BY <1>2 DEF RootsOK

\* The next decision: of a task of the snapshot, and a repair only within the limit.
LEMMA KeyIs ==
  ASSUME AutopilotInv, NEW families, families = Settled(view), Key(families) # NoKey
  PROVE  /\ Key(families) \in Keys
         /\ Key(families)[1] # "dispatch" => Key(families)[2] \in Existing(view)
         /\ Key(families)[1] = "repair" =>
               /\ Status(view, Key(families)[2]) \in Broken
               /\ Repairs(view, RootOf(view, Key(families)[2]))
                    < RepairLimit(RootOf(view, Key(families)[2]))
<1>0. StoreInv /\ view.tasks \in Seq(Tasks) /\ RootsOK(view.tasks)
  BY ViewRoots, StoreIs DEF AutopilotInv
<1>1. CASE Decided(families) # {}
  <2>1. Decided(families) \in SUBSET Nat
    <3>1. DOMAIN Settled(view) \subseteq Nat
      BY SettledDomain, SavedIs
    <3>2. Decided(families) \subseteq DOMAIN families
      BY DEF Decided, Open
    <3>3. DOMAIN families \subseteq Nat
      BY <3>1
    <3> HIDE DEF Decided
    <3> QED BY <3>2, <3>3
  <2>2. PICK r : r = Min(Decided(families)) /\ r \in Decided(families)
    BY <1>1, <2>1, LeastTask
  <2>3. /\ r \in DOMAIN Settled(view) /\ Settled(view)[r] = "active" /\ r \notin HeldRoots
        /\ Decision(HeadOf(view, r)) # "none"
    BY <2>2 DEF Decided, Open
  <2>4. /\ r \in saved.roots /\ r \in Existing(view)
        /\ Status(view, HeadOf(view, r)) \in Broken => ~(Repairs(view, r) >= RepairLimit(r))
    BY <1>0, <2>3, SettledIs
  <2>5. PICK t : t = HeadOf(view, r)
    OBVIOUS
  <2>6. t \in Existing(view) /\ RootOf(view, t) = r /\ r \in Ids /\ t \in Ids
    BY <1>0, <2>4, <2>5, HeadIs, SavedIs, StoreIs
  <2>7. Key(families) = <<Decision(t), t>>
    BY <1>1, <2>2, <2>5 DEF Key
  <2>8. Decision(t) \in Kinds \ {"dispatch"}
        /\ (Decision(t) = "repair" => Status(view, t) \in Broken)
    BY <2>3, <2>5 DEF Decision, Kinds, Broken, Status
  <2>9. Repairs(view, r) \in Nat /\ RepairLimit(r) \in Int
    BY <2>6, LoopSpends, LimitIs, BothFit DEF RepairLimit
  <2> QED BY <2>4, <2>5, <2>6, <2>7, <2>8, <2>9 DEF Keys
<1>2. CASE Decided(families) = {}
  <2>1. Key(families) = <<"dispatch", 0>>
    BY <1>2 DEF Key
  <2> QED BY <2>1 DEF Keys, Kinds
<1> QED BY <1>1, <1>2

LEMMA ForgivenIs ==
  ASSUME AutopilotInv, saved.phase = "running", ~saved.paused
  PROVE  /\ Forgiven \in [Keys -> 0..Attempts + 1]
         /\ \A k \in Keys : Forgiven[k] <= Attempts
<1>1. /\ Attempts \in Nat /\ attempts \in [Keys -> 0..Attempts + 1]
      /\ \A k \in Keys : attempts[k] <= Attempts
  BY LoopConstants DEF AutopilotInv, StoreInv, MemoryInv, MemoryTypeOK
<1>2. CASE Forgiven = attempts
  BY <1>1, <1>2
<1>3. CASE last.key # NoKey
            /\ Forgiven = [attempts EXCEPT ![last.key] = IF @ > 0 THEN @ - 1 ELSE 0]
  <2>1. PICK k \in Keys : k = last.key
    BY <1>3, LastIs
  <2>2. PICK n : n = (IF attempts[k] > 0 THEN attempts[k] - 1 ELSE 0)
    OBVIOUS
  <2>3. n \in 0..Attempts + 1 /\ n <= Attempts
    BY <1>1, <2>2
  <2>4. Forgiven = [attempts EXCEPT ![k] = n]
    BY <1>3, <2>1, <2>2
  <2> QED BY <1>1, <2>3, <2>4
<1> QED BY <1>2, <1>3 DEF Forgiven

\* A turn that leaves the run going on saves it, or the run is paused for it.
LEMMA RunWritten ==
  ASSUME AutopilotInv, Running, NEW s, RunFits(s), s.limits = saved.limits, ~s.paused,
         Save(s) \/ (UNCHANGED stateFile /\ s = saved)
  PROVE  /\ RunMoves /\ saved'.phase = s.phase /\ saved'.limits = saved.limits
         /\ saved'.paused => overridden'
<1>1. CASE Save(s)
  BY <1>1, SaveIs
<1>2. CASE UNCHANGED stateFile /\ s = saved
  <2>1. /\ saved' = saved /\ file' = file /\ saveFaults' = saveFaults /\ overridden' = overridden
        /\ file = saved
    BY <1>2, BothFit DEF stateFile
  <2> QED BY <1>2, <2>1, BothFit DEF RunMoves
<1> QED BY <1>1, <1>2

\* What a turn leaves as it is.
LEMMA TurnDone ==
  ASSUME AutopilotInv, RunningStep, RunMoves, RunInv', MemoryInv', CommandInv', RepairInv',
         command'.by # "owner",
         \/ dispatching' = FALSE
         \/ dispatching' = dispatching /\ (saved'.paused => overridden')
  PROVE  AutopilotInv'
<1>1. StoreMoves
  BY Still DEF RunningStep, bounds
<1>2. ItemInv' /\ LoopInv'
  BY <1>1, ItemFrame, LoopFrame DEF RunningStep, owner, RunMoves
<1>3. WorkInv'
  <2>1. PausedIsQuiet'
    BY DEF PausedIsQuiet
  <2> QED BY <1>1, <2>1, WorkFrame DEF RunningStep, work
<1> QED BY <1>1, <1>2, <1>3, MovesFacts DEF AutopilotInv

LEMMA SubmitOK ==
  ASSUME AutopilotInv, RunningStep, Submit(Settled(view))
  PROVE  AutopilotInv'
<1> DEFINE key == Key(Settled(view))
<1>0. /\ StoreMoves /\ Running /\ saved.phase = "running" /\ Idle /\ ~contended /\ ~saved.paused
      /\ UNCHANGED <<store, view, behind, owner, contended, work, capacity, automatic, job>>
  BY Still DEF RunningStep, bounds, Running, Submit
<1>1. /\ key \in Keys /\ key # NoKey
      /\ key[1] # "dispatch" => key[2] \in Existing(view)
      /\ key[1] = "repair" =>
            /\ Status(view, key[2]) \in Broken
            /\ Repairs(view, RootOf(view, key[2])) < RepairLimit(RootOf(view, key[2]))
  BY KeyIs DEF Submit
<1>2. recovering' \subseteq Existing(view)
  BY <1>1, RecoveredIs, SavedIs DEF Submit
<1>3. Forgiven \in [Keys -> 0..Attempts + 1] /\ \A k \in Keys : Forgiven[k] <= Attempts
  BY <1>0, ForgivenIs
<1>4. Attempts \in Nat /\ TransientLimit \in Nat \ {0} /\ transient \in 0..TransientLimit - 1
      /\ ownerTransient \in 0..TransientLimit - 1
  BY LoopConstants DEF AutopilotInv, StoreInv, MemoryInv, MemoryTypeOK
<1>5. recovering' \subseteq 1..Len(tasks)' /\ automatic' \subseteq 1..Len(tasks)'
  <2>1. 1..Len(tasks)' = 1..Len(tasks) /\ Existing(view) \subseteq 1..Len(tasks)
    BY <1>0, StoreIs DEF store, AutopilotInv
  <2> QED BY <1>0, <1>2, <2>1 DEF AutopilotInv, MemoryInv, MemoryTypeOK
<1>6. ASSUME Halt(WithRecovered),
             attempts' \in [Keys -> 0..Attempts + 1], transient' \in 0..TransientLimit - 1,
             UNCHANGED last
      PROVE  AutopilotInv'
  <2>1. command' = NoCommand
    BY <1>0, <1>6 DEF Halt, Disable, Idle
  <2>2. /\ RunMoves /\ dispatching' = FALSE /\ saved'.paused = TRUE
        /\ saved'.phase = saved.phase /\ saved'.limits = saved.limits
    <3>1. IsActive(WithRecovered)
      BY <1>0, RecoveredIs DEF IsActive
    <3> QED BY <1>6, <2>1, <3>1, HaltIs, RecoveredIs DEF NoCommand
  <2>3. RunInv'
    BY <1>0, <1>2, <2>2, RunFrame, SavedIs DEF work
  <2>4. MemoryInv'
    BY <1>0, <1>4, <1>5, <1>6, <2>2, LastIs DEF MemoryInv, MemoryTypeOK, owner
  <2>5. CommandInv' /\ RepairInv'
    BY <1>0, <2>1, CommandFrame, LastIs DEF StaysFit, Fits, owner
  <2> QED BY <2>1, <2>2, <2>3, <2>4, <2>5, TurnDone DEF NoCommand
<1>7. CASE last.transient /\ transient + 1 >= TransientLimit
  BY <1>3, <1>4, <1>6, <1>7 DEF Submit
<1>8. CASE ~(last.transient /\ transient + 1 >= TransientLimit)
  <2>1. transient' \in 0..TransientLimit - 1
    BY <1>4, <1>8 DEF Submit
  <2>2. PICK n : n = Forgiven[key] + 1
    OBVIOUS
  <2>3. attempts' = [Forgiven EXCEPT ![key] = n]
    BY <1>8, <2>2 DEF Submit
  <2>4. n \in 0..Attempts + 1
    BY <1>1, <1>3, <1>4, <2>2
  <2>5. attempts' \in [Keys -> 0..Attempts + 1] /\ attempts'[key] = n
    BY <1>1, <1>3, <2>3, <2>4
  <2>6. CASE attempts'[key] > Attempts
    BY <1>6, <1>8, <2>1, <2>5, <2>6 DEF Submit
  <2>7. CASE ~(attempts'[key] > Attempts)
    <3>1. /\ last' = [key |-> key, transient |-> FALSE] /\ Save(WithRecovered)
          /\ command' = [by |-> "autopilot", kind |-> key[1], task |-> key[2],
                         at |-> "barrier", stale |-> behind]
          /\ UNCHANGED dispatching
      BY <1>8, <2>7 DEF Submit
    <3>2. \A k \in Keys : attempts'[k] <= Attempts
      BY <1>1, <1>3, <1>4, <2>3, <2>4, <2>5, <2>7
    <3>3. /\ RunMoves /\ saved'.phase = "running" /\ saved'.limits = saved.limits
          /\ saved'.paused => overridden'
      BY <1>0, <3>1, RunWritten, RecoveredIs
    <3>4. RunInv'
      BY <1>0, <1>2, <3>3, RunFrame, SavedIs DEF work
    <3>5. last' \in [key : Keys \cup {NoKey}, transient : BOOLEAN]
      BY <1>1, <3>1
    <3>6. MemoryInv'
      BY <1>0, <1>4, <1>5, <2>1, <2>5, <3>2, <3>5 DEF MemoryInv, MemoryTypeOK, owner
    <3>7. key[1] \in Kinds /\ key[2] \in Ids \cup {0}
      BY <1>1 DEF Keys
    <3>8. key[2] \in Nat /\ key[2] <= Len(tasks)
      <4>1. CASE key[1] = "dispatch"
        <5>1. key = <<"dispatch", 0>>
          BY <4>1, <1>1 DEF Key, Decision, NoKey
        <5> QED BY <5>1, StoreIs DEF AutopilotInv
      <4>2. CASE key[1] # "dispatch"
        BY <1>1, <4>2, ViewIs, StoreIs DEF AutopilotInv
      <4> QED BY <4>1, <4>2
    <3>9. CommandTypeOK'
      <4>1. command' \in Commands
        BY <3>1, <3>7, <3>8, StoreIs DEF Commands, CommandKinds, AutopilotInv
      <4> QED BY <1>0, <3>1, <3>8, <4>1, LastIs DEF CommandTypeOK, owner, store
    <3>10. CommandInv'
      <4>1. key[1] # "none"
        BY <3>7 DEF Kinds
      <4>2. key[1] # "dispatch" => key[2] \in Existing(view)'
        BY <1>0, <1>1 DEF Existing
      <4> QED BY <1>0, <3>1, <3>3, <3>9, <4>1, <4>2 DEF CommandInv
    <3>11. RepairInv'
      BY <1>0, <1>1, <3>1, <3>3 DEF RepairInv, Status, RootOf, Repairs, Spent, RepairLimit,
         LimitIn, Existing
    <3> QED BY <3>1, <3>3, <3>4, <3>6, <3>10, <3>11, TurnDone
  <2> QED BY <2>6, <2>7
<1> QED BY <1>7, <1>8

LEMMA TurnEnds ==
  ASSUME AutopilotInv, RunningStep, NEW s, RunFits(s), s.limits = saved.limits, ~s.paused,
         Save(s) \/ (UNCHANGED stateFile /\ s = saved),
         UNCHANGED <<transient, last>>, recovering' = StillRecovering, command' = NoCommand,
         UNCHANGED attempts \/ attempts' = NoAttempts,
         job' \in [at : {"none", "composing", "made", "refused"}, round : Nat,
                  sources : SUBSET Nat],
         job' = job \/ s.phase = "finishing",
         dispatching' \in {dispatching, FALSE}
  PROVE  AutopilotInv'
<1>1. /\ StoreMoves /\ saved.phase = "running" /\ Running /\ ~saved.paused
      /\ UNCHANGED <<store, view, behind, owner, contended, work, capacity, automatic>>
  BY Still DEF RunningStep, bounds, Running
<1>2. /\ RunMoves /\ saved'.phase = s.phase /\ saved'.limits = saved.limits
      /\ saved'.paused => overridden'
  BY <1>1, RunWritten
<1>3. job = NoJob
  BY <1>1, SavedIs
<1>4. recovering' \subseteq Existing(view) /\ recovering' \subseteq 1..Len(tasks)
  BY RecoveredIs, SavedIs, StoreIs DEF AutopilotInv
<1>5. RunInv'
  BY <1>1, <1>2, <1>3, <1>4, RunFrame, SavedIs DEF work
<1>6. MemoryInv'
  <2>1. CASE attempts' = NoAttempts
    BY <1>1, <1>4, <2>1, FreshMemory, LastIs DEF owner
  <2>2. CASE UNCHANGED attempts
    BY <1>1, <1>4, <2>2 DEF AutopilotInv, MemoryInv, MemoryTypeOK, owner, store
  <2> QED BY <2>1, <2>2
<1>7. CommandInv' /\ RepairInv'
  BY <1>1, CommandFrame, LastIs DEF StaysFit, Fits, owner
<1> QED BY <1>2, <1>5, <1>6, <1>7, TurnDone DEF NoCommand

LEMMA StopRunOK ==
  ASSUME AutopilotInv, RunningStep, StopRun(Settled(view))
  PROVE  AutopilotInv'
<1>1. PICK n \in Nat : n = Len(view.tasks) /\ n <= Len(tasks)
  BY StoreIs DEF AutopilotInv
<1>2. PICK s \in Runs : s = WithRecovered
  BY RecoveredIs
<1>3. PICK reentrant \in BOOLEAN : Fail(reentrant)
  BY DEF StopRun
<1>4. PICK w : w = [s EXCEPT !.phase = "failed", !.reentrant = reentrant, !.through = n]
  OBVIOUS
<1>5. /\ w \in Runs /\ w.roots = s.roots /\ w.retry = s.retry /\ w.stale = s.stale
      /\ w.phase = "failed" /\ w.paused = s.paused /\ w.through = n /\ w.limits = s.limits
  BY <1>4 DEF Runs
<1>6. ~saved.stale /\ ~saved.paused
  BY SavedIs DEF RunningStep, Running
<1>7. RunFits(w) /\ Save(w)
  BY <1>1, <1>2, <1>3, <1>4, <1>5, <1>6, RecoveredIs, FitsAs DEF Fail
<1> QED BY <1>2, <1>5, <1>6, <1>7, RecoveredIs, SavedIs, TurnEnds DEF StopRun, RunningStep, Idle

LEMMA IntegrateOK ==
  ASSUME AutopilotInv, RunningStep, Integrate(Settled(view))
  PROVE  AutopilotInv'
<1>1. PICK n \in Nat : n = Len(view.tasks) /\ n <= Len(tasks)
  BY StoreIs DEF AutopilotInv
<1>2. PICK s \in Runs : s = WithRecovered
  BY RecoveredIs
<1>3. command' = NoCommand /\ dispatching' = FALSE
  BY DEF Integrate, Disable, RunningStep, Idle
<1>4. PICK sources : sources =
        {Source(view, r) : r \in {q \in DOMAIN Settled(view) : Settled(view)[q] = "success"}}
  OBVIOUS
<1>5. ~saved.stale /\ ~saved.paused
  BY SavedIs DEF RunningStep, Running
<1>6. CASE sources = {}
  <2>1. PICK w : w = [s EXCEPT !.phase = "done", !.through = n, !.branch = {}, !.stale = FALSE]
    OBVIOUS
  <2>2. /\ w \in Runs /\ w.roots = s.roots /\ w.retry = s.retry /\ ~w.stale
        /\ w.paused = s.paused /\ w.through = n /\ w.limits = s.limits
    BY <2>1 DEF Runs
  <2>3. Save(w) /\ UNCHANGED <<job, attempts>>
    BY <1>1, <1>2, <1>4, <1>6, <2>1 DEF Integrate, Done
  <2>4. RunFits(w)
    BY <1>1, <1>2, <2>2, RecoveredIs, FitsAs
  <2> QED BY <1>2, <1>3, <1>5, <2>2, <2>3, <2>4, RecoveredIs, SavedIs, TurnEnds DEF Integrate
<1>7. CASE sources # {}
  <2>1. PICK w : w = [s EXCEPT !.phase = "finishing"]
    OBVIOUS
  <2>2. /\ w \in Runs /\ w.roots = s.roots /\ w.retry = s.retry /\ w.stale = s.stale
        /\ w.paused = s.paused /\ w.through = s.through /\ w.limits = s.limits
        /\ w.phase = "finishing"
    BY <2>1 DEF Runs
  <2>3. /\ Save(w) /\ attempts' = NoAttempts
        /\ job' = [at |-> "composing", round |-> saved.round, sources |-> sources]
    BY <1>2, <1>4, <1>7, <2>1 DEF Integrate
  <2>4. sources \in SUBSET Nat
    <3>1. ASSUME NEW r \in DOMAIN Settled(view) PROVE Source(view, r) \in Nat
      <4>1. r \in Existing(view) /\ r \in Nat
        BY SettledDomain, SavedIs
      <4>2. r \in Ids /\ view.resolved \in [Ids -> Nat]
        BY <4>1, StoreIs DEF AutopilotInv
      <4> QED BY <4>1, <4>2 DEF Source
    <3> QED BY <1>4, <3>1
  <2>5. job' \in [at : {"none", "composing", "made", "refused"}, round : Nat, sources : SUBSET Nat]
    BY <2>3, <2>4, SavedIs DEF Runs
  <2>6. RunFits(w)
    BY <1>2, <2>2, RecoveredIs, SavedIs, FitsAs
  <2> QED BY <1>2, <1>3, <1>5, <2>2, <2>3, <2>5, <2>6, RecoveredIs, TurnEnds DEF Integrate
<1> QED BY <1>6, <1>7

LEMMA RunningStepOK ==
  ASSUME AutopilotInv, RunningStep
  PROVE  AutopilotInv'
<1>1. CASE Submit(Settled(view))
  BY <1>1, SubmitOK
<1>2. CASE StopRun(Settled(view))
  BY <1>2, StopRunOK
<1>3. CASE Integrate(Settled(view))
  BY <1>3, IntegrateOK
<1>4. CASE Wait(Settled(view))
  <2>1. Save(WithRecovered) \/ (UNCHANGED stateFile /\ WithRecovered = saved)
    BY <1>4 DEF Wait
  <2> QED BY <1>4, <2>1, TurnEnds, RecoveredIs, SavedIs DEF Wait, RunningStep, Running, Idle
<1> QED BY <1>1, <1>2, <1>3, <1>4 DEF RunningStep

-----------------------------------------------------------------------------
(* The owner. *)

\* The task that a repair is of is known as well.
LEMMA ParentIn ==
  ASSUME AutopilotInv, NEW t \in Existing(view), view.tasks[t].of # 0
  PROVE  view.tasks[t].of \in Existing(view)
<1>1. StoreInv /\ ViewInv
  BY DEF AutopilotInv
<1>2. t \in 1..Len(view.tasks) /\ t \in 1..Len(tasks) /\ view.tasks[t].of = tasks[t].of
  BY <1>1, ViewIs DEF Stays
<1>3. tasks[t].of \in 0..t - 1
  BY <1>1, <1>2, StoreIs DEF FamiliesOK
<1> QED BY <1>1, <1>2, <1>3, StoreIs

LEMMA InstructOK ==
  ASSUME AutopilotInv, NEW root \in 1..Len(tasks), Instruct(root)
  PROVE  AutopilotInv'
<1>1. /\ StoreMoves /\ StaysFit /\ item = NoItem
      /\ UNCHANGED <<store, view, behind, saved, file, saveFaults, overridden, memory, command,
                     ownerLast, ownerTransient, launching, work, branch, capacity, automatic>>
  BY Still, KeepCarries DEF Instruct, Input, stateFile
<1>2. root \in Existing(view) /\ HeadOf(view, root) \in Existing(view) /\ root # 0
  <2>1. root \in Existing(view) /\ RootOf(view, root) = root /\ view.tasks \in Seq(Tasks)
    BY StoreIs DEF Instruct, AutopilotInv
  <2> QED BY <2>1, HeadIs
<1>3. PICK t \in Existing(view), effect \in Effects \ {"none"} :
         item' = [NoItem EXCEPT !.root = root, !.task = t, !.effect = effect]
  <2>1. PICK head : head = HeadOf(view, root)
    OBVIOUS
  <2>2. CASE \E effect \in Effects \ {"none"} :
               item' = [NoItem EXCEPT !.root = root, !.task = head, !.effect = effect]
    BY <1>2, <2>1, <2>2
  <2>3. CASE view.tasks[head].of # 0 /\ item' = [NoItem EXCEPT !.root = root,
                !.task = view.tasks[head].of, !.effect = "Repair"]
    BY <1>2, <2>1, <2>3, ParentIn DEF Effects
  <2> QED BY <2>1, <2>2, <2>3 DEF Instruct, Give, Effects
<1>4. RunInv' /\ LoopInv' /\ WorkInv'
  <2>1. RunInv'
    BY <1>1, SavedFrame, SavedIs, WorkIs DEF branch, memory, work
  <2> QED BY <1>1, <2>1, LoopFrame, BothFit, WorkFrame, QuietStays DEF branch, work, launching
<1>5. MemoryInv'
  BY <1>1, MemoryFrame, LastIs DEF memory, Afresh
<1>6. CommandInv' /\ RepairInv'
  BY <1>1, KeepFits, CommandFrame, LastIs DEF launching
<1>7. ItemInv'
  <2>1. Existing(view)' = Existing(view) /\ Len(tasks)' = Len(tasks)
        /\ Existing(view) \subseteq 1..Len(tasks) /\ Len(tasks) \in Nat
    BY <1>1, StoreIs DEF store, Existing, AutopilotInv
  <2>2. PICK i \in Items : i = NoItem
    BY DEF Items, NoItem, Effects
  <2>3. [i EXCEPT !.root = root, !.task = t, !.effect = effect] \in Items
    <3>1. t \in Nat /\ root \in Nat
      BY SavedIs
    <3> QED BY <3>1 DEF Items
  <2>4. /\ item' \in Items /\ item'.root = root /\ item'.task = t /\ item'.effect = effect
        /\ item'.created = 0
    BY <1>3, <2>2, <2>3 DEF NoItem
  <2>5. ItemTypeOK'
    BY <1>2, <2>1, <2>4 DEF ItemTypeOK
  <2>6. command'.by # "owner"
    BY <1>1 DEF AutopilotInv, ItemInv, NoItem
  <2> QED BY <1>2, <2>1, <2>4, <2>5, <2>6 DEF ItemInv
<1> QED BY <1>1, <1>4, <1>5, <1>6, <1>7, MovesFacts DEF AutopilotInv

LEMMA ItemIs ==
  ASSUME AutopilotInv, item # NoItem
  PROVE  /\ item \in Items /\ item.root # 0 /\ {item.root, item.task} \subseteq Existing(view)
         /\ item.effect # "none"
         /\ item.created # 0 =>
               /\ item.created \in Existing(view) /\ item.effect # "Steer"
               /\ item.effect = "FollowUp" => RootOf(view, item.created) = item.created
               /\ item.effect = "ReviewRepair" => Status(view, item.task) = "Rejected"
BY DEF AutopilotInv, ItemInv, ItemTypeOK

\* What an instruction comes to: something, and nothing else once its work is made.
LEMMA EffectIs ==
  ASSUME AutopilotInv, item # NoItem
  PROVE  /\ Effect \in Effects \ {"none"}
         /\ item.created # 0 => Effect \in Effects \ {"none", "Steer", "ReviewRepair"}
         /\ item.created # 0 /\ Effect = "FollowUp" => item.effect = "FollowUp"
<1>1. item.effect \in Effects \ {"none"}
  BY ItemIs DEF Items
<1> QED BY <1>1, ItemIs DEF Effect, Effects, Broken

\* The step of the owner's instruction.
LEMMA DecisionIs ==
  ASSUME AutopilotInv, item # NoItem,
         OwnerDecision[1] \notin {"done", "fail", "wait"}
  PROVE  /\ OwnerDecision[1] \in CommandKinds \ {"none", "dispatch"}
         /\ OwnerDecision[2] \in Existing(view)
         /\ OwnerDecision[1] \in {"repair", "review-repair", "follow-up"} => item.created = 0
         /\ OwnerDecision[1] = "repair" => Effect \in {"Repair", "AfterCheck"}
         /\ OwnerDecision[1] = "review-repair" =>
               Effect = "ReviewRepair" /\ OwnerDecision[2] = item.task
         /\ OwnerDecision[1] = "follow-up" => Effect = "FollowUp"
<1>0. item.task \in Existing(view) /\ Effect \in Effects \ {"none"}
  BY ItemIs, EffectIs
<1>1. ASSUME NEW t, RepairStep(t)[1] # "fail", t \in Existing(view)
      PROVE /\ RepairStep(t)[1] \in {"cancel", "repair"} /\ RepairStep(t)[2] \in Existing(view)
  <2>1. CASE Siblings(t) # {}
    <3>1. Siblings(t) \subseteq Existing(view)
      BY DEF Siblings
    <3>2. Siblings(t) \in SUBSET Nat
      BY <3>1, SavedIs
    <3>3. Min(Siblings(t)) \in Siblings(t)
      BY <2>1, <3>2, LeastTask
    <3> QED BY <1>1, <2>1, <3>1, <3>3 DEF RepairStep
  <2>2. CASE Siblings(t) = {}
    BY <1>1, <2>2 DEF RepairStep
  <2> QED BY <2>1, <2>2
<1>2. CASE item.created # 0
  <2>1. OwnerDecision = LaunchStep(item.created) /\ item.created \in Existing(view)
    BY <1>2, ItemIs DEF OwnerDecision
  <2> QED BY <1>2, <2>1 DEF LaunchStep, CommandKinds, Kinds
<1>3. CASE item.created = 0 /\ Effect = "Steer"
  BY <1>0, <1>3 DEF OwnerDecision, CommandKinds
<1>4. CASE item.created = 0 /\ Effect = "AfterCheck"
  <2>1. OwnerDecision = RepairStep(item.task)
    BY <1>4 DEF OwnerDecision
  <2>2. OwnerDecision[1] \in {"cancel", "repair"} /\ OwnerDecision[2] \in Existing(view)
    BY <1>0, <1>1, <2>1
  <2> QED BY <1>4, <2>2 DEF CommandKinds, Kinds
<1>5. CASE item.created = 0 /\ Effect = "Repair"
  <2>1. OwnerDecision = RepairStep(item.task)
    BY <1>5 DEF OwnerDecision
  <2>2. OwnerDecision[1] \in {"cancel", "repair"} /\ OwnerDecision[2] \in Existing(view)
    BY <1>0, <1>1, <2>1
  <2> QED BY <1>5, <2>2 DEF CommandKinds, Kinds
<1>6. CASE item.created = 0 /\ Effect = "ReviewRepair"
  BY <1>0, <1>6 DEF OwnerDecision, CommandKinds
<1>7. CASE item.created = 0 /\ Effect = "FollowUp"
  BY <1>0, <1>7 DEF OwnerDecision, CommandKinds
<1> QED BY <1>0, <1>2, <1>3, <1>4, <1>5, <1>6, <1>7 DEF Effects

LEMMA ReopenedIs ==
  ASSUME AutopilotInv
  PROVE  /\ Reopened(saved) \in Runs /\ Reopened(saved).roots = saved.roots
         /\ Reopened(saved).retry = saved.retry /\ Reopened(saved).through = saved.through
         /\ Reopened(saved).limits = saved.limits
         /\ Reopened(saved).stale => Reopened(saved).phase = "finishing"
         /\ saved.phase = "finishing" => Reopened(saved).phase = "finishing"
         /\ \/ Reopened(saved).phase = saved.phase /\ Reopened(saved).paused = saved.paused
            \/ saved.phase = "done" /\ ~Reopened(saved).paused
<1>1. PICK s \in Runs : s = saved
  BY SavedIs
<1>2. PICK k \in Nat : k = s.round + 1
  BY DEF Runs
<1>3. [s EXCEPT !.stale = TRUE, !.round = k] \in Runs
  BY DEF Runs
<1>4. PICK n \in Nat : n = IF s.branch # {} THEN k ELSE s.round
  BY DEF Runs
<1>5. [s EXCEPT !.phase = "running", !.reentrant = FALSE, !.paused = FALSE, !.round = n] \in Runs
  BY DEF Runs
<1>6. CASE s.phase = "finishing" /\ ~s.stale
  <2>1. Reopened(s) = [s EXCEPT !.stale = TRUE, !.round = k]
    BY <1>2, <1>6 DEF Reopened
  <2> QED BY <1>1, <1>3, <1>6, <2>1 DEF Runs
<1>7. CASE s.phase = "done"
  <2>1. Reopened(s) = [s EXCEPT !.phase = "running", !.reentrant = FALSE, !.paused = FALSE,
                                !.round = n]
    BY <1>2, <1>4, <1>7 DEF Reopened
  <2> QED BY <1>1, <1>5, <1>7, <2>1, SavedIs DEF Runs
<1>8. CASE ~(s.phase = "finishing" /\ ~s.stale) /\ s.phase # "done"
  <2>1. Reopened(s) = s
    BY <1>8 DEF Reopened
  <2> QED BY <1>1, <1>8, <2>1, SavedIs
<1> QED BY <1>6, <1>7, <1>8

LEMMA JoinedIs ==
  ASSUME AutopilotInv, item # NoItem
  PROVE  /\ RunFits(Adopted) /\ Adopted.limits = saved.limits
         /\ saved.phase = "finishing" => Adopted.phase = "finishing"
         /\ IsActive(Adopted) /\ Adopted.paused => Active /\ saved.paused
<1>1. CASE Adopted = saved
  BY <1>1, BothFit DEF Active
<1>2. CASE Adopted = Reopened(saved)
  <2>1. RunFits(Reopened(saved))
    BY ReopenedIs, SavedIs, FitsAs
  <2> QED BY <1>2, <2>1, ReopenedIs DEF Active, IsActive
<1>3. CASE /\ item.created # 0 /\ Effect = "FollowUp"
           /\ Adopted = [Reopened(saved) EXCEPT !.roots = @ \cup {item.created}]
  <2>1. PICK s \in Runs : s = Reopened(saved)
    BY ReopenedIs
  <2>2. item.created \in Existing(view) /\ RootOf(view, item.created) = item.created
    BY <1>3, ItemIs, EffectIs
  <2>3. PICK w : w = [s EXCEPT !.roots = @ \cup {item.created}]
    OBVIOUS
  <2>4. /\ w \in Runs /\ w.roots = s.roots \cup {item.created} /\ w.retry = s.retry
        /\ w.phase = s.phase /\ w.paused = s.paused /\ w.stale = s.stale
        /\ w.through = s.through /\ w.limits = s.limits
    BY <2>2, <2>3, SavedIs DEF Runs
  <2>5. RunFits(w)
    BY <2>1, <2>2, <2>4, ReopenedIs, SavedIs DEF RunFits, RunIn
  <2> QED BY <1>3, <2>1, <2>3, <2>4, <2>5, ReopenedIs DEF Active, IsActive
<1> QED BY <1>1, <1>2, <1>3 DEF Adopted

LEMMA NoItemOK ==
  ASSUME AutopilotInv, UNCHANGED <<tasks, view>>, item' = NoItem, command' = NoCommand
  PROVE  ItemInv'
<1>1. NoItem \in Items /\ Len(tasks) \in Nat
  BY StoreIs DEF NoItem, Items, Effects, AutopilotInv
<1>2. 0 \in 0..Len(tasks)
  BY <1>1
<1> QED BY <1>1, <1>2 DEF ItemInv, ItemTypeOK, NoItem, NoCommand

LEMMA OwnerGoesOn ==
  ASSUME AutopilotInv, OwnerStep, ~OwnerGivesUp
  PROVE  ItemInv' /\ CommandInv' /\ RepairInv'
<1>0. /\ StoreMoves /\ Idle /\ item # NoItem
      /\ UNCHANGED <<store, view, behind, launching, capacity>>
  BY Still DEF OwnerStep, Instructed, bounds
<1>1. Existing(view)' = Existing(view) /\ Len(tasks)' = Len(tasks)
      /\ Existing(view) \subseteq 1..Len(tasks) /\ Len(tasks) \in Nat
  BY <1>0, StoreIs DEF store, Existing, AutopilotInv
<1>2. CASE OwnerEnds
  <2>1. command' = NoCommand /\ ownerLast' = "none" /\ item' = NoItem
    BY <1>0, <1>2 DEF OwnerEnds, Idle
  <2> QED BY <1>0, <2>1, NoItemOK, CommandFrame DEF StaysFit, Fits, store
<1>3. CASE ~OwnerEnds
  <2>1. PICK step : step = OwnerDecision
    OBVIOUS
  <2>2. /\ step[1] \notin {"done", "fail"} /\ ownerLast' = "none"
        /\ item' = [item EXCEPT
                      !.effect = Effect, !.child = item.created,
                      !.cancelled = @ \/ step[1] = "cancel-worker",
                      !.runs = IF step[1] = "run" THEN @ + 1 ELSE @]
        /\ command' = IF step[1] = "wait" THEN command
                      ELSE [by |-> "owner", kind |-> step[1], task |-> step[2],
                            at |-> "barrier", stale |-> behind]
    BY <1>3, <2>1 DEF OwnerStep
  <2>3. PICK i \in Items : i = item
    BY <1>0, ItemIs
  <2>4. PICK cancelled \in BOOLEAN : cancelled = (i.cancelled \/ step[1] = "cancel-worker")
    OBVIOUS
  <2>5. PICK runs \in Nat : runs = IF step[1] = "run" THEN i.runs + 1 ELSE i.runs
    BY DEF Items
  <2>6. PICK effect \in Effects : effect = Effect
    BY <1>0, EffectIs
  <2>7. [i EXCEPT !.effect = effect, !.child = i.created, !.cancelled = cancelled,
                  !.runs = runs] \in Items
    BY DEF Items
  <2>8. /\ item' \in Items /\ item'.root = item.root /\ item'.task = item.task
        /\ item'.created = item.created /\ item'.effect = Effect
    BY <2>2, <2>3, <2>4, <2>5, <2>6, <2>7 DEF Items
  <2>9. ItemTypeOK'
    BY <1>0, <1>1, <2>8 DEF AutopilotInv, ItemInv, ItemTypeOK
  <2>10. /\ item'.root # 0 /\ {item'.root, item'.task} \subseteq Existing(view)'
         /\ item'.effect # "none"
    BY <1>0, <1>1, <2>8, ItemIs, EffectIs
  <2>11. item'.created # 0 =>
           /\ item'.created \in Existing(view)' /\ item'.effect \notin {"none", "Steer"}
           /\ item'.effect = "FollowUp" => RootOf(view, item.created)' = item'.created
           /\ item'.effect # "ReviewRepair"
    BY <1>0, <1>1, <2>8, ItemIs, EffectIs DEF RootOf
  <2>12. CASE step[1] = "wait"
    <3>1. command' = NoCommand
      BY <1>0, <2>2, <2>12 DEF Idle
    <3>2. ItemInv'
      BY <2>8, <2>9, <2>10, <2>11, <3>1 DEF ItemInv, NoCommand
    <3> QED BY <1>0, <2>2, <3>1, <3>2, CommandFrame DEF StaysFit, Fits
  <2>13. CASE step[1] # "wait"
    <3>1. command' = [by |-> "owner", kind |-> step[1], task |-> step[2], at |-> "barrier",
                      stale |-> behind]
      BY <2>2, <2>13
    <3>2. /\ step[1] \in CommandKinds \ {"none", "dispatch"} /\ step[2] \in Existing(view)
          /\ step[1] \in {"repair", "review-repair", "follow-up"} => item.created = 0
          /\ step[1] = "repair" => Effect \in {"Repair", "AfterCheck"}
          /\ step[1] = "review-repair" => Effect = "ReviewRepair" /\ step[2] = item.task
          /\ step[1] = "follow-up" => Effect = "FollowUp"
      BY <1>0, <2>1, <2>2, <2>13, DecisionIs
    <3>3. ItemInv'
      BY <2>8, <2>9, <2>10, <2>11, <3>1, <3>2 DEF ItemInv
    <3>4. command' \in Commands /\ command'.task <= Len(tasks)'
      <4>1. behind \in BOOLEAN /\ step[2] \in Nat /\ step[2] <= Len(tasks)
        BY <1>1, <3>2, StoreIs DEF AutopilotInv
      <4> QED BY <1>1, <3>1, <3>2, <4>1 DEF Commands
    <3>5. CommandInv'
      BY <1>0, <1>1, <2>2, <3>1, <3>2, <3>4 DEF CommandInv, CommandTypeOK
    <3> QED BY <3>1, <3>3, <3>5 DEF RepairInv
  <2> QED BY <2>12, <2>13
<1> QED BY <1>2, <1>3

LEMMA OwnerStepOK ==
  ASSUME AutopilotInv, OwnerStep
  PROVE  AutopilotInv'
<1>0. /\ StoreMoves /\ Idle /\ item # NoItem
      /\ UNCHANGED <<store, view, behind, transient, last, recovering, launching, work, branch,
                     capacity, automatic>>
  BY Still DEF OwnerStep, Instructed, bounds
<1>1. ItemInv' /\ CommandInv' /\ RepairInv' /\ command'.by \in {"none", "owner"}
  <2>1. CASE OwnerGivesUp
    <3>1. command' = NoCommand /\ ownerLast' = "none" /\ item' = NoItem
      BY <1>0, <2>1 DEF OwnerStep, OwnerEnds, Idle
    <3> QED BY <1>0, <3>1, NoItemOK, CommandFrame DEF StaysFit, Fits, store, NoCommand
  <2>2. CASE ~OwnerGivesUp
    BY <1>0, <2>2, OwnerGoesOn DEF OwnerStep, OwnerEnds, Idle, NoCommand
  <2> QED BY <2>1, <2>2
<1>2. /\ RunMoves /\ PausedIsQuiet'
      /\ saved.phase = "finishing" => saved'.phase = "finishing"
      /\ UNCHANGED <<saved, attempts>> \/ attempts' = NoAttempts
  <2>1. CASE UNCHANGED <<stateFile, attempts>>
    BY <1>0, <1>1, <2>1, RunStays, QuietStays, WorkIs DEF stateFile, launching
  <2>2. CASE Save(Adopted) /\ attempts' = NoAttempts
    <3>1. RunMoves /\ saved'.phase = Adopted.phase
      BY <1>0, <1>1, <2>2, JoinedIs, SaveIs
    <3>2. PausedIsQuiet'
      BY <1>0, <1>1, <2>2, JoinedIs, QuietAfter DEF launching
    <3> QED BY <1>0, <2>2, <3>1, <3>2, JoinedIs
  <2> QED BY <2>1, <2>2 DEF OwnerStep
<1>3. RunInv' /\ LoopInv'
  BY <1>0, <1>2, RunFrame, LoopFrame, SavedIs DEF branch, work, RunMoves
<1>4. MemoryInv'
  <2>1. /\ Attempts \in Nat \ {0} /\ TransientLimit \in Nat \ {0}
        /\ ownerTransient \in 0..TransientLimit - 1
    BY LoopConstants DEF AutopilotInv, StoreInv, MemoryInv, MemoryTypeOK
  <2>2. ownerTransient' \in 0..TransientLimit - 1
    BY <2>1 DEF OwnerStep, OwnerGivesUp
  <2>3. NoAttempts \in [Keys -> 0..Attempts + 1] /\ \A k \in Keys : NoAttempts[k] <= Attempts
    BY <2>1 DEF NoAttempts
  <2> QED BY <1>0, <1>2, <2>2, <2>3 DEF AutopilotInv, MemoryInv, MemoryTypeOK, store
<1>5. WorkInv'
  BY <1>0, <1>2, WorkFrame DEF launching, work
<1> QED BY <1>0, <1>1, <1>3, <1>4, <1>5, MovesFacts DEF AutopilotInv

-----------------------------------------------------------------------------
(* The processes. *)

LEMMA StaysSame ==
  ASSUME AutopilotInv, UNCHANGED vars
  PROVE  AutopilotInv'
BY Halts, WorkIs DEF vars, bounds, branch, work, launching

LEMMA WorkerOK ==
  ASSUME AutopilotInv, NEW t \in 1..Len(tasks), Worker(t) \/ Launch(t)
  PROVE  AutopilotInv'
BY ClaimOK, ClaimRefusedOK, EndRunOK, LaunchOK DEF Worker

LEMMA SystemOK ==
  ASSUME AutopilotInv, System
  PROVE  AutopilotInv'
<1>1. CASE Barrier
  BY <1>1, WithdrawOK, OpenBarrierOK, TransactOK, EnableDispatchOK, StartOwnerOK, CancelOwnerOK
     DEF Barrier
<1>2. CASE Refresh \/ Compose \/ OwnerStep
  BY <1>2, RefreshOK, ComposeOK, OwnerStepOK
<1>3. CASE \E t \in 1..Len(tasks) : Worker(t) \/ Launch(t)
  BY <1>3, WorkerOK
<1>4. CASE Tick
  BY <1>4, PauseOK, ReenterOK, PollOK, RunningStepOK DEF Tick
<1> QED BY <1>1, <1>2, <1>3, <1>4 DEF System

LEMMA UserOK ==
  ASSUME AutopilotInv, User
  PROVE  AutopilotInv'
<1>1. CASE Pause \/ Stop
  BY <1>1, PauseOK
<1>2. CASE Resume
  BY <1>2, ResumeOK DEF Resume, GoesOn, Input
<1>3. CASE \E t \in 1..Len(tasks) : CancelWorker(t) \/ Instruct(t)
  BY <1>3, CancelWorkerOK, InstructOK
<1>4. CASE \E t \in 1..Len(tasks), kind \in UserWrites : Write(kind, t)
  BY <1>4, WriteOK
<1>5. CASE Type("dispatch", 0) \/ \E t \in Existing(view) : Type("run", t)
  BY <1>5, TypedOK
<1>6. CASE DispatchOff
  BY <1>6, DispatchOffOK
<1> QED BY <1>1, <1>2, <1>3, <1>4, <1>5, <1>6 DEF User

LEMMA TurnOK ==
  ASSUME AutopilotInv, Turn
  PROVE  AutopilotInv' /\ (shell.stopping => UNCHANGED saved)
<1>1. CASE Transact \/ EnableDispatch \/ Refresh \/ Compose
  <2>1. UNCHANGED saved
    BY <1>1 DEF Transact, EnableDispatch, Refresh, Compose, stateFile
  <2> QED BY <1>1, <2>1, TransactOK, EnableDispatchOK, RefreshOK, ComposeOK
<1>2. CASE \E t \in 1..Len(tasks) : Worker(t)
  <2>1. UNCHANGED saved
    BY <1>2 DEF Worker, Claim, ClaimRefused, EndRun, stateFile
  <2> QED BY <1>2, <2>1, WorkerOK
<1>3. CASE ~Quiet /\ (HeadlessTick \/ OpenBarrier \/ \E t \in 1..Len(tasks) : Launch(t))
  BY <1>3, PauseOK, ReenterOK, PollOK, RunningStepOK, OpenBarrierOK, WorkerOK
     DEF HeadlessTick, Quiet
<1> QED BY <1>1, <1>2, <1>3 DEF Turn

LEMMA ShellPauses ==
  ASSUME AutopilotInv, Interrupt \/ StepFails \/ NotRecorded \/ PausedItself
  PROVE  AutopilotInv' /\ (~Active' \/ saved'.paused)
<1>1. /\ \/ Active /\ Halt(saved)
         \/ ~Active /\ UNCHANGED <<stateFile, dispatching, command>>
      /\ flagged' \subseteq workers /\ UNCHANGED capacity
      /\ Others /\ UNCHANGED job
  BY WorkIs DEF Interrupt, StepFails, NotRecorded, PausedItself, StopRunning, bounds, Input, Others,
     branch, Quiet, Running
<1>2. AutopilotInv' /\ (Active /\ Halt(saved) => saved'.paused)
  BY <1>1, Halts, WorkIs DEF Others
<1>3. CASE ~Active /\ UNCHANGED <<stateFile, dispatching, command>>
  <2>1. ~Active'
    BY <1>3 DEF Active, IsActive, stateFile
  <2> QED BY <1>2, <2>1
<1> QED BY <1>1, <1>2, <1>3

\* What the exit says stays true as long as the run does.
LEMMA ExitStays ==
  ASSUME AutopilotInv, ExitIsTrue,
         UNCHANGED <<tasks, resolved, saved, file, command, workers, shell>>
  PROVE  ExitIsTrue'
<1>1. saved.phase \in {"running", "finishing", "done", "failed"}
  BY SavedIs DEF Runs
<1>2. (Finished <=> ~Active) /\ (Finished' <=> ~Active')
  BY <1>1 DEF Finished, RunState, Active, IsActive
<1>3. Active' = Active
  BY DEF Active, IsActive
<1>4. (saved = Restored(file))' <=> saved = Restored(file)
  BY DEF Restored, IsActive
<1> QED BY <1>2, <1>3, <1>4 DEF ExitIsTrue, In, Idle

LEMMA ShellsAre ==
  /\ NoShell \in Shells /\ Looping \in Shells /\ [NoShell EXCEPT !.pc = "starting"] \in Shells
  /\ [Looping EXCEPT !.retry = TRUE] \in Shells
  /\ NoShell.pc = "terminal" /\ ~NoShell.stopping /\ Looping.pc = "loop" /\ ~Looping.stopping
  /\ [NoShell EXCEPT !.pc = "starting"].pc = "starting"
  /\ [Looping EXCEPT !.retry = TRUE].pc = "loop"
  /\ ~[Looping EXCEPT !.retry = TRUE].stopping
<1>1. PICK s \in Shells : s = NoShell
  BY DEF NoShell, Shells
<1>2. [s EXCEPT !.pc = "loop"] \in Shells /\ [s EXCEPT !.pc = "starting"] \in Shells
  BY DEF Shells
<1>3. PICK l \in Shells : l = Looping
  BY <1>1, <1>2 DEF Looping
<1>4. [l EXCEPT !.retry = TRUE] \in Shells
  BY DEF Shells
<1> QED BY <1>1, <1>2, <1>3, <1>4 DEF Looping, NoShell

LEMMA EndOK ==
  ASSUME HeadlessInv, End
  PROVE  ShellInv'
<1>1. AutopilotInv /\ ShellInv /\ In("loop") /\ UNCHANGED vars /\ Ends
  BY DEF HeadlessInv, End
<1>2. Accepted(view) \subseteq Existing(view) /\ Existing(view) \subseteq Nat
  <2>1. Accepted(view) \subseteq DOMAIN Settled(view)
    BY DEF Accepted
  <2>2. DOMAIN Settled(view) = saved.roots \cap Existing(view)
    BY SettledDomain
  <2>3. saved.roots \subseteq Existing(view) /\ Existing(view) \subseteq Nat
    BY <1>1, SavedIs
  <2> QED BY <2>1, <2>2, <2>3
<1>3. PICK exit \in {0, 1} : exit = IF ~shell.fatal /\ RunState = "done" THEN 0 ELSE 1
  OBVIOUS
<1>4. PICK s \in Shells : s = shell
  BY <1>1 DEF ShellInv
<1>5. PICK accepted \in SUBSET Nat : accepted = Accepted(view)
  BY <1>2
<1>6. [s EXCEPT !.pc = "ended", !.accepted = accepted, !.exit = exit] \in Shells
  BY DEF Shells
<1>7. /\ shell' \in Shells /\ shell'.pc = "ended" /\ shell'.accepted = accepted
      /\ shell'.exit = exit /\ shell'.fatal = shell.fatal /\ shell'.stopping = shell.stopping
  <2>1. shell' = [s EXCEPT !.pc = "ended", !.accepted = accepted, !.exit = exit]
    BY <1>3, <1>4, <1>5 DEF End
  <2>2. /\ shell'.pc = "ended" /\ shell'.accepted = accepted /\ shell'.exit = exit
        /\ shell'.fatal = s.fatal /\ shell'.stopping = s.stopping
    BY <2>1 DEF Shells
  <2> QED BY <1>4, <1>6, <2>1, <2>2
<1>8. saved.phase \in {"running", "finishing", "done", "failed"}
  BY <1>1, SavedIs DEF Runs
<1>9. /\ UNCHANGED <<tasks, resolved, saved, workers>>
      /\ (Finished <=> ~Active) /\ (Finished' <=> ~Active') /\ Active' = Active
  BY <1>1, <1>8 DEF Finished, RunState, Active, IsActive, vars, store, work, stateFile
<1>10. ~shell.stopping => Finished /\ workers = {}
  BY <1>1 DEF Ends, Drained
<1>11. shell.stopping => ~Active \/ saved.paused
  BY <1>1 DEF ShellInv
<1>12. ASSUME exit = 0
       PROVE  /\ accepted = saved.roots
              /\ \A r \in saved.roots : resolved[r] # 0 \/ tasks[r].status = "Accepted"
  <2>1. Accepted(view) = saved.roots
    BY <1>3, <1>12 DEF RunState
  <2>2. ASSUME NEW r \in saved.roots PROVE resolved[r] # 0 \/ tasks[r].status = "Accepted"
    <3>1. r \in DOMAIN Settled(view) /\ Settled(view)[r] = "success"
      BY <2>1 DEF Accepted
    <3>2. view.tasks \in Seq(Tasks) /\ RootsOK(view.tasks)
      BY <1>1, ViewRoots, StoreIs DEF AutopilotInv
    <3>3. Source(view, r) # 0
      BY <3>1, <3>2, SettledIs
    <3>4. r \in Existing(view) /\ r \in Ids /\ Stays(view.tasks[r], tasks[r])
      BY <1>1, SavedIs, StoreIs, ViewIs DEF AutopilotInv
    <3>5. KeepsResolved(view.resolved, resolved)
      BY <1>1 DEF AutopilotInv, ViewInv
    <3> QED BY <3>3, <3>4, <3>5 DEF Source, KeepsResolved, Stays, Status
  <2> QED BY <1>5, <2>1, <2>2
<1>13. ExitIsTrue'
  BY <1>7, <1>9, <1>10, <1>11, <1>12 DEF ExitIsTrue, In
<1> QED BY <1>7, <1>13 DEF ShellInv, In

LEMMA NothingDone ==
  ASSUME HeadlessInv, In("starting"), UNCHANGED vars,
         shell' = [shell EXCEPT !.pc = "ended", !.exit = 2]
  PROVE  HeadlessInv'
<1>1. /\ AutopilotInv /\ shell \in Shells /\ Idle /\ workers = {} /\ saved = Restored(file)
  BY DEF HeadlessInv, ShellInv
<1>2. AutopilotInv'
  BY <1>1, StaysSame
<1>3. PICK s \in Shells : s = shell
  BY <1>1
<1>4. [s EXCEPT !.pc = "ended", !.exit = 2] \in Shells
  BY DEF Shells
<1>5. shell' \in Shells /\ shell'.pc = "ended" /\ shell'.exit = 2
  BY <1>3, <1>4 DEF Shells
<1>6. saved' = Restored(file)' /\ Idle' /\ workers' = {}
  BY <1>1 DEF vars, stateFile, work, Idle, Restored, IsActive
<1> QED BY <1>2, <1>5, <1>6 DEF HeadlessInv, ShellInv, ExitIsTrue, In

LEMMA ContinueOK ==
  ASSUME HeadlessInv, Continue
  PROVE  HeadlessInv'
<1>1. /\ AutopilotInv /\ ShellInv /\ In("starting") /\ attempts = NoAttempts
      /\ UNCHANGED <<store, view, behind, memory, owner, launching, work, branch, bounds,
                     automatic>>
  BY DEF HeadlessInv, Continue, ShellInv
<1>2. CASE Active
  <2>1. AutopilotInv'
    <3>1. Save(GoesOn) /\ UNCHANGED command
      BY <1>2 DEF Continue, GoesOn
    <3> QED BY <1>1, <3>1, ResumeOK, LastIs DEF memory, bounds
  <2>2. shell' = Looping
    BY <1>2 DEF Continue
  <2> QED BY <1>1, <2>1, <2>2, ShellsAre DEF HeadlessInv, ShellInv, ExitIsTrue, In
<1>3. CASE /\ ~Active /\ shell' = [Looping EXCEPT !.retry = TRUE] /\ UNCHANGED stateFile
           /\ command' = [by |-> "headless", kind |-> "repair", at |-> "barrier", stale |-> behind,
                          task |-> HeadOf(view, Min({r \in saved.roots : Stopped(r)}))]
           /\ \E r \in saved.roots : Stopped(r)
  <2>1. {r \in saved.roots : Stopped(r)} \in SUBSET Nat
    BY <1>1, SavedIs
  <2>2. Min({r \in saved.roots : Stopped(r)}) \in saved.roots
    BY <1>3, <2>1, LeastTask
  <2>3. PICK t : t = HeadOf(view, Min({r \in saved.roots : Stopped(r)}))
    OBVIOUS
  <2>4. t \in Existing(view) /\ t \in Nat /\ t <= Len(tasks)
    BY <1>1, <2>2, <2>3, HeadsIn, StoreIs, ViewIs DEF AutopilotInv
  <2>5. command' = [by |-> "headless", kind |-> "repair", at |-> "barrier", stale |-> behind,
                    task |-> t]
    BY <1>3, <2>3
  <2>6. StoreMoves
    BY <1>1, Still DEF bounds
  <2>7. RunInv' /\ LoopInv' /\ WorkInv'
    <3>1. RunInv'
      BY <1>1, <1>3, <2>5, <2>6, SavedFrame, SavedIs, WorkIs DEF branch, memory, work, stateFile
    <3>2. PausedIsQuiet'
      BY <1>1, <1>3, QuietStays DEF stateFile, launching
    <3> QED BY <1>1, <1>3, <2>6, <3>1, <3>2, LoopFrame, BothFit, WorkFrame
            DEF work, launching, stateFile
  <2>8. MemoryInv'
    BY <1>1, <1>3, <2>6, MemoryFrame, LastIs DEF memory, owner, stateFile, Afresh
  <2>9. CommandInv' /\ RepairInv'
    <3>1. Existing(view)' = Existing(view) /\ Len(tasks)' = Len(tasks) /\ behind \in BOOLEAN
      BY <1>1, StoreIs DEF store, Existing, AutopilotInv
    <3>2. command' \in Commands
      BY <2>4, <2>5, <3>1 DEF Commands, CommandKinds, Kinds
    <3> QED BY <1>1, <2>4, <2>5, <3>1, <3>2, LastIs DEF CommandInv, CommandTypeOK, RepairInv, owner
  <2>10. ItemInv'
    BY <1>1, <2>5, <2>6, ItemFrame DEF owner
  <2>11. ShellInv'
    <3>1. shell' \in Shells /\ shell'.pc = "loop" /\ ~shell'.stopping
      BY <1>3, ShellsAre
    <3> QED BY <3>1 DEF ShellInv, ExitIsTrue, In
  <2> QED BY <1>1, <2>6, <2>7, <2>8, <2>9, <2>10, <2>11, MovesFacts DEF AutopilotInv, HeadlessInv
<1>4. CASE shell' = [shell EXCEPT !.pc = "ended", !.exit = 2] /\ UNCHANGED <<stateFile, command>>
  BY <1>1, <1>4, NothingDone DEF vars
<1> QED BY <1>2, <1>3, <1>4 DEF Continue

\* A step of the process in its loop that only changes how far it is.
LEMMA ShellMoves ==
  ASSUME HeadlessInv, In("loop"), AutopilotInv',
         shell' \in Shells, shell'.pc = "loop",
         shell'.stopping => ~Active' \/ saved'.paused
  PROVE  HeadlessInv'
BY DEF HeadlessInv, ShellInv, ExitIsTrue, In

LEMMA ShellStep ==
  ASSUME HeadlessInv, HeadlessNext
  PROVE  HeadlessInv'
<1>0. AutopilotInv /\ ShellInv /\ shell \in Shells
  BY DEF HeadlessInv, ShellInv
<1>1. CASE Terminal
  <2>1. AutopilotInv'
    BY <1>0, <1>1, SystemOK, RecordProgressOK, UserOK DEF Terminal
  <2> QED BY <1>0, <1>1, <2>1 DEF Terminal, HeadlessInv, ShellInv, ExitIsTrue, In
<1>2. CASE Elsewhere
  <2>1. AutopilotInv' /\ UNCHANGED saved
    BY <1>0, <1>2, WriteOK DEF Elsewhere, Write, stateFile
  <2> QED BY <1>0, <1>2, <2>1, ShellMoves DEF Elsewhere, ShellInv, In, Active, IsActive
<1>3. CASE Turn
  <2>1. AutopilotInv' /\ (shell.stopping => UNCHANGED saved)
    BY <1>0, <1>3, TurnOK
  <2> QED BY <1>0, <1>3, <2>1, ShellMoves DEF Turn, ShellInv, In, Active, IsActive
<1>4. CASE Interrupt \/ StepFails \/ NotRecorded \/ PausedItself
  <2>1. AutopilotInv' /\ (~Active' \/ saved'.paused)
    BY <1>0, <1>4, ShellPauses
  <2>2. PICK s \in Shells : s = shell
    BY <1>0
  <2>3. /\ [s EXCEPT !.stopping = TRUE] \in Shells
        /\ [s EXCEPT !.stopping = TRUE, !.fatal = TRUE] \in Shells
        /\ [s EXCEPT !.stopping = TRUE, !.retry = FALSE] \in Shells
    BY DEF Shells
  <2>4. shell' \in Shells /\ shell'.pc = "loop" /\ In("loop")
    BY <1>4, <2>2, <2>3 DEF Interrupt, StepFails, NotRecorded, PausedItself, In, Shells
  <2> QED BY <2>1, <2>4, ShellMoves
<1>5. CASE RetryTakes \/ RetryGivesUp
  <2>1. AutopilotInv' /\ In("loop") /\ UNCHANGED saved
    BY <1>0, <1>5, StaysSame DEF RetryTakes, RetryGivesUp, vars, stateFile
  <2>2. PICK s \in Shells : s = shell
    BY <1>0
  <2>3. /\ [s EXCEPT !.retry = FALSE] \in Shells
        /\ [s EXCEPT !.retry = FALSE, !.fatal = TRUE] \in Shells
    BY DEF Shells
  <2>4. shell' \in Shells /\ shell'.pc = "loop" /\ shell'.stopping = shell.stopping
    BY <1>5, <2>2, <2>3 DEF RetryTakes, RetryGivesUp, In, Shells
  <2> QED BY <1>0, <2>1, <2>4, ShellMoves DEF ShellInv, Active, IsActive
<1>6. CASE End
  BY <1>0, <1>6, EndOK, StaysSame DEF End, HeadlessInv
<1>7. CASE Signal
  <2>1. AutopilotInv' /\ In("loop") /\ UNCHANGED saved
    BY <1>0, <1>7, Halts, WorkIs DEF Signal, Input, branch, work, launching, stateFile
  <2>2. PICK s \in Shells : s = shell
    BY <1>0
  <2>3. [s EXCEPT !.signals = @ + 1] \in Shells
    BY DEF Shells
  <2>4. shell' \in Shells /\ shell'.pc = "loop" /\ shell'.stopping = shell.stopping
    BY <1>7, <2>2, <2>3 DEF Signal, In, Shells
  <2> QED BY <1>0, <2>1, <2>4, ShellMoves DEF ShellInv, Active, IsActive
<1>8. CASE Restart
  <2>1. /\ AutopilotInv' /\ attempts' = NoAttempts /\ Idle' /\ workers' = {}
        /\ saved' = Restored(file)'
    BY <1>0, <1>8, CrashOK DEF Restart, Crash, Idle, Restored, IsActive
  <2>2. shell' \in Shells /\ shell'.pc \in {"terminal", "starting"}
    BY <1>8, ShellsAre DEF Restart
  <2> QED BY <2>1, <2>2 DEF HeadlessInv, ShellInv, ExitIsTrue, In
<1>9. CASE Continue
  BY <1>9, ContinueOK
<1>10. CASE Records
  <2>1. AutopilotInv' /\ In("loop") /\ ~shell.stopping /\ UNCHANGED shell
    BY <1>0, <1>10, RecordProgressOK DEF Records, Quiet
  <2> QED BY <1>0, <2>1, ShellMoves DEF In
<1>11. CASE SetupFails
  BY <1>11, NothingDone DEF SetupFails
<1> QED BY <1>1, <1>2, <1>3, <1>4, <1>5, <1>6, <1>7, <1>8, <1>9, <1>10, <1>11 DEF HeadlessNext

-----------------------------------------------------------------------------
(* The start. *)

LEMMA StartOK ==
  ASSUME NEW scenario \in Scenarios, Begin(scenario)
  PROVE  AutopilotInv
<1>0. AutopilotConstants
  BY AutopilotBounds
<1>1. /\ MaxRepairs \in Nat /\ Attempts \in Nat \ {0} /\ TransientLimit \in Nat \ {0}
      /\ MaxTasks \in Nat
  BY <1>0, LoopConstants
<1>2. PICK plan : plan = scenario.plan
  OBVIOUS
<1>3. PICK n \in 1..MaxTasks : n = Len(plan)
  BY <1>0, <1>2 DEF AutopilotConstants
<1>4. /\ DOMAIN plan = 1..n /\ capacity \in n..MaxTasks
      /\ \A t \in 1..n : plan[t] \subseteq 1..t - 1
  BY <1>0, <1>2, <1>3 DEF AutopilotConstants, Begin
<1>5. tasks = [t \in 1..n |-> [root |-> t, of |-> 0, needs |-> plan[t], status |-> "Proposed",
                               run |-> FALSE, approvals |-> 0]]
  BY <1>2, <1>4 DEF Begin
<1>6. ASSUME NEW t \in 1..n
      PROVE  [root |-> t, of |-> 0, needs |-> plan[t], status |-> "Proposed", run |-> FALSE,
              approvals |-> 0] \in Tasks
  <2>1. plan[t] \in SUBSET Nat
    BY <1>4
  <2> QED BY <2>1 DEF Tasks, Statuses
<1>7. tasks \in Seq(Tasks) /\ Len(tasks) = n
  BY <1>5, <1>6
<1>8. \A t \in 1..n : tasks[t].root = t /\ tasks[t].of = 0 /\ tasks[t].needs \subseteq 1..t - 1
  BY <1>4, <1>5
<1>9. FamiliesOK(tasks) /\ RootsOK(tasks)
  BY <1>7, <1>8 DEF FamiliesOK, RootsOK
<1>10. view.tasks = tasks /\ view.resolved = resolved /\ behind = FALSE /\ Existing(view) = 1..n
       /\ resolved \in [Ids -> Nat]
  BY <1>7 DEF Begin, Existing
<1>11. StoreInv
  <2>1. Existing(view) \subseteq 1..Len(tasks) /\ capacity \in 0..MaxTasks
        /\ Len(tasks) <= capacity
    BY <1>1, <1>3, <1>4, <1>7, <1>10
  <2>2. behind \in BOOLEAN
    BY <1>10
  <2> QED BY <2>1, <2>2, <1>0, <1>1, <1>3, <1>4, <1>7, <1>9, <1>10 DEF StoreInv, StoreTypeOK
<1>12. ViewInv
  BY <1>7, <1>10, LaterStays DEF ViewInv, KeepsResolved
<1>13. RunInv
  <2>1. saved.roots = 1..n
    BY <1>5 DEF Begin
  <2>2. NoLimits \in [Ids -> Nat \cup {-1}]
    BY DEF NoLimits
  <2>3. saved \in Runs
    BY <2>2, <1>5 DEF Begin, Runs
  <2>4. /\ saved.retry = {} /\ ~saved.stale /\ saved.through = 0 /\ job = NoJob
        /\ recovering = {} /\ workers = {}
    BY DEF Begin
  <2>5. NoJob \in [at : {"none", "composing", "made", "refused"}, round : Nat, sources : SUBSET Nat]
    BY DEF NoJob
  <2>6. file = saved /\ saveFaults \in Nat /\ overridden = FALSE /\ command = NoCommand
    BY <1>0 DEF Begin, AutopilotConstants
  <2>7. RunOK(saved) /\ RunIn(saved)
    BY <1>7, <1>8, <1>10, <2>1, <2>3, <2>4 DEF RunOK, RunIn, RootOf
  <2>8. recovering \cup workers \subseteq Existing(view)
    BY <2>4
  <2> QED BY <2>4, <2>5, <2>6, <2>7, <2>8 DEF RunInv, RunTypeOK, NoCommand
<1>14. MemoryInv
  BY <1>1 DEF Begin, MemoryInv, MemoryTypeOK, NoAttempts
<1>15. CommandInv /\ RepairInv
  <2>1. NoCommand \in Commands
    BY DEF NoCommand, Commands, CommandKinds
  <2> QED BY <1>7, <2>1 DEF Begin, CommandInv, CommandTypeOK, RepairInv, NoCommand
<1>16. ItemInv
  <2>1. NoItem \in Items /\ 0 \in 0..n
    BY DEF NoItem, Items, Effects
  <2> QED BY <1>7, <2>1 DEF Begin, ItemInv, ItemTypeOK, NoItem, NoCommand
<1>17. WorkInv
  BY DEF Begin, WorkInv, WorkTypeOK, PausedIsQuiet
<1>18. LoopInv
  <2>1. \A r \in Ids : /\ ByLoop(r) = {} /\ LimitIn(saved, r) = MaxRepairs
                        /\ LimitIn(file, r) = MaxRepairs
    <3>1. saved.limits = NoLimits /\ file = saved /\ automatic = {}
      BY DEF Begin
    <3>2. \A r \in Ids : NoLimits[r] = -1
      BY DEF NoLimits
    <3> QED BY <3>1, <3>2 DEF ByLoop, LimitIn
  <2>2. Cardinality({}) = 0
    BY FS_EmptySet
  <2>3. RepairsBounded /\ \A r \in Ids : Cardinality(ByLoop(r)) <= LimitIn(file, r)
    BY <1>1, <2>1, <2>2 DEF RepairsBounded, RepairLimit
  <2> QED BY <2>3 DEF Begin, LoopInv
<1> QED BY <1>11, <1>12, <1>13, <1>14, <1>15, <1>16, <1>17, <1>18 DEF AutopilotInv

\* The invariant of the loop and of the processes that work on a run.
THEOREM LoopHolds == HeadlessSpec => []HeadlessInv
<1>1. HeadlessInit => HeadlessInv
  <2> SUFFICES ASSUME NEW scenario \in Scenarios, Begin(scenario),
                      shell = IF scenario.headless THEN Looping ELSE NoShell
               PROVE  HeadlessInv
    BY DEF HeadlessInit
  <2>1. shell \in {Looping, NoShell}
    OBVIOUS
  <2> QED BY <2>1, StartOK, ShellsAre DEF HeadlessInv, ShellInv, ExitIsTrue, In
<1>2. HeadlessInv /\ [HeadlessNext]_allVars => HeadlessInv'
  <2> SUFFICES ASSUME HeadlessInv, [HeadlessNext]_allVars PROVE HeadlessInv'
    OBVIOUS
  <2>1. CASE HeadlessNext
    BY <2>1, ShellStep
  <2>2. CASE UNCHANGED allVars
    <3>1. AutopilotInv /\ UNCHANGED vars /\ UNCHANGED shell /\ ShellInv
      BY <2>2 DEF allVars, HeadlessInv
    <3>2. AutopilotInv'
      BY <3>1, StaysSame
    <3>3. ExitIsTrue'
      BY <3>1, ExitStays DEF ShellInv, vars, store, work, stateFile
    <3>4. saved' = saved /\ file' = file /\ Idle' = Idle /\ workers' = workers
      BY <3>1 DEF vars, stateFile, work, Idle
    <3>5. Active' = Active /\ (saved' = Restored(file)' <=> saved = Restored(file))
      BY <3>4 DEF Active, IsActive, Restored
    <3> QED BY <3>1, <3>2, <3>3, <3>4, <3>5 DEF HeadlessInv, ShellInv, In, vars, memory
  <2> QED BY <2>1, <2>2
<1> QED BY <1>1, <1>2, PTL DEF HeadlessSpec

\* reference.md: the loop's repairs are bounded by --max-repairs, and /pause stops new
\* starts while manual commands keep working.  However the run is paused, stopped,
\* reopened, restarted or instructed, and whichever saves of its state fail, the loop
\* keeps within its bounds, and a paused run has dispatch off unless since the pause the
\* user typed /dispatch on or its state could not be saved.
THEOREM BudgetKept == HeadlessSpec => []BudgetHolds
<1>1. HeadlessInv => BudgetHolds
  BY DEF HeadlessInv, AutopilotInv, StoreInv, RunInv, MemoryInv, CommandInv, ItemInv, WorkInv,
     LoopInv, BudgetHolds, TypeOK
<1> QED BY <1>1, LoopHolds, PTL

\* headless.rs: what the exit code of a run without a terminal says is so, whatever the
\* user, the other terminals, the signals, the crashes and the failed saves do: 0 after a
\* run whose tasks were all accepted, 1 without an error after one that is over or
\* paused, 2 with the run as it was restored and nothing started.
THEOREM ExitTrue == HeadlessSpec => []ExitIsTrue
<1>1. HeadlessInv => ExitIsTrue
  BY DEF HeadlessInv, ShellInv
<1> QED BY <1>1, LoopHolds, PTL
===============================================================================
