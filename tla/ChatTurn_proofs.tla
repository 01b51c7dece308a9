---------------------------- MODULE ChatTurn_proofs ----------------------------
(***************************************************************************)
(* Proofs about chat turns, their approval cards and queued prompts, for    *)
(* any number of sessions, cards, prompts and retries.                      *)
(***************************************************************************)
EXTENDS ChatTurn, SequenceTheorems, WellFoundedInduction, TLAPS

-----------------------------------------------------------------------------
(* The invariant.  *)

Chats == [status : {"ready", "active", "complete", "failed", "cancelled"},
          attempt : Nat, turns : Nat, sent : Seq(Nat), queue : Seq(Seq(Nat)),
          draft : Seq(Nat), card : 0..MaxCards, steps : SUBSET Ids]

Jobs == [pc : {"none", "start", "round", "card", "waiting", "running"},
         attempt : Nat, id : Nat, card : 0..MaxCards, rounds : Nat]

Requests == [session : Sessions, attempt : Nat, turn : Nat, kind : {"edit", "shell"},
             base : Int, pre : Int, asked : BOOLEAN,
             answer : {"none", "yes", "always", "no", "closed"}, ruled : BOOLEAN,
             run : {"none", "spawned", "captured", "checked", "written", "running", "ended"},
             stop : BOOLEAN, wrote : BOOLEAN]

Updates == [attempt : Nat, what : {"result", "killed", "done", "failed"}, card : 0..MaxCards]

StateTypeOK ==
    /\ bound \in Scenarios
    /\ chat \in [Sessions -> Chats] /\ ready \in [Sessions -> Nat]
    /\ turn \in [Sessions -> Jobs]
    /\ cards \in Seq(Requests) /\ Len(cards) <= MaxCards
    /\ channel \in Seq(Ids) /\ replies \in [Sessions -> 0..MaxCards]
    /\ inbox \in [Sessions -> Seq(Updates)]
    /\ rules \subseteq {"edit", "shell"} /\ file \in Int
    /\ journal \in [turn : Nat, pre : Int, after : Int, whole : BOOLEAN]
    /\ log \in [Ids -> Seq(Outcomes)]
    /\ pass \in {"events", "cards", "keys", "abort", "quit"}
    /\ count \in [prompts : Nat, retries : Nat, turns : Nat, writes : Nat]

\* The job of the card is waiting for its answer.
Waits(c) == turn[cards[c].session].pc = "waiting" /\ turn[cards[c].session].card = c

\* The turn that asked is over, for good.
Stale(c) == ~Awaits(chat[cards[c].session], c)

InHand(c) == c \in ToSet(channel) \/ replies[cards[c].session] = c

Decisions == {"yes", "always", "no"}

\* Where a card can be, and what is logged of it by then.
CardHolds(c) ==
    LET k == cards[c] IN
      /\ k.attempt <= chat[k.session].attempt
      /\ k.answer # "none" => k.asked
      /\ k.ruled => ~k.asked /\ k.run # "none"
      /\ k.asked /\ k.answer = "none" /\ pass # "quit" => InHand(c) /\ (Waits(c) \/ Stale(c))
      /\ k.run = "none" =>
           /\ k.answer = "none" => log[c] = <<>>
           /\ k.answer = "closed" => log[c] = <<"cancelled">>
           /\ k.answer \in Decisions =>
                IF Waits(c) THEN log[c] = <<>> ELSE log[c] \in {<<"failed">>, <<"denied">>}
      /\ k.run # "none" => k.ruled \/ k.answer \in Decisions
      /\ k.run \notin {"none", "ended"} => log[c] = <<>>
      /\ k.run \in {"captured", "checked", "written", "running"} => Approved(c)
      /\ k.run \in {"captured", "checked", "written"} => k.kind = "edit"
      /\ k.run = "running" => k.kind = "shell"
      /\ k.run \in {"none", "spawned", "captured", "checked"} => ~k.wrote
      /\ k.run \in {"written", "running"} => k.wrote
      /\ k.run = "ended" =>
           /\ \E outcome \in Outcomes : log[c] = <<outcome>>
           /\ log[c] = <<"applied">> => k.wrote
           /\ log[c] = <<"denied">> => ~k.wrote
           /\ k.kind = "edit" /\ log[c] # <<"applied">> => ~k.wrote
      /\ k.wrote => Approved(c)

\* No request is held twice, and the ones that are held have no answer.
Asking(c) == c \in Cards /\ cards[c].asked /\ cards[c].answer = "none"

ChannelHolds ==
    /\ \A i \in DOMAIN channel :
         Asking(channel[i]) /\ channel[i] # replies[cards[channel[i]].session]
    /\ \A i, j \in DOMAIN channel : channel[i] = channel[j] => i = j

ReplyHolds(s) == replies[s] # 0 => Asking(replies[s]) /\ cards[replies[s]].session = s

JobHolds(s) ==
    LET j == turn[s] IN
      /\ j.attempt <= chat[s].attempt /\ j.rounds <= bound.steps
      /\ j.pc \in {"none", "start", "round"} => j.card = 0
      /\ j.pc \in {"card", "waiting", "running"} =>
           /\ j.card \in Cards
           /\ cards[j.card].session = s /\ cards[j.card].attempt = j.attempt
      /\ j.pc = "card" => ~cards[j.card].asked /\ ~cards[j.card].ruled
      /\ j.pc = "waiting" => cards[j.card].asked /\ cards[j.card].run = "none"
      /\ j.pc = "running" => cards[j.card].run # "none"

\* An update, and a step shown, is of a card of the turn that it names.
Owns(s, attempt, c) == c \in Cards /\ cards[c].session = s /\ cards[c].attempt = attempt

InboxHolds(s) ==
    \A i \in DOMAIN inbox[s] :
      inbox[s][i].what \in {"result", "killed"} => Owns(s, inbox[s][i].attempt, inbox[s][i].card)

\* Text is queued behind a turn that runs, or has just ended.
SessionHolds(s) ==
    LET t == chat[s] IN
      /\ t.turns <= bound.turns /\ Len(t.queue) <= MaxQueued
      /\ ready[s] <= t.attempt
      /\ ready[s] # 0 /\ ready[s] = t.attempt => turn[s].pc = "none"
      /\ t.card # 0 => Owns(s, t.attempt, t.card)
      /\ \A c \in t.steps : Owns(s, t.attempt, c)
      /\ t.queue # <<>> => t.status \in {"active", "complete"}
      /\ pass \in {"keys", "abort"} /\ t.queue # <<>> => Active(t)

\* What a key answers, at each point of a pass.
ShowHolds ==
    /\ pass = "events" => \A s \in Sessions : Pending(chat[s]) # 0 => replies[s] = Pending(chat[s])
    /\ pass \in {"cards", "keys"} => \A s \in Sessions : replies[s] = Pending(chat[s])
    /\ pass = "abort" => \E s \in Sessions :
         replies[s] = 0 /\ \A u \in Sessions \ {s} : replies[u] = Pending(chat[u])

IInv ==
    /\ StateTypeOK
    /\ \A c \in Cards : CardHolds(c)
    /\ \A c \in Ids \ Cards : log[c] = <<>>
    /\ ChannelHolds
    /\ \A s \in Sessions : ReplyHolds(s) /\ JobHolds(s) /\ InboxHolds(s) /\ SessionHolds(s)
    /\ ShowHolds
    /\ TextsInOrder

-----------------------------------------------------------------------------
(* Induction, and functions defined by recursion.  *)

\* A property given as the set of the numbers that have it.
LEMMA Climb ==
    ASSUME NEW S, 0 \in S, \A n \in Nat : n \in S => n + 1 \in S
    PROVE  Nat \subseteq S
<1> DEFINE T == {n \in Nat : n \notin S}
           Less == {p \in Nat \X Nat : p[1] < p[2]}
<1> SUFFICES ASSUME T # {} PROVE FALSE
  OBVIOUS
<1>1. PICK x \in T : \A y \in T : <<y, x>> \notin Less
  <2>1. IsWellFoundedOn(Less, Nat)
    BY NatLessThanWellFounded DEF OpToRel
  <2>2. T \in SUBSET Nat
    OBVIOUS
  <2> HIDE DEF T, Less
  <2> QED BY <2>1, <2>2, WFMin
<1>2. x # 0 /\ x \in Nat
  BY <1>1
<1>3. x - 1 \in Nat /\ x - 1 < x /\ (x - 1) + 1 = x
  BY <1>2
<1>4. <<x - 1, x>> \in Less
  BY <1>2, <1>3
<1> QED BY <1>1, <1>3, <1>4

\* The function f begins with x and goes on with step.
Follows(f, x, step, N) == f[0] = x /\ \A n \in 1..N : f[n] = step[<<n, f[n - 1]>>]

LEMMA RecursionExists ==
    ASSUME NEW N \in Nat, NEW S, NEW x \in S, NEW step \in [(1..N) \X S -> S]
    PROVE  \E f \in [0..N -> S] : Follows(f, x, step, N)
<1> DEFINE T == {n \in Nat : n <= N => \E f \in [0..n -> S] : Follows(f, x, step, n)}
<1>1. 0 \in T
  <2>1. [n \in 0..0 |-> x] \in [0..0 -> S] /\ Follows([n \in 0..0 |-> x], x, step, 0)
    BY DEF Follows
  <2> QED BY <2>1
<1>2. ASSUME NEW n \in Nat, n \in T, n + 1 <= N
      PROVE  \E f \in [0..(n + 1) -> S] : Follows(f, x, step, n + 1)
  <2>1. PICK f \in [0..n -> S] : Follows(f, x, step, n)
    BY <1>2
  <2> DEFINE g == [k \in 0..(n + 1) |-> IF k = n + 1 THEN step[<<n + 1, f[n]>>] ELSE f[k]]
  <2>2. f[n] \in S /\ n + 1 \in 1..N
    BY <1>2
  <2>3. g \in [0..(n + 1) -> S]
    BY <2>2
  <2>4. ASSUME NEW k \in 1..(n + 1) PROVE g[k] = step[<<k, g[k - 1]>>]
    <3>1. CASE k = n + 1
      <4>1. k - 1 = n /\ k - 1 \in 0..(n + 1) /\ k - 1 # n + 1
        BY <3>1
      <4> QED BY <3>1, <4>1
    <3>2. CASE k # n + 1
      <4>1. k \in 1..n /\ k - 1 \in 0..n /\ k - 1 # n + 1 /\ k - 1 \in 0..(n + 1)
        BY <3>2
      <4>2. f[k] = step[<<k, f[k - 1]>>]
        BY <2>1, <4>1 DEF Follows
      <4> QED BY <3>2, <4>1, <4>2
    <3> QED BY <3>1, <3>2
  <2>5. g[0] = x
    BY <2>1 DEF Follows
  <2> HIDE DEF g
  <2>6. Follows(g, x, step, n + 1)
    BY <2>4, <2>5 DEF Follows
  <2> QED BY <2>3, <2>6
<1>3. \A n \in Nat : n \in T => n + 1 \in T
  BY <1>2
<1> HIDE DEF T
<1>4. N \in T
  BY <1>1, <1>3, Climb
<1> QED BY <1>4 DEF T

-----------------------------------------------------------------------------
(* The queued texts, one after the other.  *)

Texting == Seq(Nat)

\* The joins of the first texts of q.
Joins(f, q) ==
    /\ f \in [1..Len(q) -> Texting] /\ f[1] = q[1]
    /\ \A i \in 2..Len(q) : f[i] = f[i - 1] \o q[i]

LEMMA JoinsExist ==
    ASSUME NEW q \in Seq(Texting), q # <<>>
    PROVE  \E f : Joins(f, q)
<1> DEFINE N == Len(q)
           step == [p \in (1..N) \X Texting |-> p[2] \o q[p[1]]]
<1>1. N \in Nat /\ N >= 1 /\ \A i \in 1..N : q[i] \in Texting
  OBVIOUS
<1>2. \A i \in 1..N, x \in Texting : x \o q[i] \in Texting
  BY <1>1, ConcatProperties DEF Texting
<1>3. step \in [(1..N) \X Texting -> Texting]
  BY <1>2
<1>4. \A i \in 1..N, x \in Texting : step[<<i, x>>] = x \o q[i]
  OBVIOUS
<1>5. <<>> \in Texting
  BY DEF Texting
<1> HIDE DEF step
<1>6. PICK f \in [0..N -> Texting] : Follows(f, <<>>, step, N)
  BY <1>1, <1>3, <1>5, RecursionExists
<1>7. \A i \in 1..N : f[i] = f[i - 1] \o q[i] /\ f[i - 1] \in Texting
  BY <1>4, <1>6 DEF Follows
<1>8. f[1] = q[1]
  <2>1. f[0] = <<>> /\ 1 \in 1..N /\ 1 - 1 = 0 /\ q[1] \in Texting
    BY <1>1, <1>6 DEF Follows
  <2>2. f[1] = <<>> \o q[1]
    BY <1>7, <2>1
  <2> QED BY <2>1, <2>2, ConcatEmptySeq DEF Texting
<1>9. Joins([i \in 1..N |-> f[i]], q)
  BY <1>1, <1>7, <1>8 DEF Joins
<1> QED BY <1>9

LEMMA JoinsAreOne ==
    ASSUME NEW q \in Seq(Texting), NEW f, NEW g, Joins(f, q), Joins(g, q)
    PROVE  \A i \in 1..Len(q) : f[i] = g[i]
<1> DEFINE T == {n \in Nat : n + 1 <= Len(q) => f[n + 1] = g[n + 1]}
<1>1. 0 \in T
  BY DEF Joins
<1>2. ASSUME NEW n \in Nat, n \in T, n + 2 <= Len(q) PROVE f[n + 2] = g[n + 2]
  <2>1. n + 2 \in 2..Len(q) /\ (n + 2) - 1 = n + 1 /\ n + 1 <= Len(q)
    BY <1>2
  <2>2. f[n + 1] = g[n + 1]
    BY <1>2, <2>1
  <2> QED BY <2>1, <2>2 DEF Joins
<1>3. \A n \in Nat : n \in T => n + 1 \in T
  BY <1>2
<1> HIDE DEF T
<1>4. Nat \subseteq T
  BY <1>1, <1>3, Climb
<1>5. ASSUME NEW i \in 1..Len(q) PROVE f[i] = g[i]
  <2>1. i - 1 \in Nat /\ (i - 1) + 1 = i /\ (i - 1) + 1 <= Len(q)
    OBVIOUS
  <2> QED BY <1>4, <2>1 DEF T
<1> QED BY <1>5

LEMMA FlattenIs ==
    ASSUME NEW q \in Seq(Texting), q # <<>>, NEW f, Joins(f, q)
    PROVE  FlattenSeq(q) = f[Len(q)]
<1> DEFINE Equation(h) == h = [i \in 1..Len(q) |-> IF i = 1 THEN q[i] ELSE h[i - 1] \o q[i]]
           flatten == CHOOSE h : Equation(h)
<1>1. Len(q) \in Nat /\ Len(q) >= 1 /\ Len(q) # 0
  OBVIOUS
<1>2. FlattenSeq(q) = flatten[Len(q)]
  BY <1>1 DEF FlattenSeq
<1>3. ASSUME NEW i \in 1..Len(q) PROVE f[i] = IF i = 1 THEN q[i] ELSE f[i - 1] \o q[i]
  <2>1. CASE i = 1
    BY <2>1 DEF Joins
  <2>2. CASE i # 1
    <3>1. i \in 2..Len(q)
      BY <1>1, <2>2
    <3>2. f[i] = f[i - 1] \o q[i]
      BY <3>1 DEF Joins
    <3> QED BY <2>2, <3>2
  <2> QED BY <2>1, <2>2
<1>4. Equation(f)
  <2>1. f = [i \in 1..Len(q) |-> f[i]]
    BY DEF Joins
  <2> QED BY <1>3, <2>1
<1>5. Equation(flatten)
  BY <1>4
<1> HIDE DEF flatten
<1>6. flatten[1] = q[1] /\ \A i \in 2..Len(q) : flatten[i] = flatten[i - 1] \o q[i]
  <2>1. \A i \in 1..Len(q) : flatten[i] = IF i = 1 THEN q[i] ELSE flatten[i - 1] \o q[i]
    BY <1>5
  <2>2. flatten[1] = q[1]
    BY <1>1, <2>1
  <2>3. ASSUME NEW i \in 2..Len(q) PROVE flatten[i] = flatten[i - 1] \o q[i]
    <3>1. i \in 1..Len(q) /\ i # 1
      BY <1>1
    <3> HIDE DEF Equation
    <3> QED BY <2>1, <3>1
  <2> QED BY <2>2, <2>3
<1> HIDE DEF Equation
<1> DEFINE T == {n \in Nat : n + 1 <= Len(q) => flatten[n + 1] = f[n + 1]}
<1>7. 0 \in T
  BY <1>6 DEF Joins
<1>8. ASSUME NEW n \in Nat, n \in T, n + 2 <= Len(q) PROVE flatten[n + 2] = f[n + 2]
  <2>1. n + 2 \in 2..Len(q) /\ (n + 2) - 1 = n + 1 /\ n + 1 <= Len(q)
    BY <1>8
  <2>2. flatten[n + 1] = f[n + 1]
    BY <1>8, <2>1
  <2> QED BY <1>6, <2>1, <2>2 DEF Joins
<1>9. \A n \in Nat : n \in T => n + 1 \in T
  BY <1>8
<1> HIDE DEF T
<1>10. Nat \subseteq T
  BY <1>7, <1>9, Climb
<1>11. Len(q) - 1 \in Nat /\ (Len(q) - 1) + 1 = Len(q)
  BY <1>1
<1>12. flatten[Len(q)] = f[Len(q)]
  BY <1>10, <1>11 DEF T
<1> QED BY <1>2, <1>12

LEMMA Regroup ==
    ASSUME NEW a \in Seq(Nat), NEW b \in Seq(Nat), NEW c \in Seq(Nat)
    PROVE  (a \o b) \o c = a \o (b \o c)
OBVIOUS

Flat(q) == FlattenSeq(q)

LEMMA FlatType == \A q \in Seq(Texting) : Flat(q) \in Texting
<1> SUFFICES ASSUME NEW q \in Seq(Texting) PROVE Flat(q) \in Texting
  OBVIOUS
<1>1. CASE q = <<>>
  BY <1>1 DEF Flat, FlattenSeq, Texting
<1>2. CASE q # <<>>
  <2>1. PICK f : Joins(f, q)
    BY <1>2, JoinsExist
  <2>2. Len(q) \in 1..Len(q)
    BY <1>2
  <2> QED BY <1>2, <2>1, <2>2, FlattenIs DEF Joins, Flat
<1> QED BY <1>1, <1>2

LEMMA FlatEmpty == Flat(<<>>) = <<>>
BY DEF Flat, FlattenSeq

LEMMA FlatAppend ==
    ASSUME NEW q \in Seq(Texting), NEW d \in Texting
    PROVE  Flat(Append(q, d)) = Flat(q) \o d
<1> DEFINE r == Append(q, d)
<1>1. /\ r \in Seq(Texting) /\ r # <<>> /\ Len(r) = Len(q) + 1 /\ Len(q) \in Nat
      /\ \A i \in 1..Len(q) : r[i] = q[i]
      /\ r[Len(q) + 1] = d
  OBVIOUS
<1> HIDE DEF r
<1>2. CASE q = <<>>
  <2>1. Joins([i \in 1..1 |-> d], r)
    BY <1>1, <1>2 DEF Joins
  <2>2. Flat(r) = d
    BY <1>1, <1>2, <2>1, FlattenIs DEF Flat
  <2>3. <<>> \o d = d
    BY ConcatEmptySeq DEF Texting
  <2> QED BY <1>2, <2>2, <2>3, FlatEmpty DEF r
<1>3. CASE q # <<>>
  <2>1. PICK f : Joins(f, q)
    BY <1>3, JoinsExist
  <2>2. Len(q) >= 1 /\ f[Len(q)] \in Texting /\ f[Len(q)] = Flat(q)
    <3>1. Len(q) >= 1 /\ Len(q) \in 1..Len(q)
      BY <1>3
    <3>2. f[Len(q)] = Flat(q)
      BY <1>3, <2>1, FlattenIs DEF Flat
    <3> QED BY <2>1, <3>1, <3>2 DEF Joins
  <2>3. f[Len(q)] \o d \in Texting
    BY <2>2, ConcatProperties DEF Texting
  <2> DEFINE g == [i \in 1..Len(r) |-> IF i = Len(q) + 1 THEN f[Len(q)] \o d ELSE f[i]]
  <2>4. g \in [1..Len(r) -> Texting] /\ g[1] = r[1]
    BY <1>1, <2>1, <2>2, <2>3 DEF Joins
  <2>5. ASSUME NEW i \in 2..Len(r) PROVE g[i] = g[i - 1] \o r[i]
    <3>1. CASE i = Len(q) + 1
      <4>1. i - 1 = Len(q) /\ i - 1 # Len(q) + 1 /\ i - 1 \in 1..Len(r) /\ i \in 1..Len(r)
        BY <1>1, <2>2, <3>1
      <4> QED BY <1>1, <3>1, <4>1
    <3>2. CASE i # Len(q) + 1
      <4>1. i \in 2..Len(q) /\ i - 1 \in 1..Len(r) /\ i \in 1..Len(r)
            /\ i - 1 # Len(q) + 1 /\ i \in 1..Len(q)
        BY <1>1, <3>2
      <4>2. f[i] = f[i - 1] \o q[i] /\ r[i] = q[i]
        BY <1>1, <2>1, <4>1 DEF Joins
      <4> QED BY <3>2, <4>1, <4>2
    <3> QED BY <3>1, <3>2
  <2>6. g[Len(r)] = f[Len(q)] \o d
    BY <1>1
  <2> HIDE DEF g
  <2>7. Joins(g, r)
    BY <2>4, <2>5 DEF Joins
  <2>8. Flat(r) = g[Len(r)]
    BY <1>1, <2>7, FlattenIs DEF Flat
  <2> QED BY <2>2, <2>6, <2>8 DEF r
<1> QED BY <1>2, <1>3

LEMMA FlatHead ==
    ASSUME NEW q \in Seq(Texting), q # <<>>
    PROVE  /\ Head(q) \in Texting /\ Tail(q) \in Seq(Texting) /\ Len(Tail(q)) = Len(q) - 1
           /\ Flat(q) = Head(q) \o Flat(Tail(q))
<1> DEFINE h == Head(q)  t == Tail(q)
<1>1. /\ h \in Texting /\ t \in Seq(Texting) /\ Len(t) = Len(q) - 1 /\ h = q[1]
      /\ \A i \in 1..Len(t) : t[i] = q[i + 1]
      /\ Len(q) \in Nat /\ Len(q) >= 1 /\ Len(t) \in Nat
  BY HeadTailProperties
<1> HIDE DEF h, t
<1>2. CASE t = <<>>
  <2>1. Len(q) = 1
    BY <1>1, <1>2
  <2>2. Joins([i \in 1..1 |-> h], q)
    BY <1>1, <2>1 DEF Joins
  <2>3. Flat(q) = h
    BY <2>1, <2>2, FlattenIs DEF Flat
  <2>4. h \o <<>> = h
    BY <1>1, ConcatEmptySeq DEF Texting
  <2> QED BY <1>1, <1>2, <2>3, <2>4, FlatEmpty DEF h, t
<1>3. CASE t # <<>>
  <2>1. PICK g : Joins(g, t)
    BY <1>1, <1>3, JoinsExist
  <2>2. Len(t) >= 1
    BY <1>1, <1>3
  <2>3. \A i \in 1..Len(t) : g[i] \in Texting /\ h \o g[i] \in Texting
    BY <1>1, <2>1, ConcatProperties DEF Joins, Texting
  <2>4. Flat(t) = g[Len(t)]
    BY <1>1, <1>3, <2>1, FlattenIs DEF Flat
  <2> DEFINE f == [i \in 1..Len(q) |-> IF i = 1 THEN h ELSE h \o g[i - 1]]
  <2>5. f \in [1..Len(q) -> Texting] /\ f[1] = q[1]
    BY <1>1, <2>3
  <2>6. ASSUME NEW i \in 2..Len(q) PROVE f[i] = f[i - 1] \o q[i]
    <3>1. i \in 1..Len(q) /\ i - 1 \in 1..Len(q) /\ i - 1 \in 1..Len(t) /\ i # 1
          /\ q[i] = t[i - 1]
      BY <1>1
    <3>2. CASE i = 2
      <4>1. f[i] = h \o g[1] /\ f[i - 1] = h /\ g[1] = t[1]
        BY <2>1, <3>1, <3>2 DEF Joins
      <4> QED BY <3>1, <3>2, <4>1
    <3>3. CASE i # 2
      <4>1. i - 1 \in 2..Len(t) /\ (i - 1) - 1 \in 1..Len(t) /\ i - 1 # 1
        BY <1>1, <3>3
      <4>2. g[i - 1] = g[(i - 1) - 1] \o t[i - 1]
        BY <2>1, <4>1 DEF Joins
      <4>3. f[i] = h \o (g[(i - 1) - 1] \o t[i - 1]) /\ f[i - 1] = h \o g[(i - 1) - 1]
        BY <3>1, <4>1, <4>2
      <4>4. t[i - 1] \in Texting /\ g[(i - 1) - 1] \in Texting
        BY <1>1, <2>3, <3>1, <4>1
      <4>5. (h \o g[(i - 1) - 1]) \o t[i - 1] = h \o (g[(i - 1) - 1] \o t[i - 1])
        <5>1. h \in Seq(Nat) /\ g[(i - 1) - 1] \in Seq(Nat) /\ t[i - 1] \in Seq(Nat)
          BY <1>1, <4>4 DEF Texting
        <5> HIDE DEF f
        <5> QED BY <5>1, Regroup
      <4> QED BY <3>1, <4>3, <4>5
    <3> QED BY <3>2, <3>3
  <2>7. f[Len(q)] = h \o g[Len(t)]
    <3>1. Len(q) \in 1..Len(q) /\ Len(q) # 1 /\ Len(q) - 1 = Len(t)
      BY <1>1, <2>2
    <3> QED BY <3>1
  <2> HIDE DEF f
  <2>8. Joins(f, q)
    BY <2>5, <2>6 DEF Joins
  <2>9. Flat(q) = f[Len(q)]
    BY <2>8, FlattenIs DEF Flat
  <2> QED BY <1>1, <2>4, <2>7, <2>9 DEF h, t
<1> QED BY <1>2, <1>3

-----------------------------------------------------------------------------
(* What the owner and the turns do to one session.  *)

TextOf(t) == t.sent \o Flat(t.queue) \o t.draft

\* u has the texts of t, whatever was moved.
Retells(t, u) == u \in Chats /\ TextOf(u) = TextOf(t)

LEMMA ChatIs ==
    ASSUME NEW t \in Chats
    PROVE  /\ t.status \in {"ready", "active", "complete", "failed", "cancelled"}
           /\ t.attempt \in Nat /\ t.turns \in Nat /\ t.sent \in Texting
           /\ t.queue \in Seq(Texting) /\ t.draft \in Texting /\ t.card \in 0..MaxCards
           /\ t.steps \in SUBSET Ids /\ Flat(t.queue) \in Texting
           /\ Len(t.queue) \in Nat
<1>1. t.queue \in Seq(Texting)
  BY DEF Chats, Texting
<1> QED BY <1>1, FlatType DEF Chats, Texting

LEMMA StatusIs ==
    ASSUME NEW t \in Chats, NEW status \in {"ready", "active", "complete", "failed", "cancelled"}
    PROVE  LET u == [t EXCEPT !.status = status] IN
             /\ Retells(t, u) /\ u.status = status
             /\ u.attempt = t.attempt /\ u.turns = t.turns /\ u.card = t.card
             /\ u.steps = t.steps /\ u.queue = t.queue /\ u.draft = t.draft /\ u.sent = t.sent
<1> DEFINE u == [t EXCEPT !.status = status]
<1>1. /\ u \in Chats /\ u.status = status
      /\ u.attempt = t.attempt /\ u.turns = t.turns /\ u.card = t.card
      /\ u.steps = t.steps /\ u.queue = t.queue /\ u.draft = t.draft /\ u.sent = t.sent
  BY DEF Chats
<1> HIDE DEF u
<1>2. Retells(t, u)
  BY <1>1 DEF Retells, TextOf
<1> QED BY <1>1, <1>2 DEF u

LEMMA RestoreIs ==
    ASSUME NEW t \in Chats
    PROVE  LET u == RestoreQueue(t) IN
             /\ Retells(t, u) /\ u.queue = <<>> /\ u.status = t.status
             /\ u.attempt = t.attempt /\ u.turns = t.turns /\ u.card = t.card
             /\ u.steps = t.steps
<1> DEFINE u == RestoreQueue(t)
<1>1. Flat(t.queue) \in Texting /\ t.draft \in Texting /\ t.sent \in Texting
  BY ChatIs
<1>2. Flat(t.queue) \o t.draft \in Seq(Nat)
  BY <1>1, ConcatProperties DEF Texting
<1>3. <<>> \in Seq(Seq(Nat))
  OBVIOUS
<1>4. u = [t EXCEPT !.queue = <<>>, !.draft = Flat(t.queue) \o t.draft]
  BY DEF RestoreQueue, Flat, Chats
<1>5. /\ u \in Chats /\ u.queue = <<>> /\ u.draft = Flat(t.queue) \o t.draft
      /\ u.status = t.status /\ u.attempt = t.attempt /\ u.turns = t.turns
      /\ u.card = t.card /\ u.steps = t.steps /\ u.sent = t.sent
  BY <1>2, <1>3, <1>4 DEF Chats
<1> HIDE DEF u
<1>6. t.sent \o <<>> = t.sent
  BY <1>1, ConcatEmptySeq DEF Texting
<1>7. (t.sent \o Flat(t.queue)) \o t.draft = t.sent \o (Flat(t.queue) \o t.draft)
  <2>1. t.sent \in Seq(Nat) /\ Flat(t.queue) \in Seq(Nat) /\ t.draft \in Seq(Nat)
    BY <1>1 DEF Texting
  <2> QED BY <2>1, Regroup
<1>8. TextOf(u) = TextOf(t)
  BY <1>5, <1>6, <1>7, FlatEmpty DEF TextOf
<1> QED BY <1>5, <1>8 DEF u, Retells

LEMMA FailIs ==
    ASSUME NEW t \in Chats
    PROVE  LET u == Fail(t) IN
             /\ Retells(t, u) /\ u.queue = <<>> /\ u.status = "failed"
             /\ u.attempt = t.attempt /\ u.turns = t.turns /\ u.card = t.card
             /\ u.steps = t.steps
<1> DEFINE v == [t EXCEPT !.status = "failed"]
<1>1. /\ Retells(t, v) /\ v.status = "failed" /\ v.attempt = t.attempt /\ v.turns = t.turns
      /\ v.card = t.card /\ v.steps = t.steps
  BY StatusIs
<1>2. Fail(t) = RestoreQueue(v)
  BY DEF Fail
<1> HIDE DEF v
<1>3. v \in Chats
  BY <1>1 DEF Retells
<1> QED BY <1>1, <1>2, <1>3, RestoreIs DEF Retells

LEMMA NoCardIs ==
    ASSUME NEW t \in Chats
    PROVE  LET u == [t EXCEPT !.card = 0] IN
             /\ Retells(t, u) /\ u.card = 0 /\ u.status = t.status
             /\ u.attempt = t.attempt /\ u.turns = t.turns /\ u.steps = t.steps
             /\ u.queue = t.queue
<1> DEFINE u == [t EXCEPT !.card = 0]
<1>1. 0 \in 0..MaxCards
  BY ChatAssumption
<1>2. /\ u \in Chats /\ u.status = t.status /\ u.card = 0
      /\ u.attempt = t.attempt /\ u.turns = t.turns
      /\ u.steps = t.steps /\ u.queue = t.queue /\ u.draft = t.draft /\ u.sent = t.sent
  BY <1>1 DEF Chats
<1> HIDE DEF u
<1>3. Retells(t, u)
  BY <1>2 DEF Retells, TextOf
<1> QED BY <1>2, <1>3 DEF u

LEMMA CancelIs ==
    ASSUME NEW t \in Chats
    PROVE  LET u == Cancel(t) IN
             /\ Retells(t, u) /\ u.queue = <<>> /\ u.card = 0 /\ ~Active(u) /\ Pending(u) = 0
             /\ u.attempt = t.attempt /\ u.turns = t.turns /\ u.steps = t.steps
<1> DEFINE v == [t EXCEPT !.card = 0]
           w == RestoreQueue(v)
<1>1. /\ Retells(t, v) /\ v.card = 0 /\ v.status = t.status
      /\ v.attempt = t.attempt /\ v.turns = t.turns /\ v.steps = t.steps
  BY NoCardIs
<1>2. Cancel(t) = IF Active(t) THEN [w EXCEPT !.status = "cancelled"] ELSE w
  BY DEF Cancel
<1> HIDE DEF v
<1>3. v \in Chats /\ TextOf(v) = TextOf(t)
  BY <1>1 DEF Retells
<1>4. /\ Retells(v, w) /\ w.queue = <<>> /\ w.status = v.status
      /\ w.attempt = v.attempt /\ w.turns = v.turns /\ w.card = v.card /\ w.steps = v.steps
  BY <1>3, RestoreIs
<1> HIDE DEF w
<1>5. w \in Chats /\ TextOf(w) = TextOf(t)
  BY <1>3, <1>4 DEF Retells
<1>6. CASE Active(t)
  <2> DEFINE u == [w EXCEPT !.status = "cancelled"]
  <2>1. /\ Retells(w, u) /\ u.status = "cancelled" /\ u.attempt = w.attempt
        /\ u.turns = w.turns /\ u.card = w.card /\ u.steps = w.steps /\ u.queue = w.queue
    BY <1>5, StatusIs
  <2>2. Cancel(t) = u
    BY <1>2, <1>6
  <2> HIDE DEF u
  <2> QED BY <1>1, <1>4, <1>5, <2>1, <2>2 DEF Retells, Active, Pending
<1>7. CASE ~Active(t)
  <2>1. Cancel(t) = w
    BY <1>2, <1>7
  <2> QED BY <1>1, <1>4, <1>5, <1>7, <2>1 DEF Retells, Active, Pending
<1> QED BY <1>6, <1>7

LEMMA StartIs ==
    ASSUME NEW t \in Chats
    PROVE  LET u == StartTurn(t) IN
             /\ Retells(t, u) /\ u.status = "active" /\ u.attempt = t.attempt + 1
             /\ u.card = 0 /\ u.steps = {} /\ u.turns = t.turns
             /\ u.queue = t.queue /\ u.draft = t.draft /\ u.sent = t.sent
<1> DEFINE u == StartTurn(t)
<1>1. 0 \in 0..MaxCards /\ t.attempt + 1 \in Nat /\ {} \in SUBSET Ids
  BY ChatAssumption, ChatIs
<1>2. u = [t EXCEPT !.attempt = t.attempt + 1, !.card = 0, !.steps = {}, !.status = "active"]
  BY DEF StartTurn, Chats
<1>3. /\ u \in Chats /\ u.status = "active" /\ u.attempt = t.attempt + 1
      /\ u.card = 0 /\ u.steps = {} /\ u.turns = t.turns
      /\ u.queue = t.queue /\ u.draft = t.draft /\ u.sent = t.sent
  BY <1>1, <1>2 DEF Chats
<1> HIDE DEF u
<1>4. Retells(t, u)
  BY <1>3 DEF Retells, TextOf
<1> QED BY <1>3, <1>4 DEF u

\* The draft is sent; nothing is queued that it could overtake.
LEMMA BeginIs ==
    ASSUME NEW t \in Chats
    PROVE  LET u == Begin(t) IN
             /\ u \in Chats /\ u.status = "active" /\ u.attempt = t.attempt + 1
             /\ u.card = 0 /\ u.steps = {} /\ u.turns = t.turns + 1
             /\ u.queue = t.queue /\ u.draft = <<>> /\ u.sent = t.sent \o t.draft
             /\ t.queue = <<>> => Retells(t, u)
<1> DEFINE v == [t EXCEPT !.sent = t.sent \o t.draft, !.draft = <<>>, !.turns = t.turns + 1]
           u == Begin(t)
<1>1. t.sent \in Texting /\ t.draft \in Texting /\ t.turns + 1 \in Nat
  BY ChatIs
<1>2. t.sent \o t.draft \in Seq(Nat)
  BY <1>1, ConcatProperties DEF Texting
<1>3. <<>> \in Seq(Nat)
  OBVIOUS
<1>4. /\ v \in Chats /\ v.attempt = t.attempt /\ v.turns = t.turns + 1 /\ v.queue = t.queue
      /\ v.draft = <<>> /\ v.sent = t.sent \o t.draft
  BY <1>1, <1>2, <1>3 DEF Chats
<1>5. u = StartTurn(v)
  BY DEF Begin, Chats
<1> HIDE DEF u, v
<1>6. /\ Retells(v, u) /\ u.status = "active" /\ u.attempt = v.attempt + 1
      /\ u.card = 0 /\ u.steps = {} /\ u.turns = v.turns
      /\ u.queue = v.queue /\ u.draft = v.draft /\ u.sent = v.sent
  BY <1>4, <1>5, StartIs
<1>7. ASSUME t.queue = <<>> PROVE Retells(t, u)
  <2>1. /\ (t.sent \o t.draft) \o <<>> = t.sent \o t.draft
        /\ t.sent \o <<>> = t.sent
    BY <1>1, <1>2, ConcatEmptySeq DEF Texting
  <2>2. TextOf(u) = ((t.sent \o t.draft) \o <<>>) \o <<>> /\ TextOf(t) = (t.sent \o <<>>) \o t.draft
    BY <1>4, <1>6, <1>7, FlatEmpty DEF TextOf
  <2> QED BY <1>6, <2>1, <2>2 DEF Retells
<1> QED BY <1>4, <1>6, <1>7 DEF Retells, u

LEMMA QueueDraftIs ==
    ASSUME NEW t \in Chats
    PROVE  LET u == QueueDraft(t) IN
             /\ Retells(t, u) /\ u.status = t.status /\ u.attempt = t.attempt
             /\ u.card = t.card /\ u.steps = t.steps /\ u.turns = t.turns
             /\ Len(u.queue) = Len(t.queue) + 1
<1> DEFINE u == QueueDraft(t)
<1>1. t.queue \in Seq(Texting) /\ t.draft \in Texting /\ t.sent \in Texting
      /\ Flat(t.queue) \in Texting
  BY ChatIs
<1>2. Append(t.queue, t.draft) \in Seq(Texting) /\ Len(Append(t.queue, t.draft)) = Len(t.queue) + 1
  BY <1>1
<1>3. Append(t.queue, t.draft) \in Seq(Seq(Nat)) /\ <<>> \in Seq(Nat)
  BY <1>2 DEF Texting
<1>4. u = [t EXCEPT !.queue = Append(t.queue, t.draft), !.draft = <<>>]
  BY DEF QueueDraft, Chats
<1>5. /\ u \in Chats /\ u.queue = Append(t.queue, t.draft) /\ u.draft = <<>> /\ u.sent = t.sent
      /\ u.status = t.status /\ u.attempt = t.attempt
      /\ u.card = t.card /\ u.steps = t.steps /\ u.turns = t.turns
  BY <1>3, <1>4 DEF Chats
<1> HIDE DEF u
<1>6. Flat(u.queue) = Flat(t.queue) \o t.draft
  BY <1>1, <1>5, FlatAppend
<1>7. TextOf(u) = TextOf(t)
  <2> DEFINE a == t.sent  b == Flat(t.queue)  c == t.draft
  <2>1. a \in Seq(Nat) /\ b \in Seq(Nat) /\ c \in Seq(Nat)
    BY <1>1 DEF Texting
  <2>2. TextOf(u) = (a \o (b \o c)) \o <<>> /\ TextOf(t) = (a \o b) \o c
    BY <1>5, <1>6 DEF TextOf
  <2> HIDE DEF a, b, c
  <2>3. (a \o b) \o c = a \o (b \o c) /\ a \o (b \o c) \in Seq(Nat)
    BY <2>1, Regroup, ConcatProperties
  <2>4. (a \o (b \o c)) \o <<>> = a \o (b \o c)
    BY <2>3, ConcatEmptySeq
  <2> QED BY <2>2, <2>3, <2>4
<1> QED BY <1>2, <1>5, <1>7 DEF u, Retells

\* The oldest queued text is sent before the others and before the draft.
LEMMA BeginQueuedIs ==
    ASSUME NEW t \in Chats, t.queue # <<>>, ~Active(t)
    PROVE  LET u == BeginQueued(t) IN
             /\ Retells(t, u)
             /\ \/ /\ u.status = "active" /\ u.attempt = t.attempt + 1 /\ u.card = 0
                   /\ u.steps = {} /\ u.turns = t.turns + 1 /\ t.turns < bound.turns
                   /\ Len(u.queue) = Len(t.queue) - 1
                \/ /\ u.status = t.status /\ u.attempt = t.attempt /\ u.card = t.card
                   /\ u.steps = t.steps /\ u.turns = t.turns /\ u.queue = <<>>
<1> DEFINE held == [t EXCEPT !.draft = Head(t.queue), !.queue = Tail(t.queue)]
           sent == Begin(held)
           first == [sent EXCEPT !.draft = t.draft]
<1>1. /\ t.queue \in Seq(Texting) /\ t.draft \in Texting /\ t.sent \in Texting
      /\ Head(t.queue) \in Texting /\ Tail(t.queue) \in Seq(Texting)
      /\ Len(Tail(t.queue)) = Len(t.queue) - 1
      /\ Flat(t.queue) = Head(t.queue) \o Flat(Tail(t.queue))
      /\ Flat(Tail(t.queue)) \in Texting
  BY ChatIs, FlatHead, FlatType
<1>2. Head(t.queue) \in Seq(Nat) /\ Tail(t.queue) \in Seq(Seq(Nat)) /\ t.draft \in Seq(Nat)
  BY <1>1 DEF Texting
<1>3. /\ held \in Chats /\ held.draft = Head(t.queue) /\ held.queue = Tail(t.queue)
      /\ held.turns = t.turns /\ held.attempt = t.attempt /\ held.sent = t.sent
  BY <1>2 DEF Chats
<1>4. BeginQueued(t) = IF CanBegin(held) THEN first ELSE RestoreQueue(t)
  BY DEF BeginQueued, Chats
<1> HIDE DEF held
<1>5. CASE CanBegin(held)
  <2>1. /\ sent \in Chats /\ sent.status = "active" /\ sent.attempt = t.attempt + 1
        /\ sent.card = 0 /\ sent.steps = {} /\ sent.turns = t.turns + 1
        /\ sent.queue = Tail(t.queue) /\ sent.sent = t.sent \o Head(t.queue)
    BY <1>3, BeginIs
  <2> HIDE DEF sent
  <2>2. /\ first \in Chats /\ first.status = "active" /\ first.attempt = t.attempt + 1
        /\ first.card = 0 /\ first.steps = {} /\ first.turns = t.turns + 1
        /\ first.queue = Tail(t.queue) /\ first.sent = t.sent \o Head(t.queue)
        /\ first.draft = t.draft
    BY <1>2, <2>1 DEF Chats
  <2>3. t.turns < bound.turns
    BY <1>3, <1>5 DEF CanBegin
  <2> HIDE DEF first
  <2>4. TextOf(first) = TextOf(t)
    <3> DEFINE a == t.sent  b == Head(t.queue)  c == Flat(Tail(t.queue))
    <3>1. a \in Seq(Nat) /\ b \in Seq(Nat) /\ c \in Seq(Nat)
      BY <1>1 DEF Texting
    <3>2. TextOf(first) = ((a \o b) \o c) \o t.draft /\ TextOf(t) = (a \o (b \o c)) \o t.draft
      BY <1>1, <2>2 DEF TextOf
    <3> HIDE DEF a, b, c
    <3>3. (a \o b) \o c = a \o (b \o c)
      BY <3>1, Regroup
    <3> QED BY <3>2, <3>3
  <2> QED BY <1>1, <1>4, <1>5, <2>2, <2>3, <2>4 DEF Retells
<1>6. CASE ~CanBegin(held)
  BY <1>4, <1>6, RestoreIs
<1> QED BY <1>5, <1>6

LEMMA TypeFacts ==
    ASSUME StateTypeOK
    PROVE  /\ MaxCards \in Nat /\ MaxQueued \in Nat
           /\ Cards = 1..Len(cards) /\ Len(cards) \in Nat /\ Cards \subseteq Ids /\ 0 \notin Ids
           /\ \A c \in Cards : cards[c] \in Requests /\ cards[c].session \in Sessions
           /\ \A c \in Ids : log[c] \in Seq(Outcomes)
           /\ \A s \in Sessions :
                chat[s] \in Chats /\ turn[s] \in Jobs /\ inbox[s] \in Seq(Updates)
           /\ DOMAIN channel = 1..Len(channel) /\ Len(channel) \in Nat
           /\ \A s \in Sessions : s \in Nat
           /\ bound \in Scenarios /\ bound.sessions \subseteq Sessions
           /\ bound.kinds \subseteq {"edit", "shell"}
           /\ bound.keys \subseteq {"yes", "no", "always"}
           /\ {bound.turns, bound.steps} \subseteq Nat
<1>1. MaxCards \in Nat /\ MaxQueued \in Nat /\ \A s \in Sessions : s \in Nat
  BY ChatAssumption
<1>2. Cards = 1..Len(cards) /\ Len(cards) \in Nat /\ \A c \in Cards : cards[c] \in Requests
  BY DEF StateTypeOK, Cards
<1>3. Cards \subseteq Ids /\ 0 \notin Ids
  BY <1>1, <1>2 DEF StateTypeOK, Ids
<1>4. \A c \in Cards : cards[c].session \in Sessions
  BY <1>2 DEF Requests
<1>5. /\ \A c \in Ids : log[c] \in Seq(Outcomes)
      /\ \A s \in Sessions : chat[s] \in Chats /\ turn[s] \in Jobs /\ inbox[s] \in Seq(Updates)
      /\ DOMAIN channel = 1..Len(channel) /\ Len(channel) \in Nat
  BY DEF StateTypeOK
<1>6. /\ bound \in Scenarios /\ bound.sessions \subseteq Sessions
      /\ bound.kinds \subseteq {"edit", "shell"} /\ bound.keys \subseteq {"yes", "no", "always"}
      /\ {bound.turns, bound.steps} \subseteq Nat
  BY ChatAssumption DEF StateTypeOK
<1> QED BY <1>1, <1>2, <1>3, <1>4, <1>5, <1>6

-----------------------------------------------------------------------------
(* What a session hears of its turn.  *)

Names(s, e) == e.what \in {"result", "killed"} => Owns(s, e.attempt, e.card)

OwnSteps(s, t) == \A c \in t.steps : Owns(s, t.attempt, c)

InOrder(t) == t.queue # <<>> => t.status \in {"active", "complete"}

\* u is t after updates: nothing becomes active, no text is lost.
Hears(t, u) ==
    /\ Retells(t, u) /\ u.attempt = t.attempt /\ u.card = t.card /\ u.turns = t.turns
    /\ Active(u) => Active(t)
    /\ Len(u.queue) <= Len(t.queue)
    /\ InOrder(t) => InOrder(u)

LEMMA HearsBoth ==
    ASSUME NEW t \in Chats, NEW u \in Chats, NEW v \in Chats, Hears(t, u), Hears(u, v)
    PROVE  Hears(t, v)
<1>1. Len(t.queue) \in Nat /\ Len(u.queue) \in Nat /\ Len(v.queue) \in Nat
  BY ChatIs
<1> QED BY <1>1 DEF Hears, Retells

LEMMA HearsNothing == \A t \in Chats : Hears(t, t)
<1>1. \A t \in Chats : Len(t.queue) \in Nat
  BY ChatIs
<1> QED BY <1>1 DEF Hears, Retells

LEMMA StepIs ==
    ASSUME NEW t \in Chats, NEW c \in Ids
    PROVE  LET u == [t EXCEPT !.steps = @ \union {c}] IN
             /\ Hears(t, u) /\ u.steps = t.steps \union {c}
<1> DEFINE u == [t EXCEPT !.steps = @ \union {c}]
<1>1. /\ u \in Chats /\ u.steps = t.steps \union {c} /\ u.status = t.status
      /\ u.attempt = t.attempt /\ u.turns = t.turns /\ u.card = t.card
      /\ u.queue = t.queue /\ u.draft = t.draft /\ u.sent = t.sent
  BY DEF Chats
<1>2. Len(t.queue) \in Nat
  BY ChatIs
<1> HIDE DEF u
<1>3. Hears(t, u)
  BY <1>1, <1>2 DEF Hears, Retells, TextOf, Active, InOrder
<1> QED BY <1>1, <1>3 DEF u

LEMMA ApplyIs ==
    ASSUME StateTypeOK, NEW s, NEW t \in Chats, NEW e \in Updates, Names(s, e), OwnSteps(s, t)
    PROVE  Hears(t, Apply(t, e)) /\ OwnSteps(s, Apply(t, e))
<1> DEFINE step == [t EXCEPT !.steps = @ \union {e.card}]
<1>1. ASSUME e.what \in {"result", "killed"}, t.attempt = e.attempt
      PROVE  Hears(t, step) /\ OwnSteps(s, step)
  <2>1. e.card \in Ids /\ Owns(s, t.attempt, e.card)
    BY <1>1, TypeFacts DEF Names, Owns
  <2>2. Hears(t, step) /\ step.steps = t.steps \union {e.card}
    BY <2>1, StepIs
  <2> HIDE DEF step
  <2>3. OwnSteps(s, step)
    BY <2>1, <2>2 DEF OwnSteps, Hears
  <2> QED BY <2>2, <2>3
<1>2. Hears(t, t)
  BY HearsNothing
<1>3. CASE Late(t, e)
  <2>1. Apply(t, e) = step
    BY <1>3 DEF Apply
  <2>2. e.what = "killed" /\ t.attempt = e.attempt
    BY <1>3 DEF Late
  <2> HIDE DEF step
  <2> QED BY <1>1, <2>1, <2>2
<1>4. CASE ~Late(t, e) /\ (t.attempt # e.attempt \/ ~Active(t))
  <2>1. Apply(t, e) = t
    BY <1>4 DEF Apply
  <2> QED BY <1>2, <2>1
<1>5. CASE ~Late(t, e) /\ t.attempt = e.attempt /\ Active(t)
  <2> HIDE DEF step
  <2>1. CASE e.what \in {"result", "killed"}
    <3>1. Apply(t, e) = step
      BY <1>5, <2>1 DEF Apply, step
    <3> QED BY <1>1, <1>5, <2>1, <3>1
  <2>2. CASE e.what = "done"
    <3> DEFINE u == [t EXCEPT !.status = "complete"]
    <3>1. Apply(t, e) = u
      BY <1>5, <2>2 DEF Apply
    <3>2. /\ Retells(t, u) /\ u.status = "complete"
          /\ u.attempt = t.attempt /\ u.turns = t.turns /\ u.card = t.card
          /\ u.steps = t.steps /\ u.queue = t.queue
      BY StatusIs
    <3>3. Len(t.queue) \in Nat
      BY ChatIs
    <3> HIDE DEF u
    <3>4. Hears(t, u)
      BY <3>2, <3>3 DEF Hears, Active, InOrder
    <3>5. OwnSteps(s, u)
      BY <3>2 DEF OwnSteps
    <3> QED BY <3>1, <3>4, <3>5
  <2>3. CASE e.what = "failed"
    <3> DEFINE u == Fail(t)
    <3>1. Apply(t, e) = u
      BY <1>5, <2>3 DEF Apply
    <3>2. /\ Retells(t, u) /\ u.queue = <<>> /\ u.status = "failed"
          /\ u.attempt = t.attempt /\ u.turns = t.turns /\ u.card = t.card
          /\ u.steps = t.steps
      BY FailIs
    <3>3. Len(t.queue) \in Nat /\ Len(<<>>) = 0 /\ 0 <= Len(t.queue)
      BY ChatIs
    <3> HIDE DEF u
    <3>4. Hears(t, u)
      BY <3>2, <3>3 DEF Hears, Active, InOrder
    <3>5. OwnSteps(s, u)
      BY <3>2 DEF OwnSteps
    <3> QED BY <3>1, <3>4, <3>5
  <2>4. e.what \in {"result", "killed", "done", "failed"}
    BY DEF Updates
  <2> QED BY <2>1, <2>2, <2>3, <2>4
<1> QED BY <1>3, <1>4, <1>5

LEMMA HeardIs ==
    ASSUME StateTypeOK, NEW s, NEW t \in Chats, NEW es \in Seq(Updates), OwnSteps(s, t),
           \A i \in DOMAIN es : Names(s, es[i])
    PROVE  Hears(t, Heard(t, es)) /\ OwnSteps(s, Heard(t, es))
<1> DEFINE N == Len(es)
           S == {u \in Chats : OwnSteps(s, u)}
           step == [p \in (1..N) \X S |-> Apply(p[2], es[p[1]])]
           Equation(h) == h = [n \in 0..N |-> IF n = 0 THEN t ELSE Apply(h[n - 1], es[n])]
           heard == CHOOSE h : Equation(h)
<1>1. N \in Nat /\ \A i \in 1..N : es[i] \in Updates /\ Names(s, es[i])
  OBVIOUS
<1>2. \A u \in S, i \in 1..N : Hears(u, Apply(u, es[i])) /\ Apply(u, es[i]) \in S
  <2> SUFFICES ASSUME NEW u \in S, NEW i \in 1..N
               PROVE  Hears(u, Apply(u, es[i])) /\ Apply(u, es[i]) \in S
    OBVIOUS
  <2>1. Hears(u, Apply(u, es[i])) /\ OwnSteps(s, Apply(u, es[i]))
    BY <1>1, ApplyIs
  <2> QED BY <2>1 DEF Hears, Retells
<1>3. step \in [(1..N) \X S -> S]
  BY <1>2
<1>4. \A i \in 1..N, u \in S : step[<<i, u>>] = Apply(u, es[i])
  OBVIOUS
<1>5. t \in S
  OBVIOUS
<1> HIDE DEF step
<1>6. PICK f \in [0..N -> S] : Follows(f, t, step, N)
  BY <1>1, <1>3, <1>5, RecursionExists
<1>7. f[0] = t /\ \A n \in 1..N : f[n - 1] \in S /\ f[n] = Apply(f[n - 1], es[n])
  BY <1>4, <1>6 DEF Follows
<1>8. Equation(f)
  <2>1. \A n \in 0..N : f[n] = IF n = 0 THEN t ELSE Apply(f[n - 1], es[n])
    BY <1>1, <1>7
  <2>2. f = [n \in 0..N |-> f[n]]
    BY <1>6
  <2> QED BY <2>1, <2>2
<1>9. Equation(heard)
  BY <1>8
<1>10. Heard(t, es) = heard[N]
  BY DEF Heard
<1> HIDE DEF heard
<1>11. heard[0] = t
  BY <1>1, <1>9
<1>12. \A n \in 1..N : heard[n] = Apply(heard[n - 1], es[n])
  BY <1>1, <1>9
<1> HIDE DEF Equation
<1> DEFINE T == {n \in Nat : n <= N => heard[n] \in S /\ Hears(t, heard[n])}
<1>13. 0 \in T
  BY <1>5, <1>11, HearsNothing
<1>14. ASSUME NEW n \in Nat, n \in T, n + 1 <= N
       PROVE  heard[n + 1] \in S /\ Hears(t, heard[n + 1])
  <2>1. heard[n] \in S /\ Hears(t, heard[n]) /\ n + 1 \in 1..N /\ (n + 1) - 1 = n
    BY <1>14
  <2>2. heard[n + 1] = Apply(heard[n], es[n + 1])
    BY <1>12, <2>1
  <2>3. Hears(heard[n], heard[n + 1]) /\ heard[n + 1] \in S
    BY <1>2, <2>1, <2>2
  <2>4. Hears(t, heard[n + 1])
    BY <2>1, <2>3, HearsBoth
  <2> QED BY <2>3, <2>4
<1>15. \A n \in Nat : n \in T => n + 1 \in T
  BY <1>14
<1> HIDE DEF T
<1>16. N \in T
  BY <1>1, <1>13, <1>15, Climb
<1>17. heard[N] \in S /\ Hears(t, heard[N])
  BY <1>1, <1>16 DEF T
<1> QED BY <1>10, <1>17

-----------------------------------------------------------------------------
(* Steps that leave a card alone, close cards and drop jobs.  *)

\* Cards stay, and stay with their turns.
Kept ==
    /\ DOMAIN cards \subseteq DOMAIN cards'
    /\ \A c \in DOMAIN cards : /\ cards'[c].session = cards[c].session
                               /\ cards'[c].attempt = cards[c].attempt

LEMMA OwnsStays ==
    ASSUME Kept
    PROVE  \A s, a, c : Owns(s, a, c) => /\ c \in DOMAIN cards' /\ cards'[c].session = s
                                         /\ cards'[c].attempt = a
BY DEF Kept, Owns, Cards

\* Nobody but the session can do anything for the card.
Around(c) ==
    LET s == cards[c].session IN
      /\ chat[s].attempt <= chat'[s].attempt
      /\ (turn'[s].pc = "waiting" /\ turn'[s].card = c) <=>
            (turn[s].pc = "waiting" /\ turn[s].card = c)
      /\ (chat'[s].attempt = cards[c].attempt /\ Active(chat'[s])) =>
            (chat[s].attempt = cards[c].attempt /\ Active(chat[s]))
      /\ cards[c].asked /\ cards[c].answer = "none" /\ InHand(c) /\ pass' # "quit" =>
            (\E i \in DOMAIN channel' : channel'[i] = c) \/ replies'[s] = c
      /\ pass = "quit" => pass' = "quit"

LEMMA HandIs ==
    \A c : InHand(c) <=> \/ \E i \in DOMAIN channel : channel[i] = c
                        \/ replies[cards[c].session] = c
BY DEF InHand, ToSet

LEMMA HandIsThen ==
    ASSUME NEW c
    PROVE  InHand(c)' <=> \/ \E i \in DOMAIN channel' : channel'[i] = c
                          \/ replies'[cards'[c].session] = c
BY DEF InHand, ToSet

\* What an invariant says of a card, of the numbers of its turn.
LEMMA AttemptsAre ==
    ASSUME IInv
    PROVE  \A c \in Cards :
             /\ cards[c].session \in Sessions /\ cards[c].attempt \in Nat
             /\ chat[cards[c].session].attempt \in Nat
             /\ cards[c].attempt <= chat[cards[c].session].attempt
<1>1. \A c \in Cards : cards[c] \in Requests /\ CardHolds(c)
  BY TypeFacts DEF IInv
<1>2. \A c \in Cards : cards[c].session \in Sessions /\ cards[c].attempt \in Nat
  BY <1>1 DEF Requests
<1>3. \A s \in Sessions : chat[s].attempt \in Nat
  BY TypeFacts, ChatIs DEF IInv
<1> QED BY <1>1, <1>2, <1>3 DEF CardHolds

\* Whatever else is told to stop, the card says what it said.
Alike(c) ==
    /\ c \in DOMAIN cards'
    /\ cards'[c].session = cards[c].session /\ cards'[c].attempt = cards[c].attempt
    /\ cards'[c].kind = cards[c].kind /\ cards'[c].asked = cards[c].asked
    /\ cards'[c].answer = cards[c].answer /\ cards'[c].ruled = cards[c].ruled
    /\ cards'[c].run = cards[c].run /\ cards'[c].wrote = cards[c].wrote

LEMMA CardAlike ==
    ASSUME IInv, StateTypeOK', NEW c \in Cards, Alike(c), log'[c] = log[c], Around(c)
    PROVE  CardHolds(c)'
<1> DEFINE k == cards[c]  s == k.session
<1>1. CardHolds(c)
  BY DEF IInv
<1>2. s \in Sessions /\ k.attempt \in Nat /\ chat[s].attempt \in Nat /\ k.attempt <= chat[s].attempt
  BY AttemptsAre
<1>3. chat'[s].attempt \in Nat
  BY <1>2 DEF StateTypeOK, Chats
<1>4. cards'[c].attempt <= chat'[cards'[c].session].attempt
  BY <1>2, <1>3 DEF Around, Alike
<1>5. Waits(c)' <=> Waits(c)
  BY DEF Around, Waits, Alike
<1>6. Stale(c) => Stale(c)'
  BY DEF Around, Stale, Awaits, Alike
<1>7. k.asked /\ k.answer = "none" /\ pass' # "quit" => InHand(c)' /\ (Waits(c)' \/ Stale(c)')
  BY <1>1, <1>5, <1>6, HandIsThen DEF Around, CardHolds, Alike
<1>8. Approved(c)' <=> Approved(c)
  BY DEF Approved, Alike
<1> QED BY <1>1, <1>4, <1>5, <1>7, <1>8 DEF CardHolds, Alike

LEMMA CardStays ==
    ASSUME IInv, StateTypeOK', NEW c \in Cards, c \in DOMAIN cards', cards'[c] = cards[c],
           log'[c] = log[c], Around(c)
    PROVE  CardHolds(c)'
BY CardAlike DEF Alike

-----------------------------------------------------------------------------
(* Closing requests that have no answer.  *)

LEMMA CloseIs ==
    ASSUME StateTypeOK, NEW C, \A c \in C : Asking(c),
           cards' = CloseCards(cards, C), log' = CancelLog(log, C)
    PROVE  /\ DOMAIN cards' = DOMAIN cards /\ cards' \in Seq(Requests) /\ Len(cards') = Len(cards)
           /\ Kept
           /\ log' \in [Ids -> Seq(Outcomes)]
           /\ \A c \in Cards \ C : cards'[c] = cards[c] /\ log'[c] = log[c]
           /\ \A c \in C : /\ c \in Cards
                           /\ cards'[c] = [cards[c] EXCEPT !.answer = "closed"]
                           /\ log'[c] = Append(log[c], "cancelled")
           /\ \A c \in Ids \ Cards : log'[c] = log[c]
<1>1. /\ \A c \in C : c \in Cards /\ cards[c].answer = "none"
      /\ Cards = 1..Len(cards) /\ Len(cards) \in Nat /\ Cards \subseteq Ids
      /\ \A c \in Cards : cards[c] \in Requests
      /\ \A c \in Ids : log[c] \in Seq(Outcomes)
  BY TypeFacts DEF Asking
<1>2. /\ \A c \in Cards : cards'[c] = IF c \in C THEN [cards[c] EXCEPT !.answer = "closed"]
                                               ELSE cards[c]
      /\ DOMAIN cards' = Cards
  BY <1>1 DEF CloseCards, Cards
<1>3. \A c \in Cards : /\ cards'[c] \in Requests /\ cards'[c].session = cards[c].session
                       /\ cards'[c].attempt = cards[c].attempt
  <2> SUFFICES ASSUME NEW c \in Cards
               PROVE  /\ cards'[c] \in Requests /\ cards'[c].session = cards[c].session
                      /\ cards'[c].attempt = cards[c].attempt
    OBVIOUS
  <2>1. cards[c] \in Requests
    BY <1>1
  <2> QED BY <1>2, <2>1 DEF Requests
<1>4. cards' \in [1..Len(cards) -> Requests]
  BY <1>1, <1>2, <1>3 DEF CloseCards, Cards
<1>5. cards' \in Seq(Requests) /\ Len(cards') = Len(cards)
  BY <1>1, <1>4
<1>6. \A c \in Ids : log'[c] = IF c \in C THEN Append(log[c], "cancelled") ELSE log[c]
  BY DEF CancelLog
<1>7. log' \in [Ids -> Seq(Outcomes)]
  <2>1. \A c \in Ids : Append(log[c], "cancelled") \in Seq(Outcomes)
    BY <1>1 DEF Outcomes
  <2> QED BY <1>1, <2>1 DEF CancelLog
<1>8. Kept
  BY <1>1, <1>2, <1>3 DEF Kept, Cards
<1> QED BY <1>1, <1>2, <1>5, <1>6, <1>7, <1>8 DEF Cards

\* A request that is closed is logged once.
LEMMA ClosedHolds ==
    ASSUME IInv, StateTypeOK', NEW c, Asking(c),
           cards'[c] = [cards[c] EXCEPT !.answer = "closed"], c \in DOMAIN cards',
           log'[c] = Append(log[c], "cancelled"),
           chat[cards[c].session].attempt <= chat'[cards[c].session].attempt
    PROVE  CardHolds(c)'
<1> DEFINE k == cards[c]  l == cards'[c]
<1>1. c \in Cards /\ k.asked /\ k.answer = "none" /\ k \in Requests /\ CardHolds(c)
  BY TypeFacts DEF Asking, IInv
<1>2. k.run = "none" /\ ~k.ruled /\ log[c] = <<>> /\ ~k.wrote
  BY <1>1 DEF CardHolds, Decisions, Requests
<1>3. /\ l.session = k.session /\ l.attempt = k.attempt /\ l.asked /\ l.answer = "closed"
      /\ l.ruled = k.ruled /\ l.run = "none" /\ l.wrote = k.wrote
  BY <1>1, <1>2 DEF Requests
<1>4. log'[c] = <<"cancelled">>
  BY <1>2
<1>5. l.attempt <= chat'[l.session].attempt
  <2>1. chat'[k.session].attempt \in Nat
    BY <1>1, AttemptsAre DEF StateTypeOK, Chats
  <2> QED BY <1>1, <1>3, <2>1, AttemptsAre
<1> HIDE DEF k, l
<1> QED BY <1>2, <1>3, <1>4, <1>5 DEF CardHolds, l, Decisions

-----------------------------------------------------------------------------
(* Dropping jobs.  *)

\* Only what the cards say of stopping changes.
LEMMA DropIs ==
    ASSUME IInv, NEW D \in SUBSET Sessions, cards' = DropCards(cards, D), log' = DropLog(log, D)
    PROVE  /\ DOMAIN cards' = DOMAIN cards /\ cards' \in Seq(Requests) /\ Len(cards') = Len(cards)
           /\ Kept
           /\ \A c \in Cards : cards'[c] \in {cards[c], [cards[c] EXCEPT !.stop = TRUE]}
           /\ log' \in [Ids -> Seq(Outcomes)]
           /\ \A c \in Ids \ Cards : log'[c] = log[c]
           /\ \A c \in Cards :
                \/ /\ log'[c] = log[c]
                   /\ cards[c].session \in D /\ Waits(c) => cards[c].answer \notin Decisions
                \/ /\ cards[c].session \in D /\ Waits(c) /\ cards[c].answer \in Decisions
                   /\ log'[c] \in {<<"failed">>, <<"denied">>}
<1>1. /\ Cards = 1..Len(cards) /\ Len(cards) \in Nat /\ Cards \subseteq Ids /\ 0 \notin Ids
      /\ \A c \in Cards : cards[c] \in Requests
      /\ \A c \in Ids : log[c] \in Seq(Outcomes)
  BY TypeFacts DEF IInv
<1>2. /\ \A c \in Cards : cards'[c] \in {cards[c], [cards[c] EXCEPT !.stop = TRUE]}
      /\ DOMAIN cards' = Cards
  BY DEF DropCards, Cards
<1>3. \A c \in Cards : /\ cards'[c] \in Requests /\ cards'[c].session = cards[c].session
                       /\ cards'[c].attempt = cards[c].attempt
  <2> SUFFICES ASSUME NEW c \in Cards
               PROVE  /\ cards'[c] \in Requests /\ cards'[c].session = cards[c].session
                      /\ cards'[c].attempt = cards[c].attempt
    OBVIOUS
  <2>1. cards[c] \in Requests
    BY <1>1
  <2>2. CASE cards'[c] = cards[c]
    BY <2>1, <2>2 DEF Requests
  <2>3. CASE cards'[c] = [cards[c] EXCEPT !.stop = TRUE]
    BY <2>1, <2>3 DEF Requests
  <2> QED BY <1>2, <2>2, <2>3
<1>4. cards' \in [1..Len(cards) -> Requests]
  BY <1>1, <1>2, <1>3 DEF DropCards, Cards
<1>5. cards' \in Seq(Requests) /\ Len(cards') = Len(cards)
  BY <1>1, <1>4
<1>6. ASSUME NEW c \in Ids, NEW s \in D, turn[s].card = c
      PROVE  /\ c \in Cards /\ cards[c].session = s
             /\ log'[c] = log[c] \o Undecided(turn[s])
  <2>1. ASSUME NEW u \in D, turn[u].card = c PROVE c \in Cards /\ cards[c].session = u
    <3>1. JobHolds(u) /\ turn[u] \in Jobs
      BY TypeFacts DEF IInv
    <3>2. turn[u].pc \in {"card", "waiting", "running"}
      BY <1>1, <2>1, <3>1 DEF JobHolds, Jobs
    <3> QED BY <2>1, <3>1, <3>2 DEF JobHolds
  <2>2. cards[c].session = s /\ c \in Cards
    BY <1>6, <2>1
  <2>3. {u \in D : turn[u].card = c} = {s}
    BY <1>6, <2>1, <2>2
  <2>4. (CHOOSE u \in {s} : TRUE) = s
    OBVIOUS
  <2>5. log'[c] = IF {u \in D : turn[u].card = c} = {} THEN log[c]
                  ELSE log[c] \o Undecided(turn[CHOOSE u \in {v \in D : turn[v].card = c} : TRUE])
    BY DEF DropLog
  <2> QED BY <2>2, <2>3, <2>4, <2>5
<1>7. ASSUME NEW c \in Ids, \A s \in D : turn[s].card # c
      PROVE  log'[c] = log[c]
  BY <1>7 DEF DropLog
<1>8. \A c \in Ids \ Cards : log'[c] = log[c]
  BY <1>6, <1>7
<1>9. ASSUME NEW c \in Cards
      PROVE  \/ /\ log'[c] = log[c]
                /\ cards[c].session \in D /\ Waits(c) => cards[c].answer \notin Decisions
             \/ /\ cards[c].session \in D /\ Waits(c) /\ cards[c].answer \in Decisions
                /\ log'[c] \in {<<"failed">>, <<"denied">>}
  <2> DEFINE s == cards[c].session
  <2>0. c \in Ids /\ log[c] \in Seq(Outcomes)
    BY <1>1
  <2>1. CASE s \in D /\ turn[s].card = c
    <3>1. log'[c] = log[c] \o Undecided(turn[s])
      BY <1>6, <2>0, <2>1
    <3>2. CASE turn[s].pc = "waiting" /\ cards[c].answer \in Decisions
      <4>1. Waits(c)
        BY <2>1, <3>2 DEF Waits
      <4>2. JobHolds(s)
        BY <2>1 DEF IInv
      <4>3. cards[c].run = "none"
        BY <2>1, <3>2, <4>2 DEF JobHolds
      <4>4. log[c] = <<>>
        BY <3>2, <4>1, <4>3 DEF IInv, CardHolds
      <4>5. Undecided(turn[s]) \in {<<"failed">>, <<"denied">>}
        BY <2>1, <3>2 DEF Undecided, Decisions
      <4> QED BY <2>1, <3>1, <3>2, <4>1, <4>4, <4>5
    <3>3. CASE ~(turn[s].pc = "waiting" /\ cards[c].answer \in Decisions)
      <4>1. Undecided(turn[s]) = <<>>
        BY <2>1, <3>3 DEF Undecided, Decisions
      <4>2. log'[c] = log[c]
        BY <2>0, <3>1, <4>1
      <4> QED BY <3>3, <4>2 DEF Waits
    <3> QED BY <3>2, <3>3
  <2>2. CASE ~(s \in D /\ turn[s].card = c)
    <3>1. \A u \in D : turn[u].card # c
      BY <1>6, <2>0, <2>2
    <3> QED BY <1>7, <2>0, <2>2, <3>1 DEF Waits
  <2> QED BY <2>1, <2>2
<1>10. log' \in [Ids -> Seq(Outcomes)]
  <2>1. \A c \in Ids : log'[c] \in Seq(Outcomes)
    <3>1. <<"failed">> \in Seq(Outcomes) /\ <<"denied">> \in Seq(Outcomes)
      BY DEF Outcomes
    <3> QED BY <1>1, <1>8, <1>9, <3>1
  <2>2. log' = [c \in Ids |-> log'[c]]
    BY DEF DropLog
  <2> QED BY <2>1, <2>2
<1>11. Kept
  BY <1>1, <1>2, <1>3 DEF Kept, Cards
<1> QED BY <1>1, <1>2, <1>5, <1>8, <1>9, <1>10, <1>11 DEF Cards

-----------------------------------------------------------------------------
(* The texts of all sessions.  *)

Ordered(x) == \A i, j \in DOMAIN x : i < j => x[i] < x[j]

Told(texts, n) == /\ \A s \in Sessions : Ordered(texts[s])
                  /\ UNION {ToSet(texts[s]) : s \in Sessions} = 1..n

TextsOf(c) == [s \in Sessions |-> TextOf(c[s])]

LEMMA TextsAre ==
    /\ TextsInOrder <=> Told(TextsOf(chat), count.prompts)
    /\ TextsInOrder' <=> Told(TextsOf(chat'), count'.prompts)
<1>1. \A s \in Sessions : TextsOf(chat)[s] = Texts(s) /\ TextsOf(chat')[s] = Texts(s)'
  BY DEF TextsOf, TextOf, Flat, Texts
<1>2. {ToSet(TextsOf(chat)[s]) : s \in Sessions} = {ToSet(Texts(s)) : s \in Sessions}
  BY <1>1
<1>3. {ToSet(TextsOf(chat')[s]) : s \in Sessions} = {ToSet(Texts(s)') : s \in Sessions}
  BY <1>1
<1>4. TextsInOrder <=> Told(TextsOf(chat), count.prompts)
  BY <1>1, <1>2 DEF TextsInOrder, Told, Ordered
<1>5. TextsInOrder' <=> Told(TextsOf(chat'), count'.prompts)
  BY <1>1, <1>3 DEF TextsInOrder, Told, Ordered
<1> QED BY <1>4, <1>5

LEMMA TextsKept ==
    ASSUME TextsInOrder, \A s \in Sessions : TextOf(chat'[s]) = TextOf(chat[s]),
           count'.prompts = count.prompts
    PROVE  TextsInOrder'
<1>1. TextsOf(chat') = TextsOf(chat)
  BY DEF TextsOf
<1> QED BY <1>1, TextsAre

-----------------------------------------------------------------------------
(* Steps of a job.  *)

\* The card c becomes r, and stays with its turn; the other cards stay as they are.
Becomes(c, r) ==
    /\ c \in Cards /\ r \in Requests
    /\ r.session = cards[c].session /\ r.attempt = cards[c].attempt
    /\ cards' = [d \in Cards |-> IF d = c THEN r ELSE cards[d]]

LEMMA BecomesIs ==
    ASSUME StateTypeOK, NEW c, NEW r, Becomes(c, r)
    PROVE  /\ cards' \in Seq(Requests) /\ Len(cards') = Len(cards) /\ Cards' = Cards
           /\ cards'[c] = r /\ \A d \in Cards \ {c} : cards'[d] = cards[d]
           /\ Kept
<1>1. Cards = 1..Len(cards) /\ Len(cards) \in Nat /\ \A d \in Cards : cards[d] \in Requests
  BY TypeFacts
<1>2. cards' \in [1..Len(cards) -> Requests] /\ DOMAIN cards' = Cards
  BY <1>1 DEF Becomes
<1>3. cards' \in Seq(Requests) /\ Len(cards') = Len(cards)
  BY <1>1, <1>2
<1>4. cards'[c] = r /\ \A d \in Cards \ {c} : cards'[d] = cards[d]
  BY DEF Becomes
<1>5. Kept
  BY <1>2, <1>4 DEF Kept, Cards, Becomes
<1> QED BY <1>2, <1>3, <1>4, <1>5 DEF Cards

\* What else a job may touch.
JobFrame == UNCHANGED <<bound, chat, ready, replies, pass, count, log>>

LEMMA JobMoves ==
    ASSUME IInv, StateTypeOK', JobFrame, NEW s \in Sessions, turn[s].pc # "none", Kept,
           \A u \in Sessions \ {s} : turn'[u] = turn[u] /\ inbox'[u] = inbox[u],
           \A c \in Cards \ {turn[s].card} : cards'[c] = cards[c],
           turn'[s].card \notin Cards \ {turn[s].card},
           \A c : Asking(c) => c \in Cards' /\ cards'[c].asked /\ cards'[c].answer = "none",
           \A i \in DOMAIN channel : \E j \in DOMAIN channel' : channel'[j] = channel[i],
           ChannelHolds', JobHolds(s)', InboxHolds(s)',
           \A c \in Cards' : c = turn[s].card \/ c \notin Cards => CardHolds(c)'
    PROVE  IInv'
<1>1. \A u \in Sessions : ReplyHolds(u) /\ JobHolds(u) /\ InboxHolds(u) /\ SessionHolds(u)
  BY DEF IInv
<1>2. /\ 0 \notin Cards /\ Cards \subseteq DOMAIN cards'
      /\ \A c \in Cards : cards[c].session \in Sessions /\ cards'[c].session = cards[c].session
      /\ \A u \in Sessions : turn[u] \in Jobs
  BY TypeFacts DEF Kept, IInv, Ids, Cards
<1>3. turn[s].card \in Cards => cards[turn[s].card].session = s
  BY <1>1, <1>2 DEF JobHolds, Jobs
<1>4. \A c \in Cards' : CardHolds(c)'
  <2> SUFFICES ASSUME NEW c \in Cards, c # turn[s].card PROVE CardHolds(c)'
    OBVIOUS
  <2>1. cards'[c] = cards[c] /\ log'[c] = log[c]
    BY DEF JobFrame
  <2>2. Waits(c) <=> turn'[cards[c].session].pc = "waiting" /\ turn'[cards[c].session].card = c
    BY <1>2 DEF Waits
  <2>3. cards[c].asked /\ cards[c].answer = "none" /\ InHand(c) =>
          (\E i \in DOMAIN channel' : channel'[i] = c) \/ replies'[cards[c].session] = c
    BY HandIs DEF JobFrame
  <2>4. chat' = chat /\ pass' = pass
    BY DEF JobFrame
  <2>5. chat[cards[c].session].attempt \in Nat
    BY AttemptsAre
  <2>6. Around(c)
    BY <2>2, <2>3, <2>4, <2>5 DEF Around, Waits
  <2> QED BY <1>2, <2>1, <2>6, CardStays
<1>5. \A c \in (Ids \ Cards)' : log'[c] = <<>>
  BY <1>2 DEF IInv, JobFrame, Ids, Cards
<1>6. \A u \in Sessions : ReplyHolds(u)'
  <2> SUFFICES ASSUME NEW u \in Sessions PROVE ReplyHolds(u)'
    OBVIOUS
  <2>1. replies' = replies
    BY DEF JobFrame
  <2> QED BY <1>1, <1>2, <2>1 DEF ReplyHolds, Asking
<1>7. \A u \in Sessions : JobHolds(u)'
  <2> SUFFICES ASSUME NEW u \in Sessions, u # s PROVE JobHolds(u)'
    OBVIOUS
  <2>1. turn'[u] = turn[u] /\ chat' = chat /\ bound' = bound
    BY DEF JobFrame
  <2>2. turn[u].pc \in {"card", "waiting", "running"} => turn[u].card # turn[s].card
    BY <1>1, <1>3 DEF JobHolds
  <2>3. turn[u].pc \in {"card", "waiting", "running"} =>
          turn[u].card \in Cards' /\ cards'[turn[u].card] = cards[turn[u].card]
    BY <1>1, <1>2, <2>2 DEF JobHolds, Cards
  <2>4. JobHolds(u)
    BY <1>1
  <2> QED BY <2>1, <2>3, <2>4 DEF JobHolds
<1>8. \A u \in Sessions : InboxHolds(u)'
  <2> SUFFICES ASSUME NEW u \in Sessions, u # s PROVE InboxHolds(u)'
    OBVIOUS
  <2>1. inbox'[u] = inbox[u]
    OBVIOUS
  <2> QED BY <1>1, <2>1, OwnsStays DEF InboxHolds, Owns, Cards
<1>9. \A u \in Sessions : SessionHolds(u)'
  <2> SUFFICES ASSUME NEW u \in Sessions PROVE SessionHolds(u)'
    OBVIOUS
  <2>1. chat' = chat /\ bound' = bound /\ ready' = ready /\ pass' = pass
    BY DEF JobFrame
  <2>2. ready[u] # 0 /\ ready[u] = chat[u].attempt => turn'[u].pc = "none"
    BY <1>1 DEF SessionHolds
  <2>3. \A c : Owns(u, chat[u].attempt, c) =>
          c \in Cards' /\ cards'[c].session = u /\ cards'[c].attempt = chat[u].attempt
    BY OwnsStays DEF Cards
  <2>4. SessionHolds(u)
    BY <1>1
  <2> QED BY <2>1, <2>2, <2>3, <2>4 DEF SessionHolds, Owns, Active
<1>10. ShowHolds'
  <2>1. chat' = chat /\ replies' = replies /\ pass' = pass /\ ShowHolds
    BY DEF JobFrame, IInv
  <2> QED BY <2>1 DEF ShowHolds, Pending, Active
<1>11. TextsInOrder'
  <2>1. chat' = chat /\ count' = count /\ TextsInOrder
    BY DEF JobFrame, IInv
  <2> QED BY <2>1, TextsKept
<1> QED BY <1>4, <1>5, <1>6, <1>7, <1>8, <1>9, <1>10, <1>11 DEF IInv

\* What an update adds to the inbox of its session.
LEMMA PostIs ==
    ASSUME IInv, NEW s \in Sessions, NEW e \in Updates, Kept,
           e.what \in {"result", "killed"} => Owns(s, e.attempt, e.card),
           inbox' = [inbox EXCEPT ![s] = Append(@, e)]
    PROVE  /\ inbox' \in [Sessions -> Seq(Updates)]
           /\ \A u \in Sessions \ {s} : inbox'[u] = inbox[u]
           /\ InboxHolds(s)'
<1>1. inbox[s] \in Seq(Updates) /\ InboxHolds(s) /\ inbox \in [Sessions -> Seq(Updates)]
  BY DEF IInv, StateTypeOK
<1>2. inbox'[s] = Append(inbox[s], e) /\ \A u \in Sessions \ {s} : inbox'[u] = inbox[u]
  BY <1>1
<1>3. Append(inbox[s], e) \in Seq(Updates)
  BY <1>1
<1>4. inbox' \in [Sessions -> Seq(Updates)]
  BY <1>1, <1>3
<1>5. ASSUME NEW i \in DOMAIN inbox'[s], inbox'[s][i].what \in {"result", "killed"}
      PROVE  Owns(s, inbox'[s][i].attempt, inbox'[s][i].card)
  <2>1. CASE i \in DOMAIN inbox[s]
    <3>1. inbox'[s][i] = inbox[s][i]
      BY <1>1, <1>2, <2>1
    <3> QED BY <1>1, <1>5, <2>1, <3>1 DEF InboxHolds
  <2>2. CASE i \notin DOMAIN inbox[s]
    <3>1. inbox'[s][i] = e
      BY <1>1, <1>2, <1>5, <2>2
    <3> QED BY <1>5, <3>1
  <2> QED BY <2>1, <2>2
<1>6. InboxHolds(s)'
  BY <1>5, OwnsStays DEF InboxHolds, Owns, Cards
<1> QED BY <1>2, <1>4, <1>6

\* Nothing changes for the cards.
LEMMA CardsSame ==
    ASSUME IInv, cards' = cards
    PROVE  /\ Kept /\ Cards' = Cards
           /\ \A c : Asking(c) => c \in Cards' /\ cards'[c].asked /\ cards'[c].answer = "none"
BY DEF Kept, Cards, Asking

LEMMA ChannelSame ==
    ASSUME IInv, channel' = channel, replies' = replies, Kept,
           \A c : Asking(c) => c \in Cards' /\ cards'[c].asked /\ cards'[c].answer = "none"
    PROVE  /\ ChannelHolds'
           /\ \A i \in DOMAIN channel : \E j \in DOMAIN channel' : channel'[j] = channel[i]
<1>1. ChannelHolds
  BY DEF IInv
<1>2. \A i \in DOMAIN channel : Asking(channel[i]) /\ channel[i] \in Cards
        /\ cards'[channel[i]].session = cards[channel[i]].session
  BY <1>1 DEF ChannelHolds, Asking, Kept, Cards
<1>3. \A i \in DOMAIN channel' :
        Asking(channel[i])' /\ channel'[i] # replies'[cards'[channel'[i]].session]
  BY <1>1, <1>2 DEF ChannelHolds, Asking, Cards
<1> QED BY <1>1, <1>3 DEF ChannelHolds

-----------------------------------------------------------------------------
(* The actions of the job.  *)

LEMMA OwnCard ==
    ASSUME IInv, NEW s \in Sessions, turn[s].pc \in {"card", "waiting", "running"}
    PROVE  LET c == turn[s].card IN
             /\ c \in Cards /\ cards[c] \in Requests /\ CardHolds(c)
             /\ cards[c].session = s /\ cards[c].attempt = turn[s].attempt
             /\ Owns(s, turn[s].attempt, c) /\ c \in 1..MaxCards
<1>1. JobHolds(s) /\ turn[s].card \in Cards
  BY DEF IInv, JobHolds
<1>2. turn[s].card \in 1..MaxCards /\ cards[turn[s].card] \in Requests
  BY <1>1, TypeFacts DEF IInv, Ids
<1> QED BY <1>1, <1>2 DEF IInv, JobHolds, Owns

LEMMA OnTurnBegins ==
    ASSUME IInv, NEW s \in Sessions, TurnBegins(s)
    PROVE  IInv'
<1>1. turn[s] \in Jobs /\ JobHolds(s) /\ turn[s].pc = "start" /\ turn \in [Sessions -> Jobs]
  BY DEF IInv, StateTypeOK, TurnBegins
<1>2. /\ turn'[s].pc = "round" /\ turn'[s].card = 0 /\ turn'[s].attempt = turn[s].attempt
      /\ turn'[s].rounds = turn[s].rounds /\ turn'[s] \in Jobs /\ turn[s].card = 0
  BY <1>1 DEF TurnBegins, JobHolds, Jobs
<1>3. \A u \in Sessions \ {s} : turn'[u] = turn[u]
  BY <1>1 DEF TurnBegins
<1>4. turn' \in [Sessions -> Jobs]
  BY <1>1, <1>2, <1>3 DEF TurnBegins
<1>5. journal' \in [turn : Nat, pre : Int, after : Int, whole : BOOLEAN]
  BY DEF TurnBegins, NoJournal
<1>6. StateTypeOK'
  BY <1>4, <1>5 DEF IInv, StateTypeOK, TurnBegins
<1>7. JobFrame /\ cards' = cards /\ channel' = channel /\ replies' = replies /\ inbox' = inbox
  BY DEF TurnBegins, JobFrame
<1>8. JobHolds(s)'
  BY <1>1, <1>2, <1>7 DEF JobHolds, JobFrame
<1>9. InboxHolds(s)'
  BY <1>7 DEF IInv, InboxHolds, Owns, Cards
<1>10. 0 \notin Cards
  BY TypeFacts DEF IInv
<1> QED BY <1>1, <1>2, <1>3, <1>6, <1>7, <1>8, <1>9, <1>10, CardsSame, ChannelSame, JobMoves

LEMMA OnAnswers ==
    ASSUME IInv, NEW s \in Sessions, Answers(s)
    PROVE  IInv'
<1>1. turn[s] \in Jobs /\ JobHolds(s) /\ turn[s].pc = "round" /\ turn \in [Sessions -> Jobs]
  BY DEF IInv, StateTypeOK, Answers
<1>2. PICK what \in {"done", "failed"} : Post(s, what, 0)
  BY DEF Answers
<1>3. Idle \in Jobs /\ Idle.card = 0 /\ Idle.pc = "none" /\ Idle.attempt = 0 /\ Idle.rounds = 0
  BY ChatAssumption DEF Idle, Jobs
<1>4. turn'[s] = Idle /\ turn[s].card = 0 /\ turn[s].attempt \in Nat
  BY <1>1 DEF Answers, JobHolds, Jobs
<1>5. \A u \in Sessions \ {s} : turn'[u] = turn[u]
  BY <1>1 DEF Answers
<1>6. turn' \in [Sessions -> Jobs]
  BY <1>1, <1>3 DEF Answers
<1>7. JobFrame /\ cards' = cards /\ channel' = channel /\ replies' = replies
  BY DEF Answers, JobFrame
<1> DEFINE e == [attempt |-> turn[s].attempt, what |-> what, card |-> 0]
<1>8. e \in Updates /\ e.what \notin {"result", "killed"}
  BY <1>2, <1>4, ChatAssumption DEF Updates
<1>9. inbox' = [inbox EXCEPT ![s] = Append(@, e)]
  BY <1>2 DEF Post
<1> HIDE DEF e
<1>10. /\ inbox' \in [Sessions -> Seq(Updates)] /\ InboxHolds(s)'
       /\ \A u \in Sessions \ {s} : inbox'[u] = inbox[u]
  BY <1>7, <1>8, <1>9, CardsSame, PostIs
<1>11. StateTypeOK'
  BY <1>6, <1>10 DEF IInv, StateTypeOK, Answers
<1>12. chat'[s].attempt \in Nat /\ bound'.steps \in Nat
  BY <1>11, TypeFacts DEF StateTypeOK, Chats, IInv, Answers
<1>13. JobHolds(s)'
  BY <1>3, <1>4, <1>12 DEF JobHolds
<1>14. 0 \notin Cards
  BY TypeFacts DEF IInv
<1> QED
  BY <1>1, <1>3, <1>4, <1>5, <1>7, <1>10, <1>11, <1>13, <1>14, CardsSame, ChannelSame, JobMoves

LEMMA OnRuled ==
    ASSUME IInv, NEW s \in Sessions, Ruled(s)
    PROVE  IInv'
<1>0. PICK c : c = turn[s].card
  OBVIOUS
<1> DEFINE r == [cards[c] EXCEPT !.ruled = TRUE, !.run = "spawned"]
<1>1. /\ turn[s] \in Jobs /\ JobHolds(s) /\ turn[s].pc = "card" /\ turn \in [Sessions -> Jobs]
      /\ ~cards[c].asked /\ ~cards[c].ruled
  BY <1>0 DEF IInv, StateTypeOK, Ruled, JobHolds
<1>2. /\ c \in Cards /\ cards[c] \in Requests /\ CardHolds(c)
      /\ cards[c].session = s /\ cards[c].attempt = turn[s].attempt
  BY <1>0, <1>1, OwnCard
<1>3. cards[c].answer = "none" /\ cards[c].run = "none" /\ log[c] = <<>> /\ ~cards[c].wrote
  BY <1>1, <1>2 DEF CardHolds, Decisions, Requests
<1>4. /\ r \in Requests /\ r.session = s /\ r.attempt = turn[s].attempt /\ ~r.asked
      /\ r.answer = "none" /\ r.ruled /\ r.run = "spawned" /\ ~r.wrote
  BY <1>1, <1>2, <1>3 DEF Requests
<1>5. cards' = [d \in Cards |-> IF d = c THEN r ELSE cards[d]]
  BY <1>0, <1>2 DEF Ruled, Cards, Requests
<1> HIDE DEF r
<1>6. Becomes(c, r)
  BY <1>2, <1>4, <1>5 DEF Becomes
<1>7. /\ cards' \in Seq(Requests) /\ Len(cards') = Len(cards) /\ Cards' = Cards
      /\ cards'[c] = r /\ \A d \in Cards \ {c} : cards'[d] = cards[d]
      /\ Kept
  BY <1>6, BecomesIs DEF IInv
<1>8. /\ turn'[s].pc = "running" /\ turn'[s].card = c /\ turn'[s].attempt = turn[s].attempt
      /\ turn'[s].rounds = turn[s].rounds /\ turn'[s] \in Jobs
      /\ \A u \in Sessions \ {s} : turn'[u] = turn[u]
  BY <1>0, <1>1 DEF Ruled, Jobs
<1>9. turn' \in [Sessions -> Jobs]
  BY <1>1, <1>8 DEF Ruled
<1>10. StateTypeOK'
  BY <1>7, <1>9 DEF IInv, StateTypeOK, Ruled
<1>11. JobFrame /\ channel' = channel /\ replies' = replies /\ inbox' = inbox
  BY DEF Ruled, JobFrame
<1>12. JobHolds(s)'
  BY <1>1, <1>2, <1>4, <1>7, <1>8, <1>11 DEF JobHolds, JobFrame
<1>13. InboxHolds(s)'
  BY <1>7, <1>11, OwnsStays DEF IInv, InboxHolds, Owns, Cards
<1>14. CardHolds(c)'
  BY <1>2, <1>3, <1>4, <1>7, <1>11 DEF CardHolds, JobFrame, Decisions
<1>15. \A d : Asking(d) => d \in Cards' /\ cards'[d].asked /\ cards'[d].answer = "none"
  BY <1>1, <1>7 DEF Asking
<1>16. /\ ChannelHolds'
       /\ \A i \in DOMAIN channel : \E j \in DOMAIN channel' : channel'[j] = channel[i]
  BY <1>7, <1>11, <1>15, ChannelSame
<1>17. \A d \in Cards' : d = c \/ d \notin Cards => CardHolds(d)'
  BY <1>7, <1>14
<1> QED BY <1>0, <1>1, <1>7, <1>8, <1>10, <1>11, <1>12, <1>13, <1>15, <1>16, <1>17, JobMoves

LEMMA OnDecided ==
    ASSUME IInv, NEW s \in Sessions, Decided(s)
    PROVE  IInv'
<1>0. PICK c : c = turn[s].card
  OBVIOUS
<1> DEFINE r == [cards[c] EXCEPT !.run = "spawned"]
<1>1. /\ turn[s] \in Jobs /\ JobHolds(s) /\ turn[s].pc = "waiting" /\ turn \in [Sessions -> Jobs]
      /\ cards[c].asked /\ cards[c].run = "none" /\ cards[c].answer \in Decisions
  BY <1>0 DEF IInv, StateTypeOK, Decided, JobHolds, Decisions
<1>2. /\ c \in Cards /\ cards[c] \in Requests /\ CardHolds(c)
      /\ cards[c].session = s /\ cards[c].attempt = turn[s].attempt
  BY <1>0, <1>1, OwnCard
<1>3. log[c] = <<>> /\ ~cards[c].wrote /\ ~cards[c].ruled
  BY <1>0, <1>1, <1>2 DEF CardHolds, Waits, Requests
<1>4. /\ r \in Requests /\ r.session = s /\ r.attempt = turn[s].attempt /\ r.asked
      /\ r.answer \in Decisions /\ ~r.ruled /\ r.run = "spawned" /\ ~r.wrote
  BY <1>1, <1>2, <1>3 DEF Requests
<1>5. cards' = [d \in Cards |-> IF d = c THEN r ELSE cards[d]]
  BY <1>0, <1>2 DEF Decided, Cards, Requests
<1> HIDE DEF r
<1>6. Becomes(c, r)
  BY <1>2, <1>4, <1>5 DEF Becomes
<1>7. /\ cards' \in Seq(Requests) /\ Len(cards') = Len(cards) /\ Cards' = Cards
      /\ cards'[c] = r /\ \A d \in Cards \ {c} : cards'[d] = cards[d]
      /\ Kept
  BY <1>6, BecomesIs DEF IInv
<1>8. /\ turn'[s].pc = "running" /\ turn'[s].card = c /\ turn'[s].attempt = turn[s].attempt
      /\ turn'[s].rounds = turn[s].rounds /\ turn'[s] \in Jobs
      /\ \A u \in Sessions \ {s} : turn'[u] = turn[u]
  BY <1>0, <1>1 DEF Decided, Jobs
<1>9. turn' \in [Sessions -> Jobs]
  BY <1>1, <1>8 DEF Decided
<1>10. StateTypeOK'
  BY <1>7, <1>9 DEF IInv, StateTypeOK, Decided
<1>11. JobFrame /\ channel' = channel /\ replies' = replies /\ inbox' = inbox
  BY DEF Decided, JobFrame
<1>12. JobHolds(s)'
  BY <1>1, <1>2, <1>4, <1>7, <1>8, <1>11 DEF JobHolds, JobFrame
<1>13. InboxHolds(s)'
  BY <1>7, <1>11, OwnsStays DEF IInv, InboxHolds, Owns, Cards
<1>14. CardHolds(c)'
  BY <1>2, <1>3, <1>4, <1>7, <1>11 DEF CardHolds, JobFrame, Decisions
<1>15. \A d : Asking(d) => d \in Cards' /\ cards'[d].asked /\ cards'[d].answer = "none"
  BY <1>1, <1>7 DEF Asking, Decisions
<1>16. /\ ChannelHolds'
       /\ \A i \in DOMAIN channel : \E j \in DOMAIN channel' : channel'[j] = channel[i]
  BY <1>7, <1>11, <1>15, ChannelSame
<1>17. \A d \in Cards' : d = c \/ d \notin Cards => CardHolds(d)'
  BY <1>7, <1>14
<1> QED BY <1>0, <1>1, <1>7, <1>8, <1>10, <1>11, <1>12, <1>13, <1>15, <1>16, <1>17, JobMoves

LEMMA OnAsks ==
    ASSUME IInv, NEW s \in Sessions, Asks(s)
    PROVE  IInv'
<1>0. PICK c : c = turn[s].card
  OBVIOUS
<1> DEFINE r == [cards[c] EXCEPT !.asked = TRUE]
<1>1. /\ turn[s] \in Jobs /\ JobHolds(s) /\ turn[s].pc = "card" /\ turn \in [Sessions -> Jobs]
      /\ ~cards[c].asked /\ ~cards[c].ruled
  BY <1>0 DEF IInv, StateTypeOK, Asks, JobHolds
<1>2. /\ c \in Cards /\ cards[c] \in Requests /\ CardHolds(c) /\ c \in Ids
      /\ cards[c].session = s /\ cards[c].attempt = turn[s].attempt
  BY <1>0, <1>1, OwnCard DEF Ids
<1>3. cards[c].answer = "none" /\ cards[c].run = "none" /\ log[c] = <<>> /\ ~cards[c].wrote
  BY <1>1, <1>2 DEF CardHolds, Decisions, Requests
<1>4. /\ r \in Requests /\ r.session = s /\ r.attempt = turn[s].attempt /\ r.asked
      /\ r.answer = "none" /\ ~r.ruled /\ r.run = "none" /\ ~r.wrote
  BY <1>1, <1>2, <1>3 DEF Requests
<1>5. cards' = [d \in Cards |-> IF d = c THEN r ELSE cards[d]]
  BY <1>0, <1>2 DEF Asks, Cards, Requests
<1> HIDE DEF r
<1>6. Becomes(c, r)
  BY <1>2, <1>4, <1>5 DEF Becomes
<1>7. /\ cards' \in Seq(Requests) /\ Len(cards') = Len(cards) /\ Cards' = Cards
      /\ cards'[c] = r /\ \A d \in Cards \ {c} : cards'[d] = cards[d]
      /\ Kept
  BY <1>6, BecomesIs DEF IInv
<1>8. /\ turn'[s].pc = "waiting" /\ turn'[s].card = c /\ turn'[s].attempt = turn[s].attempt
      /\ turn'[s].rounds = turn[s].rounds /\ turn'[s] \in Jobs
      /\ \A u \in Sessions \ {s} : turn'[u] = turn[u]
  BY <1>0, <1>1 DEF Asks, Jobs
<1>9. turn' \in [Sessions -> Jobs]
  BY <1>1, <1>8 DEF Asks
<1>10. /\ channel \in Seq(Ids) /\ channel' = Append(channel, c) /\ channel' \in Seq(Ids)
       /\ DOMAIN channel = 1..Len(channel) /\ Len(channel) \in Nat
       /\ DOMAIN channel' = 1..(Len(channel) + 1)
       /\ channel'[Len(channel) + 1] = c
       /\ \A i \in 1..Len(channel) : channel'[i] = channel[i]
  BY <1>0, <1>2 DEF IInv, StateTypeOK, Asks
<1>11. StateTypeOK'
  BY <1>7, <1>9, <1>10 DEF IInv, StateTypeOK, Asks
<1>12. JobFrame /\ replies' = replies /\ inbox' = inbox
  BY DEF Asks, JobFrame
<1>13. JobHolds(s)'
  BY <1>1, <1>2, <1>4, <1>7, <1>8, <1>12 DEF JobHolds, JobFrame
<1>14. InboxHolds(s)'
  BY <1>7, <1>12, OwnsStays DEF IInv, InboxHolds, Owns, Cards
<1>15. InHand(c)' /\ Waits(c)'
  <2>1. Waits(c)'
    BY <1>4, <1>7, <1>8 DEF Waits
  <2>2. Len(channel) + 1 \in DOMAIN channel'
    BY <1>10
  <2>3. InHand(c)'
    BY <1>10, <2>2, HandIsThen
  <2> QED BY <2>1, <2>3
<1>16. CardHolds(c)'
  BY <1>2, <1>3, <1>4, <1>7, <1>12, <1>15 DEF CardHolds, JobFrame, Decisions
<1>17. \A d : Asking(d) => d \in Cards' /\ cards'[d].asked /\ cards'[d].answer = "none"
  BY <1>1, <1>7 DEF Asking
<1>18. \A i \in DOMAIN channel : \E j \in DOMAIN channel' : channel'[j] = channel[i]
  BY <1>10
<1>19. ChannelHolds'
  <2>1. ChannelHolds /\ ReplyHolds(s) /\ 0 \notin Cards
    BY TypeFacts DEF IInv
  <2>2. \A i \in 1..Len(channel) : /\ Asking(channel[i]) /\ channel[i] # c
                                   /\ channel[i] # replies[cards[channel[i]].session]
                                   /\ cards'[channel[i]].session = cards[channel[i]].session
    <3>1. \A i \in 1..Len(channel) :
            Asking(channel[i]) /\ channel[i] # replies[cards[channel[i]].session]
      BY <1>10, <2>1 DEF ChannelHolds
    <3>2. \A i \in 1..Len(channel) : channel[i] \in Cards \ {c}
      BY <1>1, <3>1 DEF Asking
    <3> QED BY <1>7, <3>1, <3>2
  <2>3. c # replies[s]
    BY <1>1, <1>2, <2>1 DEF ReplyHolds, Asking
  <2>4. \A i \in DOMAIN channel' :
          Asking(channel[i])' /\ channel'[i] # replies'[cards'[channel'[i]].session]
    <3> SUFFICES ASSUME NEW i \in DOMAIN channel'
                 PROVE  Asking(channel[i])' /\ channel'[i] # replies'[cards'[channel'[i]].session]
      OBVIOUS
    <3>1. CASE i \in 1..Len(channel)
      BY <1>10, <1>12, <1>17, <2>2, <3>1 DEF Asking
    <3>2. CASE i = Len(channel) + 1
      BY <1>2, <1>4, <1>7, <1>10, <1>12, <2>3, <3>2 DEF Asking
    <3> QED BY <1>10, <3>1, <3>2
  <2>5. \A i, j \in DOMAIN channel' : channel'[i] = channel'[j] => i = j
    BY <1>10, <2>1, <2>2 DEF ChannelHolds
  <2> QED BY <2>4, <2>5 DEF ChannelHolds
<1>20. \A d \in Cards' : d = c \/ d \notin Cards => CardHolds(d)'
  BY <1>7, <1>16
<1> QED BY <1>0, <1>1, <1>7, <1>8, <1>11, <1>12, <1>13, <1>14, <1>17, <1>18, <1>19, <1>20, JobMoves

\* The call is over for the job, which tells the session of it.
GoesOn(s) ==
    /\ turn[s].pc \in {"waiting", "running"}
    /\ Post(s, "result", turn[s].card)
    /\ turn' = [turn EXCEPT ![s].pc = "round", ![s].card = 0]
    /\ UNCHANGED <<bound, chat, ready, cards, channel, replies, rules, file,
                   journal, log, pass, count>>

\* A card that was put to the owner is closed when its job goes on, or has run.
LEMMA OnGoesOn ==
    ASSUME IInv, NEW s \in Sessions, GoesOn(s),
           LET k == cards[turn[s].card] IN k.answer = "closed" \/ k.run = "ended"
    PROVE  IInv'
<1>0. PICK c : c = turn[s].card
  OBVIOUS
<1>1. /\ turn[s] \in Jobs /\ JobHolds(s) /\ turn[s].pc \in {"waiting", "running"}
      /\ turn \in [Sessions -> Jobs]
  BY DEF IInv, StateTypeOK, GoesOn
<1>2. /\ c \in Cards /\ cards[c] \in Requests /\ CardHolds(c) /\ c \in 1..MaxCards
      /\ cards[c].session = s /\ cards[c].attempt = turn[s].attempt
      /\ Owns(s, turn[s].attempt, c)
  BY <1>0, <1>1, OwnCard
<1>3. /\ turn'[s].pc = "round" /\ turn'[s].card = 0 /\ turn'[s].attempt = turn[s].attempt
      /\ turn'[s].rounds = turn[s].rounds /\ turn'[s] \in Jobs /\ turn[s].attempt \in Nat
      /\ \A u \in Sessions \ {s} : turn'[u] = turn[u]
  <2>1. 0 \in 0..MaxCards
    BY ChatAssumption
  <2>2. turn'[s] = [turn[s] EXCEPT !.pc = "round", !.card = 0]
    BY <1>1 DEF GoesOn
  <2>3. \A u \in Sessions \ {s} : turn'[u] = turn[u]
    BY <1>1 DEF GoesOn
  <2> QED BY <1>1, <2>1, <2>2, <2>3 DEF Jobs
<1>4. turn' \in [Sessions -> Jobs]
  BY <1>1, <1>3 DEF GoesOn
<1>5. JobFrame /\ cards' = cards /\ channel' = channel /\ replies' = replies
  BY DEF GoesOn, JobFrame
<1>6. /\ Kept /\ Cards' = Cards
      /\ \A d : Asking(d) => d \in Cards' /\ cards'[d].asked /\ cards'[d].answer = "none"
  BY <1>5, CardsSame
<1> DEFINE e == [attempt |-> turn[s].attempt, what |-> "result", card |-> c]
<1>7. /\ e \in Updates /\ e.attempt = turn[s].attempt /\ e.card = c
      /\ inbox' = [inbox EXCEPT ![s] = Append(@, e)]
  BY <1>0, <1>2, <1>3 DEF Updates, GoesOn, Post
<1> HIDE DEF e
<1>8. /\ inbox' \in [Sessions -> Seq(Updates)] /\ InboxHolds(s)'
      /\ \A u \in Sessions \ {s} : inbox'[u] = inbox[u]
  BY <1>2, <1>6, <1>7, PostIs
<1>9. StateTypeOK'
  BY <1>4, <1>8 DEF IInv, StateTypeOK, GoesOn
<1>10. JobHolds(s)'
  BY <1>1, <1>3, <1>5 DEF JobHolds, JobFrame
<1>11. CardHolds(c)'
  <2>1. ~(cards[c].asked /\ cards[c].answer = "none")
    <3>1. cards[c].answer = "closed" \/ cards[c].run = "ended"
      BY <1>0
    <3> QED BY <1>2, <3>1 DEF CardHolds, Decisions
  <2>2. cards[c].run = "none" => cards[c].answer \notin Decisions
    BY <1>0 DEF Decisions
  <2>3. cards'[c] = cards[c] /\ log'[c] = log[c] /\ chat' = chat
    BY <1>5 DEF JobFrame
  <2> QED BY <1>2, <2>1, <2>2, <2>3 DEF CardHolds, Approved
<1>12. /\ ChannelHolds'
       /\ \A i \in DOMAIN channel : \E j \in DOMAIN channel' : channel'[j] = channel[i]
  BY <1>5, <1>6, ChannelSame
<1>13. \A d \in Cards' : d = c \/ d \notin Cards => CardHolds(d)'
  BY <1>6, <1>11
<1>14. \A d \in Cards \ {c} : cards'[d] = cards[d]
  BY <1>5
<1>15. turn'[s].card \notin Cards \ {c}
  BY <1>3, TypeFacts DEF IInv
<1> QED
  BY <1>0, <1>1, <1>3, <1>5, <1>6, <1>8, <1>9, <1>10, <1>12, <1>13, <1>14, <1>15, JobMoves

LEMMA OnDropped ==
    ASSUME IInv, NEW s \in Sessions, Dropped(s)
    PROVE  IInv'
BY OnGoesOn DEF Dropped, GoesOn

LEMMA OnReturns ==
    ASSUME IInv, NEW s \in Sessions, Returns(s)
    PROVE  IInv'
BY OnGoesOn DEF Returns, GoesOn

LEMMA OnCalls ==
    ASSUME IInv, NEW s \in Sessions, NEW kind \in {"edit", "shell"}, Calls(s, kind)
    PROVE  IInv'
<1> DEFINE r == [session |-> s, attempt |-> turn[s].attempt, turn |-> turn[s].id,
                 kind |-> kind, base |-> file, pre |-> -1, asked |-> FALSE,
                 answer |-> "none", ruled |-> FALSE, run |-> "none", stop |-> FALSE,
                 wrote |-> FALSE]
<1>0. PICK c : c = Len(cards) + 1
  OBVIOUS
<1>1. /\ turn[s] \in Jobs /\ JobHolds(s) /\ turn[s].pc = "round" /\ turn \in [Sessions -> Jobs]
      /\ cards \in Seq(Requests) /\ file \in Int /\ turn[s].card = 0
      /\ turn[s].attempt \in Nat /\ turn[s].id \in Nat
  BY DEF IInv, StateTypeOK, Calls, JobHolds, Jobs
<1>2. /\ Cards = 1..Len(cards) /\ Len(cards) \in Nat /\ Len(cards) < MaxCards /\ MaxCards \in Nat
      /\ c \in Ids /\ c \notin Cards /\ c \in 1..MaxCards /\ 0 \notin Cards
  BY <1>0, TypeFacts DEF IInv, Calls, Ids
<1>3. r \in Requests
  BY <1>1 DEF Requests
<1>4. cards' = Append(cards, r) /\ cards' \in Seq(Requests) /\ Len(cards') = Len(cards) + 1
  BY <1>1, <1>3 DEF Calls
<1>5. /\ Cards' = Cards \union {c} /\ cards'[c] = r
      /\ \A d \in Cards : cards'[d] = cards[d]
  BY <1>0, <1>1, <1>2, <1>3, <1>4 DEF Cards
<1>6. /\ r.session = s /\ r.attempt = turn[s].attempt /\ ~r.asked /\ r.answer = "none"
      /\ ~r.ruled /\ r.run = "none" /\ ~r.wrote
  OBVIOUS
<1> HIDE DEF r
<1>7. Kept
  BY <1>5 DEF Kept, Cards
<1>8. /\ turn'[s].pc = "card" /\ turn'[s].card = c /\ turn'[s].attempt = turn[s].attempt
      /\ turn'[s].rounds = turn[s].rounds + 1 /\ turn'[s] \in Jobs
      /\ \A u \in Sessions \ {s} : turn'[u] = turn[u]
  <2>1. c \in 0..MaxCards /\ turn[s].rounds + 1 \in Nat
    BY <1>1, <1>2 DEF Jobs
  <2>2. turn'[s] = [turn[s] EXCEPT !.pc = "card", !.card = c, !.rounds = @ + 1]
    BY <1>0, <1>1 DEF Calls
  <2>3. \A u \in Sessions \ {s} : turn'[u] = turn[u]
    BY <1>1 DEF Calls
  <2> QED BY <1>1, <2>1, <2>2, <2>3 DEF Jobs
<1>9. turn' \in [Sessions -> Jobs]
  BY <1>1, <1>8 DEF Calls
<1>10. StateTypeOK'
  <2>1. Len(cards') <= MaxCards
    BY <1>2, <1>4
  <2> QED BY <1>4, <1>9, <2>1 DEF IInv, StateTypeOK, Calls
<1>11. JobFrame /\ channel' = channel /\ replies' = replies /\ inbox' = inbox
  BY DEF Calls, JobFrame
<1>12. JobHolds(s)'
  <2>1. turn[s].rounds < bound.steps /\ turn[s].rounds \in Nat /\ bound.steps \in Nat
    BY <1>1, TypeFacts DEF Calls, Jobs, IInv
  <2>2. chat' = chat /\ bound' = bound
    BY <1>11 DEF JobFrame
  <2> QED BY <1>1, <1>5, <1>6, <1>8, <2>1, <2>2 DEF JobHolds
<1>13. InboxHolds(s)'
  BY <1>7, <1>11, OwnsStays DEF IInv, InboxHolds, Owns, Cards
<1>14. CardHolds(c)'
  <2>1. log'[c] = <<>> /\ chat' = chat
    BY <1>2, <1>11 DEF IInv, JobFrame
  <2> QED BY <1>1, <1>5, <1>6, <2>1 DEF CardHolds, JobHolds, Decisions
<1>15. \A d : Asking(d) => d \in Cards' /\ cards'[d].asked /\ cards'[d].answer = "none"
  BY <1>5 DEF Asking
<1>16. /\ ChannelHolds'
       /\ \A i \in DOMAIN channel : \E j \in DOMAIN channel' : channel'[j] = channel[i]
  BY <1>7, <1>11, <1>15, ChannelSame
<1>17. \A d \in Cards' : d = turn[s].card \/ d \notin Cards => CardHolds(d)'
  BY <1>1, <1>2, <1>5, <1>14
<1>18. \A d \in Cards \ {turn[s].card} : cards'[d] = cards[d]
  BY <1>5
<1>19. turn'[s].card \notin Cards \ {turn[s].card} /\ \A u \in Sessions \ {s} : inbox'[u] = inbox[u]
  BY <1>2, <1>8, <1>11
<1> QED
  BY <1>1, <1>7, <1>8, <1>10, <1>11, <1>12, <1>13, <1>15, <1>16, <1>17, <1>18, <1>19, JobMoves

-----------------------------------------------------------------------------
(* Steps of a thread.  *)

\* The call of card k is under way, or it has ended with the outcomes l.
Working(k, l) ==
    LET approved == k.ruled \/ k.answer \in {"yes", "always"} IN
      /\ k.run # "none"
      /\ k.run # "ended" => l = <<>>
      /\ k.run \in {"captured", "checked", "written", "running"} => approved
      /\ k.run \in {"captured", "checked", "written"} => k.kind = "edit"
      /\ k.run = "running" => k.kind = "shell"
      /\ k.run \in {"spawned", "captured", "checked"} => ~k.wrote
      /\ k.run \in {"written", "running"} => k.wrote
      /\ k.run = "ended" =>
           /\ \E outcome \in Outcomes : l = <<outcome>>
           /\ l = <<"applied">> => k.wrote
           /\ l = <<"denied">> => ~k.wrote
           /\ k.kind = "edit" /\ l # <<"applied">> => ~k.wrote
      /\ k.wrote => approved

LEMMA AtWork ==
    ASSUME IInv, NEW c \in Cards, cards[c].run # "none"
    PROVE  /\ Working(cards[c], log[c])
           /\ cards[c].ruled \/ cards[c].answer \in Decisions
           /\ cards[c] \in Requests /\ c \in Ids /\ log[c] \in Seq(Outcomes)
<1>1. CardHolds(c) /\ cards[c] \in Requests /\ c \in Ids /\ log[c] \in Seq(Outcomes)
  BY TypeFacts DEF IInv
<1> QED BY <1>1 DEF CardHolds, Working, Approved

\* The thread of c has made r of its card.
PoolStep(c, r) ==
    /\ Becomes(c, r)
    /\ UNCHANGED <<bound, chat, ready, turn, channel, replies, pass, count>>
    /\ r.asked = cards[c].asked /\ r.answer = cards[c].answer /\ r.ruled = cards[c].ruled
    /\ cards[c].run # "none" /\ Working(r, log'[c])
    /\ \A d \in Ids \ {c} : log'[d] = log[d]

LEMMA PoolMoves ==
    ASSUME IInv, NEW c \in Cards, NEW r, PoolStep(c, r), StateTypeOK',
           \A s \in Sessions : InboxHolds(s)'
    PROVE  IInv'
<1>1. /\ cards' \in Seq(Requests) /\ Cards' = Cards
      /\ cards'[c] = r /\ \A d \in Cards \ {c} : cards'[d] = cards[d]
      /\ Kept /\ r.session = cards[c].session /\ r.attempt = cards[c].attempt
  BY BecomesIs DEF PoolStep, IInv, Becomes
<1>2. /\ r.asked = cards[c].asked /\ r.answer = cards[c].answer /\ r.ruled = cards[c].ruled
      /\ cards[c].run # "none" /\ r.run # "none" /\ Working(r, log'[c])
      /\ cards[c].ruled \/ cards[c].answer \in Decisions
  BY AtWork DEF PoolStep, Working
<1>3. /\ bound' = bound /\ chat' = chat /\ ready' = ready /\ turn' = turn /\ channel' = channel
      /\ replies' = replies /\ pass' = pass /\ count' = count
  BY DEF PoolStep
<1>4. \A d \in Cards' : CardHolds(d)'
  <2> SUFFICES ASSUME NEW d \in Cards PROVE CardHolds(d)'
    BY <1>1
  <2>1. CASE d = c
    <3>1. CardHolds(c)
      BY DEF IInv
    <3>2. cards[c].answer # "none" => cards[c].asked
      BY <3>1 DEF CardHolds
    <3>3. cards[c].ruled => ~cards[c].asked
      BY <3>1 DEF CardHolds
    <3>4. cards[c].attempt <= chat[cards[c].session].attempt
      BY <3>1 DEF CardHolds
    <3> QED BY <1>1, <1>2, <1>3, <2>1, <3>2, <3>3, <3>4 DEF CardHolds, Working, Approved, Decisions
  <2>2. CASE d # c
    <3>1. cards'[d] = cards[d]
      BY <1>1, <2>2
    <3>2. log'[d] = log[d]
      BY <2>2, TypeFacts DEF PoolStep, IInv
    <3>3. Around(d)
      BY <1>3, AttemptsAre, HandIs DEF Around
    <3> QED BY <1>1, <3>1, <3>2, <3>3, CardStays DEF Cards
  <2> QED BY <2>1, <2>2
<1>5. \A d \in (Ids \ Cards)' : log'[d] = <<>>
  BY <1>1 DEF IInv, PoolStep, Ids
<1>6. \A d : Asking(d) => d \in Cards' /\ cards'[d].asked /\ cards'[d].answer = "none"
  BY <1>1, <1>2 DEF Asking
<1>7. ChannelHolds'
  BY <1>1, <1>3, <1>6, ChannelSame
<1>8. ASSUME NEW s \in Sessions
      PROVE  ReplyHolds(s)' /\ JobHolds(s)' /\ SessionHolds(s)'
  <2>1. ReplyHolds(s) /\ JobHolds(s) /\ SessionHolds(s) /\ turn[s] \in Jobs
    BY TypeFacts DEF IInv
  <2>2. ReplyHolds(s)'
    <3>1. replies[s] # 0 => replies[s] \in Cards /\ cards'[replies[s]].session = s
      BY <1>1, <2>1 DEF ReplyHolds, Asking
    <3> QED BY <1>3, <1>6, <2>1, <3>1 DEF ReplyHolds, Asking
  <2>3. JobHolds(s)'
    <3>1. turn[s].card \in Cards => /\ turn[s].card \in Cards'
                                    /\ cards'[turn[s].card].session = cards[turn[s].card].session
                                    /\ cards'[turn[s].card].attempt = cards[turn[s].card].attempt
                                    /\ cards'[turn[s].card].asked = cards[turn[s].card].asked
                                    /\ cards'[turn[s].card].ruled = cards[turn[s].card].ruled
      BY <1>1, <1>2
    <3>2. turn[s].card \in Cards =>
            (cards'[turn[s].card].run = "none" <=> cards[turn[s].card].run = "none")
      BY <1>1, <1>2
    <3> QED BY <1>3, <2>1, <3>1, <3>2 DEF JobHolds
  <2>4. SessionHolds(s)'
    <3>1. \A d : Owns(s, chat[s].attempt, d) =>
            d \in Cards' /\ cards'[d].session = s /\ cards'[d].attempt = chat[s].attempt
      BY <1>1, OwnsStays DEF Cards
    <3> QED BY <1>3, <2>1, <3>1 DEF SessionHolds, Owns, Active
  <2> QED BY <2>2, <2>3, <2>4
<1>9. ShowHolds'
  BY <1>3 DEF IInv, ShowHolds, Pending, Active
<1>10. TextsInOrder'
  BY <1>3, TextsKept DEF IInv
<1> QED BY <1>4, <1>5, <1>7, <1>8, <1>9, <1>10 DEF IInv

\* What a thread may leave as it is.
LEMMA InboxSame ==
    ASSUME IInv, inbox' = inbox, Kept
    PROVE  \A s \in Sessions : InboxHolds(s)'
BY OwnsStays DEF IInv, InboxHolds, Owns, Cards

LEMMA LoggedIs ==
    ASSUME StateTypeOK, NEW c \in Cards, NEW outcome \in Outcomes, log[c] = <<>>,
           log' = Logged(log, c, outcome)
    PROVE  /\ log' \in [Ids -> Seq(Outcomes)] /\ log'[c] = <<outcome>>
           /\ \A d \in Ids \ {c} : log'[d] = log[d]
<1>1. c \in Ids /\ log \in [Ids -> Seq(Outcomes)] /\ log[c] \in Seq(Outcomes)
  BY TypeFacts DEF StateTypeOK
<1>2. log'[c] = Append(log[c], outcome) /\ \A d \in Ids \ {c} : log'[d] = log[d]
  BY <1>1 DEF Logged
<1>3. Append(log[c], outcome) \in Seq(Outcomes)
  BY <1>1
<1>4. log'[c] = <<outcome>>
  BY <1>2
<1>5. log' \in [Ids -> Seq(Outcomes)]
  BY <1>1, <1>3 DEF Logged
<1> QED BY <1>2, <1>4, <1>5

Journals == [turn : Nat, pre : Int, after : Int, whole : BOOLEAN]

\* What another thread may touch.
PoolFrame ==
    /\ UNCHANGED <<bound, chat, ready, turn, channel, replies, pass, count>>
    /\ rules' \subseteq {"edit", "shell"} /\ file' \in Int /\ journal' \in Journals

LEMMA PoolGoes ==
    ASSUME IInv, PoolFrame, NEW c \in Cards, NEW r, Becomes(c, r), cards[c].run # "none",
           r.asked = cards[c].asked, r.answer = cards[c].answer, r.ruled = cards[c].ruled,
           Working(r, log'[c]), log' \in [Ids -> Seq(Outcomes)],
           \A d \in Ids \ {c} : log'[d] = log[d],
           inbox' \in [Sessions -> Seq(Updates)], \A s \in Sessions : InboxHolds(s)'
    PROVE  IInv'
<1>1. PoolStep(c, r)
  BY DEF PoolStep, PoolFrame
<1>2. cards' \in Seq(Requests) /\ Len(cards') = Len(cards)
  BY BecomesIs DEF IInv
<1>3. StateTypeOK'
  BY <1>2 DEF IInv, StateTypeOK, PoolFrame, Journals
<1> QED BY <1>1, <1>3, PoolMoves

\* An outcome that is true of what the thread did.
LEMMA EndsTruly ==
    ASSUME IInv, PoolFrame, NEW c \in Cards, NEW outcome \in Outcomes, Ends(c, outcome),
           cards[c].run \notin {"none", "ended"},
           outcome = "applied" => cards[c].wrote,
           outcome = "denied" => ~cards[c].wrote,
           cards[c].kind = "edit" /\ outcome # "applied" => ~cards[c].wrote,
           inbox' \in [Sessions -> Seq(Updates)], Kept => \A s \in Sessions : InboxHolds(s)'
    PROVE  IInv'
<1> DEFINE r == [cards[c] EXCEPT !.run = "ended"]
<1>1. /\ Working(cards[c], log[c]) /\ cards[c] \in Requests /\ log[c] = <<>>
  BY AtWork DEF Working
<1>2. /\ r \in Requests /\ r.session = cards[c].session /\ r.attempt = cards[c].attempt
      /\ r.asked = cards[c].asked /\ r.answer = cards[c].answer /\ r.ruled = cards[c].ruled
      /\ r.run = "ended" /\ r.wrote = cards[c].wrote /\ r.kind = cards[c].kind
  BY <1>1 DEF Requests
<1>3. cards' = [d \in Cards |-> IF d = c THEN r ELSE cards[d]]
  BY <1>1 DEF Ends, Cards, Requests
<1> HIDE DEF r
<1>4. Becomes(c, r)
  BY <1>2, <1>3 DEF Becomes
<1>5. Kept
  BY <1>4, BecomesIs DEF IInv
<1>6. /\ log' \in [Ids -> Seq(Outcomes)] /\ log'[c] = <<outcome>>
      /\ \A d \in Ids \ {c} : log'[d] = log[d]
  BY <1>1, LoggedIs DEF Ends, IInv
<1>7. Working(r, log'[c])
  <2>1. <<outcome>> = <<"applied">> => outcome = "applied"
    OBVIOUS
  <2>2. <<outcome>> = <<"denied">> => outcome = "denied"
    OBVIOUS
  <2>3. outcome = "applied" => <<outcome>> = <<"applied">>
    OBVIOUS
  <2>4. r.wrote => r.ruled \/ r.answer \in {"yes", "always"}
    BY <1>1, <1>2 DEF Working
  <2> QED BY <1>2, <1>6, <2>1, <2>2, <2>3, <2>4 DEF Working
<1> QED BY <1>2, <1>4, <1>5, <1>6, <1>7, PoolGoes

LEMMA OnRefused ==
    ASSUME IInv, NEW c \in Cards, Refused(c)
    PROVE  IInv'
<1>1. cards[c].run = "spawned" /\ cards[c].answer = "no" /\ Ends(c, "denied")
  BY DEF Refused
<1>2. ~cards[c].wrote
  BY <1>1, AtWork DEF Working
<1>3. PoolFrame /\ inbox' = inbox /\ inbox' \in [Sessions -> Seq(Updates)]
  BY DEF Refused, PoolFrame, IInv, StateTypeOK, Journals
<1> QED BY <1>1, <1>2, <1>3, EndsTruly, InboxSame DEF Outcomes

LEMMA OnWriteFails ==
    ASSUME IInv, NEW c \in Cards, WriteFails(c)
    PROVE  IInv'
<1>1. cards[c].run = "checked" /\ Ends(c, "failed")
  BY DEF WriteFails
<1>2. ~cards[c].wrote
  BY <1>1, AtWork DEF Working
<1>3. PoolFrame /\ inbox' = inbox /\ inbox' \in [Sessions -> Seq(Updates)]
  BY DEF WriteFails, PoolFrame, IInv, StateTypeOK, Journals
<1> QED BY <1>1, <1>2, <1>3, EndsTruly, InboxSame DEF Outcomes

LEMMA OnApplied ==
    ASSUME IInv, NEW c \in Cards, Applied(c)
    PROVE  IInv'
<1>1. cards[c].run = "written" /\ Ends(c, "applied")
  BY DEF Applied
<1>2. cards[c].wrote /\ cards[c] \in Requests
  BY <1>1, AtWork DEF Working
<1>3. journal \in Journals /\ file \in Int
  BY DEF IInv, StateTypeOK, Journals
<1>4. Recorded(c) \in Journals
  <2>1. CASE journal.turn = cards[c].turn
    BY <1>2, <1>3, <2>1 DEF Recorded, Journals, Requests
  <2>2. CASE journal.turn # cards[c].turn
    BY <1>2, <1>3, <2>2 DEF Recorded, Journals, Requests
  <2> QED BY <2>1, <2>2
<1>5. journal' \in Journals
  BY <1>3, <1>4 DEF Applied
<1>6. PoolFrame /\ inbox' = inbox /\ inbox' \in [Sessions -> Seq(Updates)]
  BY <1>3, <1>5 DEF Applied, PoolFrame, IInv, StateTypeOK
<1> QED BY <1>1, <1>2, <1>6, EndsTruly, InboxSame DEF Outcomes

LEMMA OnCompletes ==
    ASSUME IInv, NEW c \in Cards, Completes(c)
    PROVE  IInv'
<1>1. PICK outcome \in {"applied", "failed"} : Ends(c, outcome)
  BY DEF Completes
<1>2. cards[c].run = "running"
  BY DEF Completes
<1>3. cards[c].wrote /\ cards[c].kind = "shell"
  BY <1>2, AtWork DEF Working
<1>4. PoolFrame /\ inbox' = inbox /\ inbox' \in [Sessions -> Seq(Updates)]
  BY DEF Completes, PoolFrame, IInv, StateTypeOK, Journals
<1> QED BY <1>1, <1>2, <1>3, <1>4, EndsTruly, InboxSame DEF Outcomes

LEMMA OnKilled ==
    ASSUME IInv, NEW c \in Cards, Killed(c)
    PROVE  IInv'
<1>1. cards[c].run = "running" /\ Ends(c, "cancelled")
  BY DEF Killed
<1>2. /\ cards[c].kind = "shell" /\ cards[c] \in Requests /\ c \in 1..MaxCards
      /\ cards[c].session \in Sessions /\ cards[c].attempt \in Nat
  BY <1>1, AtWork DEF Working, Requests, Ids
<1>3. PoolFrame
  BY DEF Killed, PoolFrame, IInv, StateTypeOK, Journals
<1> DEFINE s == cards[c].session
           e == [attempt |-> cards[c].attempt, what |-> "killed", card |-> c]
<1>4. e \in Updates /\ e.attempt = cards[c].attempt /\ e.card = c
  BY <1>2 DEF Updates
<1>5. Owns(s, e.attempt, e.card)
  BY <1>4 DEF Owns
<1>6. inbox' = inbox \/ inbox' = [inbox EXCEPT ![s] = Append(@, e)]
  BY DEF Killed
<1>7. CASE inbox' = inbox
  <2>1. inbox' \in [Sessions -> Seq(Updates)]
    BY <1>7 DEF IInv, StateTypeOK
  <2> QED BY <1>1, <1>2, <1>3, <1>7, <2>1, EndsTruly, InboxSame DEF Outcomes
<1> HIDE DEF e
<1>8. CASE inbox' = [inbox EXCEPT ![s] = Append(@, e)]
  <2>1. PICK u \in Sessions : u = cards[c].session
    BY <1>2
  <2>2. Kept => /\ InboxHolds(u)' /\ \A v \in Sessions \ {u} : inbox'[v] = inbox[v]
                /\ inbox' \in [Sessions -> Seq(Updates)]
    BY <1>4, <1>5, <1>8, <2>1, PostIs
  <2>3. inbox' \in [Sessions -> Seq(Updates)]
    <3>1. inbox[u] \in Seq(Updates) /\ inbox \in [Sessions -> Seq(Updates)]
      BY DEF IInv, StateTypeOK
    <3>2. Append(inbox[u], e) \in Seq(Updates)
      BY <1>4, <3>1
    <3> QED BY <1>8, <2>1, <3>1, <3>2
  <2>4. ASSUME Kept, NEW v \in Sessions PROVE InboxHolds(v)'
    <3>1. CASE v = u
      BY <2>2, <2>4, <3>1
    <3>2. CASE v # u
      <4>1. inbox'[v] = inbox[v]
        BY <2>2, <2>4, <3>2
      <4> QED BY <2>4, <4>1, OwnsStays DEF IInv, InboxHolds, Owns, Cards
    <3> QED BY <3>1, <3>2
  <2> QED BY <1>1, <1>2, <1>3, <2>3, <2>4, EndsTruly DEF Outcomes
<1> QED BY <1>6, <1>7, <1>8

-----------------------------------------------------------------------------
\* The thread of c goes on.
LEMMA WorkGoesOn ==
    ASSUME IInv, PoolFrame, NEW c \in Cards, NEW r, inbox' = inbox, log' = log,
           r \in Requests, r.session = cards[c].session, r.attempt = cards[c].attempt,
           r.asked = cards[c].asked, r.answer = cards[c].answer, r.ruled = cards[c].ruled,
           cards' = [d \in Cards |-> IF d = c THEN r ELSE cards[d]],
           cards[c].run # "none", Working(r, log[c])
    PROVE  IInv'
<1>1. Becomes(c, r)
  BY DEF Becomes
<1>2. Kept
  BY <1>1, BecomesIs DEF IInv
<1>3. log' \in [Ids -> Seq(Outcomes)] /\ inbox' \in [Sessions -> Seq(Updates)]
  BY DEF IInv, StateTypeOK
<1> QED BY <1>1, <1>2, <1>3, InboxSame, PoolGoes

LEMMA OnCaptures ==
    ASSUME IInv, NEW c \in Cards, Captures(c)
    PROVE  IInv'
<1> DEFINE pre == IF file = cards[c].base THEN file ELSE -1
           r == [cards[c] EXCEPT !.run = "captured", !.pre = pre]
<1>1. /\ cards[c].run = "spawned" /\ cards[c].kind = "edit"
      /\ cards[c].ruled \/ cards[c].answer \in {"yes", "always"}
  BY DEF Captures, Approved
<1>2. cards[c] \in Requests /\ log[c] = <<>> /\ ~cards[c].wrote
  BY <1>1, AtWork DEF Working
<1>3. PoolFrame /\ inbox' = inbox /\ log' = log
  BY <1>2 DEF Captures, RuleAdded, PoolFrame, IInv, StateTypeOK, Journals, Requests
<1>4. pre \in Int
  BY DEF IInv, StateTypeOK
<1> HIDE DEF pre
<1>5. /\ r \in Requests /\ r.session = cards[c].session /\ r.attempt = cards[c].attempt
      /\ r.asked = cards[c].asked /\ r.answer = cards[c].answer /\ r.ruled = cards[c].ruled
      /\ r.run = "captured" /\ r.wrote = cards[c].wrote /\ r.kind = cards[c].kind
  BY <1>2, <1>4 DEF Requests
<1>6. cards' = [d \in Cards |-> IF d = c THEN r ELSE cards[d]]
  BY <1>2 DEF Captures, Cards, Requests, pre
<1> HIDE DEF r
<1>7. Working(r, log[c])
  BY <1>1, <1>2, <1>5 DEF Working
<1> QED BY <1>1, <1>3, <1>5, <1>6, <1>7, WorkGoesOn

LEMMA OnChecks ==
    ASSUME IInv, NEW c \in Cards, Checks(c)
    PROVE  IInv'
<1> DEFINE r == [cards[c] EXCEPT !.run = "checked"]
<1>1. cards[c].run = "captured"
  BY DEF Checks
<1>2. /\ cards[c] \in Requests /\ log[c] = <<>> /\ ~cards[c].wrote /\ cards[c].kind = "edit"
      /\ cards[c].ruled \/ cards[c].answer \in {"yes", "always"}
  BY <1>1, AtWork DEF Working
<1>3. PoolFrame /\ inbox' = inbox
  BY DEF Checks, PoolFrame, IInv, StateTypeOK, Journals
<1>4. CASE ~Unchanged(c)
  <2>1. Ends(c, "failed")
    BY <1>4 DEF Checks
  <2>2. inbox' \in [Sessions -> Seq(Updates)]
    BY <1>3 DEF IInv, StateTypeOK
  <2> QED BY <1>1, <1>2, <1>3, <2>1, <2>2, EndsTruly, InboxSame DEF Outcomes
<1>5. CASE Unchanged(c)
  <2>1. /\ r \in Requests /\ r.session = cards[c].session /\ r.attempt = cards[c].attempt
        /\ r.asked = cards[c].asked /\ r.answer = cards[c].answer /\ r.ruled = cards[c].ruled
        /\ r.run = "checked" /\ r.wrote = cards[c].wrote /\ r.kind = cards[c].kind
    BY <1>2 DEF Requests
  <2>2. cards' = [d \in Cards |-> IF d = c THEN r ELSE cards[d]] /\ log' = log
    BY <1>2, <1>5 DEF Checks, Cards, Requests
  <2> HIDE DEF r
  <2>3. Working(r, log[c])
    BY <1>2, <2>1 DEF Working
  <2> QED BY <1>1, <1>3, <2>1, <2>2, <2>3, WorkGoesOn
<1> QED BY <1>4, <1>5

LEMMA OnWrites ==
    ASSUME IInv, NEW c \in Cards, Writes(c)
    PROVE  IInv'
<1> DEFINE r == [cards[c] EXCEPT !.run = "written", !.wrote = TRUE]
<1>1. cards[c].run = "checked"
  BY DEF Writes
<1>2. /\ cards[c] \in Requests /\ log[c] = <<>> /\ cards[c].kind = "edit" /\ c \in Int
      /\ cards[c].ruled \/ cards[c].answer \in {"yes", "always"}
  BY <1>1, AtWork, TypeFacts DEF Working, IInv
<1>3. PoolFrame /\ inbox' = inbox /\ log' = log
  BY <1>2 DEF Writes, PoolFrame, IInv, StateTypeOK, Journals
<1>4. /\ r \in Requests /\ r.session = cards[c].session /\ r.attempt = cards[c].attempt
      /\ r.asked = cards[c].asked /\ r.answer = cards[c].answer /\ r.ruled = cards[c].ruled
      /\ r.run = "written" /\ r.wrote /\ r.kind = cards[c].kind
  BY <1>2 DEF Requests
<1>5. cards' = [d \in Cards |-> IF d = c THEN r ELSE cards[d]]
  BY <1>2 DEF Writes, Cards, Requests
<1> HIDE DEF r
<1>6. Working(r, log[c])
  BY <1>2, <1>4 DEF Working
<1> QED BY <1>1, <1>3, <1>4, <1>5, <1>6, WorkGoesOn

LEMMA OnStarts ==
    ASSUME IInv, NEW c \in Cards, Starts(c)
    PROVE  IInv'
<1> DEFINE r == [cards[c] EXCEPT !.run = "running", !.wrote = TRUE]
<1>1. /\ cards[c].run = "spawned" /\ cards[c].kind = "shell"
      /\ cards[c].ruled \/ cards[c].answer \in {"yes", "always"}
  BY DEF Starts, Approved
<1>2. cards[c] \in Requests /\ log[c] = <<>> /\ ~cards[c].wrote
  BY <1>1, AtWork DEF Working
<1>3. PoolFrame /\ inbox' = inbox
  BY <1>2 DEF Starts, RuleAdded, PoolFrame, IInv, StateTypeOK, Journals, Requests
<1>4. CASE cards[c].stop
  <2>1. Ends(c, "cancelled")
    BY <1>4 DEF Starts
  <2>2. inbox' \in [Sessions -> Seq(Updates)]
    BY <1>3 DEF IInv, StateTypeOK
  <2> QED BY <1>1, <1>2, <1>3, <2>1, <2>2, EndsTruly, InboxSame DEF Outcomes
<1>5. CASE ~cards[c].stop
  <2>1. /\ r \in Requests /\ r.session = cards[c].session /\ r.attempt = cards[c].attempt
        /\ r.asked = cards[c].asked /\ r.answer = cards[c].answer /\ r.ruled = cards[c].ruled
        /\ r.run = "running" /\ r.wrote /\ r.kind = cards[c].kind
    BY <1>2 DEF Requests
  <2>2. cards' = [d \in Cards |-> IF d = c THEN r ELSE cards[d]] /\ log' = log
    BY <1>2, <1>5 DEF Starts, Cards, Requests
  <2> HIDE DEF r
  <2>3. Working(r, log[c])
    BY <1>1, <1>2, <2>1 DEF Working
  <2> QED BY <1>1, <1>3, <2>1, <2>2, <2>3, WorkGoesOn
<1> QED BY <1>4, <1>5

-----------------------------------------------------------------------------
(* Steps that drop jobs.  *)

LEMMA IdleIs ==
    Idle \in Jobs /\ Idle.card = 0 /\ Idle.pc = "none" /\ Idle.attempt = 0 /\ Idle.rounds = 0
<1>1. MaxCards \in Nat
  BY ChatAssumption
<1> QED BY <1>1 DEF Idle, Jobs

LEMMA IdleHolds ==
    ASSUME StateTypeOK', NEW s \in Sessions, turn'[s] = Idle
    PROVE  JobHolds(s)'
<1>1. chat'[s].attempt \in Nat
  BY DEF StateTypeOK, Chats
<1>2. bound'.steps \in Nat
  BY ChatAssumption DEF StateTypeOK
<1> QED BY <1>1, <1>2, IdleIs DEF JobHolds

\* The jobs of D are dropped; another one may begin.
Drops(D) ==
    /\ cards' = DropCards(cards, D) /\ log' = DropLog(log, D)
    /\ \A s \in Sessions : IF s \in D THEN turn'[s] # Idle => turn'[s].pc = "start"
                           ELSE turn'[s] = turn[s]

\* The turn of the card is over after the step.
Over(c) == LET s == cards[c].session IN ~(chat'[s].attempt = cards[c].attempt /\ Active(chat'[s]))

\* What is in nobody's hand stays so, and turns that are over stay over.
DropFrame(D) ==
    /\ inbox' = inbox /\ bound' = bound
    /\ pass = "quit" => pass' = "quit"
    /\ pass' = "quit" \/ (channel' = channel /\ replies' = replies)
    /\ \A s \in Sessions : chat[s].attempt <= chat'[s].attempt
    /\ \A c \in Cards : Stale(c) \/ (cards[c].session \in D /\ Waits(c)) => Over(c)

LEMMA DropCard ==
    ASSUME IInv, StateTypeOK', NEW D \in SUBSET Sessions, Drops(D), DropFrame(D),
           NEW c \in Cards, Alike(c)
    PROVE  CardHolds(c)'
<1> DEFINE k == cards[c]  s == k.session
<1>1. CardHolds(c)
  BY DEF IInv
<1>2. /\ s \in Sessions /\ chat[s].attempt <= chat'[s].attempt
      /\ k.attempt \in Nat /\ chat[s].attempt \in Nat /\ k.attempt <= chat[s].attempt
      /\ chat'[s].attempt \in Nat
  BY AttemptsAre DEF DropFrame, StateTypeOK, Chats
<1>3. \/ /\ log'[c] = log[c]
         /\ s \in D /\ Waits(c) => k.answer \notin Decisions
      \/ /\ s \in D /\ Waits(c) /\ k.answer \in Decisions
         /\ log'[c] \in {<<"failed">>, <<"denied">>}
  BY DropIs DEF Drops
<1>4. k.asked /\ k.answer = "none" /\ InHand(c) /\ pass' # "quit" =>
        (\E i \in DOMAIN channel' : channel'[i] = c) \/ replies'[s] = c
  BY HandIs DEF DropFrame
<1>5. Stale(c) \/ (s \in D /\ Waits(c)) => Over(c)
  BY DEF DropFrame
<1>6. CASE s \notin D
  <2>1. turn'[s] = turn[s]
    BY <1>2, <1>6 DEF Drops
  <2>2. Around(c)
    <3>1. (chat'[s].attempt = k.attempt /\ Active(chat'[s])) =>
            (chat[s].attempt = k.attempt /\ Active(chat[s]))
      BY <1>5 DEF Over, Stale, Awaits
    <3>2. pass = "quit" => pass' = "quit"
      BY DEF DropFrame
    <3> QED BY <1>2, <1>4, <2>1, <3>1, <3>2 DEF Around
  <2> QED BY <1>3, <1>6, <2>2, CardAlike
<1>7. CASE s \in D
  <2>1. turn'[s].pc # "waiting"
    BY <1>2, <1>7, IdleIs DEF Drops
  <2>2. ~(Waits(c)')
    BY <2>1 DEF Waits, Alike
  <2>3. Over(c) => Stale(c)'
    BY DEF Over, Stale, Awaits, Alike
  <2>4. k.asked /\ k.answer = "none" /\ pass' # "quit" => InHand(c)' /\ Stale(c)'
    <3>1. k.asked /\ k.answer = "none" /\ pass' # "quit" => InHand(c) /\ (Waits(c) \/ Stale(c))
      BY <1>1 DEF CardHolds, DropFrame
    <3>2. InHand(c)' <=> (\E i \in DOMAIN channel' : channel'[i] = c) \/ replies'[s] = c
      BY HandIsThen DEF Alike
    <3> QED BY <1>4, <1>5, <1>7, <2>3, <3>1, <3>2
  <2>5. cards'[c].attempt <= chat'[cards'[c].session].attempt
    BY <1>2 DEF Alike
  <2>6. Approved(c)' <=> Approved(c)
    BY DEF Approved, Alike
  <2>7. CASE log'[c] = log[c] /\ (Waits(c) => k.answer \notin Decisions)
    BY <1>1, <2>2, <2>4, <2>5, <2>6, <2>7 DEF CardHolds, Alike
  <2>8. CASE Waits(c) /\ k.answer \in Decisions /\ log'[c] \in {<<"failed">>, <<"denied">>}
    <3>1. JobHolds(s) /\ turn[s].pc = "waiting" /\ turn[s].card = c
      BY <1>2, <2>8 DEF IInv, Waits
    <3>2. k.run = "none" /\ k.asked
      BY <3>1 DEF JobHolds
    <3>3. ~k.ruled /\ ~k.wrote
      BY <1>1, <3>2 DEF CardHolds
    <3> QED BY <1>1, <2>2, <2>4, <2>5, <2>8, <3>2, <3>3 DEF CardHolds, Alike, Decisions
  <2> QED BY <1>3, <1>7, <2>7, <2>8
<1> QED BY <1>6, <1>7

LEMMA DropMoves ==
    ASSUME IInv, StateTypeOK', NEW D \in SUBSET Sessions, Drops(D), DropFrame(D),
           \A s \in D : turn'[s] # Idle => JobHolds(s)'
    PROVE  /\ Kept /\ cards' \in Seq(Requests) /\ Len(cards') = Len(cards)
           /\ \A c \in Cards' : CardHolds(c)'
           /\ \A c \in (Ids \ Cards)' : log'[c] = <<>>
           /\ \A s \in Sessions : JobHolds(s)' /\ InboxHolds(s)'
           /\ channel' = channel /\ replies' = replies =>
                ChannelHolds' /\ \A s \in Sessions : ReplyHolds(s)'
<1>1. /\ DOMAIN cards' = Cards /\ Kept /\ cards' \in Seq(Requests) /\ Len(cards') = Len(cards)
      /\ \A c \in Cards : cards'[c] \in {cards[c], [cards[c] EXCEPT !.stop = TRUE]}
      /\ \A c \in Ids \ Cards : log'[c] = log[c]
  BY DropIs DEF Drops, Cards
<1>2. \A c \in Cards : Alike(c)
  <2> SUFFICES ASSUME NEW c \in Cards PROVE Alike(c)
    OBVIOUS
  <2>1. cards[c] \in Requests
    BY TypeFacts DEF IInv
  <2>2. CASE cards'[c] = cards[c]
    BY <1>1, <2>2 DEF Alike
  <2>3. CASE cards'[c] = [cards[c] EXCEPT !.stop = TRUE]
    BY <1>1, <2>1, <2>3 DEF Alike, Requests
  <2> QED BY <1>1, <2>2, <2>3
<1>3. \A c \in Cards' : CardHolds(c)'
  BY <1>1, <1>2, DropCard DEF Cards
<1>4. \A c \in (Ids \ Cards)' : log'[c] = <<>>
  BY <1>1 DEF IInv, Ids, Cards
<1>5. \A s \in Sessions : InboxHolds(s)'
  BY <1>1, InboxSame DEF DropFrame
<1>6. ASSUME NEW s \in Sessions PROVE JobHolds(s)'
  <2>1. CASE s \in D
    BY <2>1, IdleHolds
  <2>2. CASE s \notin D
    <3>1. JobHolds(s) /\ turn[s] \in Jobs /\ turn'[s] = turn[s] /\ bound' = bound
      BY <2>2, TypeFacts DEF IInv, Drops, DropFrame
    <3>2. chat[s].attempt <= chat'[s].attempt /\ chat[s].attempt \in Nat /\ chat'[s].attempt \in Nat
      BY TypeFacts, ChatIs DEF DropFrame, IInv, StateTypeOK, Chats
    <3>3. turn[s].attempt <= chat'[s].attempt
      <4>1. turn[s].attempt <= chat[s].attempt /\ turn[s].attempt \in Nat
        BY <3>1 DEF JobHolds, Jobs
      <4> QED BY <3>2, <4>1
    <3>4. turn[s].card \in Cards => Alike(turn[s].card)
      BY <1>2
    <3> QED BY <1>1, <3>1, <3>3, <3>4 DEF JobHolds, Alike, Cards
  <2> QED BY <2>1, <2>2
<1>7. ASSUME channel' = channel, replies' = replies
      PROVE  ChannelHolds' /\ \A s \in Sessions : ReplyHolds(s)'
  <2>1. \A c : Asking(c) => c \in Cards' /\ cards'[c].asked /\ cards'[c].answer = "none"
    BY <1>1, <1>2 DEF Asking, Alike, Cards
  <2>2. ChannelHolds'
    BY <1>1, <1>7, <2>1, ChannelSame
  <2>3. \A s \in Sessions : replies[s] # 0 => Asking(replies[s]) /\ cards[replies[s]].session = s
    BY DEF IInv, ReplyHolds
  <2>4. \A s \in Sessions : replies[s] # 0 => cards'[replies[s]].session = s
    BY <1>2, <2>3 DEF Asking, Alike
  <2> QED BY <1>7, <2>1, <2>2, <2>3, <2>4 DEF ReplyHolds, Asking
<1> QED BY <1>1, <1>3, <1>4, <1>5, <1>6, <1>7

-----------------------------------------------------------------------------
(* Steps that close requests.  *)

Closes(C) ==
    /\ cards' = CloseCards(cards, C) /\ log' = CancelLog(log, C)
    /\ turn' = turn /\ bound' = bound /\ pass # "quit"
    /\ \A c \in C : Asking(c)
    /\ \A s \in Sessions : chat[s].attempt <= chat'[s].attempt
    /\ \A c \in Cards : Stale(c) => Over(c)
    /\ \A c \in Cards \ C : InHand(c) /\ Asking(c) =>
         (\E i \in DOMAIN channel' : channel'[i] = c) \/ replies'[cards[c].session] = c

LEMMA CloseMoves ==
    ASSUME IInv, NEW C, Closes(C), StateTypeOK'
    PROVE  /\ \A c \in Cards' : CardHolds(c)'
           /\ \A c \in (Ids \ Cards)' : log'[c] = <<>>
           /\ \A s \in Sessions : JobHolds(s)'
           /\ \A c : Asking(c) /\ c \notin C => c \in Cards' /\ cards'[c] = cards[c]
<1>1. /\ DOMAIN cards' = DOMAIN cards /\ Kept
      /\ \A c \in Cards \ C : cards'[c] = cards[c] /\ log'[c] = log[c]
      /\ \A c \in C : /\ c \in Cards
                      /\ cards'[c] = [cards[c] EXCEPT !.answer = "closed"]
                      /\ log'[c] = Append(log[c], "cancelled")
      /\ \A c \in Ids \ Cards : log'[c] = log[c]
  BY CloseIs DEF Closes, IInv
<1>2. \A c \in Cards : /\ cards[c].session \in Sessions
                       /\ chat[cards[c].session].attempt <= chat'[cards[c].session].attempt
  BY AttemptsAre DEF Closes
<1>3. ASSUME NEW c \in Cards PROVE CardHolds(c)'
  <2>1. CASE c \in C
    <3>1. Asking(c)
      BY <2>1 DEF Closes
    <3> QED BY <1>1, <1>2, <2>1, <3>1, ClosedHolds DEF Cards
  <2>2. CASE c \notin C
    <3>1. cards'[c] = cards[c] /\ log'[c] = log[c] /\ c \in DOMAIN cards'
      BY <1>1, <2>2 DEF Cards
    <3>2. (chat'[cards[c].session].attempt = cards[c].attempt /\ Active(chat'[cards[c].session])) =>
            (chat[cards[c].session].attempt = cards[c].attempt /\ Active(chat[cards[c].session]))
      BY DEF Closes, Stale, Awaits, Over
    <3>3. Around(c)
      BY <1>2, <2>2, <3>2 DEF Around, Closes, Asking
    <3> QED BY <3>1, <3>3, CardStays
  <2> QED BY <2>1, <2>2
<1>4. \A c \in (Ids \ Cards)' : log'[c] = <<>>
  BY <1>1 DEF IInv, Ids, Cards
<1>5. ASSUME NEW s \in Sessions PROVE JobHolds(s)'
  <2>1. JobHolds(s) /\ turn[s] \in Jobs /\ turn' = turn /\ bound' = bound
    BY TypeFacts DEF IInv, Closes
  <2>2. turn[s].attempt <= chat'[s].attempt
    <3>1. chat[s].attempt <= chat'[s].attempt /\ chat[s].attempt \in Nat /\ chat'[s].attempt \in Nat
      BY TypeFacts, ChatIs DEF Closes, IInv, StateTypeOK, Chats
    <3>2. turn[s].attempt <= chat[s].attempt /\ turn[s].attempt \in Nat
      BY <2>1 DEF JobHolds, Jobs
    <3> QED BY <3>1, <3>2
  <2>3. \A c \in Cards : /\ c \in Cards' /\ cards'[c].session = cards[c].session
                         /\ cards'[c].attempt = cards[c].attempt /\ cards'[c].asked = cards[c].asked
                         /\ cards'[c].ruled = cards[c].ruled /\ cards'[c].run = cards[c].run
    <3> SUFFICES ASSUME NEW c \in Cards
                 PROVE  /\ c \in Cards' /\ cards'[c].session = cards[c].session
                        /\ cards'[c].attempt = cards[c].attempt /\ cards'[c].asked = cards[c].asked
                        /\ cards'[c].ruled = cards[c].ruled /\ cards'[c].run = cards[c].run
      OBVIOUS
    <3>1. cards[c] \in Requests /\ c \in Cards'
      BY <1>1, TypeFacts DEF IInv, Cards
    <3>2. CASE c \in C
      BY <1>1, <3>1, <3>2 DEF Requests
    <3>3. CASE c \notin C
      BY <1>1, <3>1, <3>3
    <3> QED BY <3>2, <3>3
  <2> QED BY <2>1, <2>2, <2>3 DEF JobHolds
<1>6. \A c : Asking(c) /\ c \notin C => c \in Cards' /\ cards'[c] = cards[c]
  BY <1>1 DEF Asking, Cards
<1> QED BY <1>1, <1>3, <1>4, <1>5, <1>6 DEF Cards

LEMMA OnEvents ==
    ASSUME IInv, Events
    PROVE  IInv'
<1> DEFINE heard == [s \in Sessions |-> Heard(chat[s], inbox[s])]
           over == {s \in Sessions : replies[s] # 0 /\ Pending(heard[s]) = 0}
           gone == {replies[s] : s \in over}
<1>1. /\ chat' = heard /\ replies' = [s \in Sessions |-> IF s \in over THEN 0 ELSE replies[s]]
      /\ cards' = CloseCards(cards, gone) /\ log' = CancelLog(log, gone)
      /\ inbox' = [s \in Sessions |-> <<>>] /\ pass' = "cards" /\ pass = "events"
      /\ bound' = bound /\ ready' = ready /\ turn' = turn /\ channel' = channel
      /\ rules' = rules /\ file' = file /\ journal' = journal /\ count' = count
  BY DEF Events
<1>2. ASSUME NEW s \in Sessions
      PROVE  /\ Hears(chat[s], chat'[s]) /\ OwnSteps(s, chat'[s])
             /\ chat'[s] \in Chats /\ chat[s] \in Chats
  <2>1. chat[s] \in Chats /\ inbox[s] \in Seq(Updates) /\ SessionHolds(s) /\ InboxHolds(s)
    BY TypeFacts DEF IInv
  <2>2. OwnSteps(s, chat[s])
    BY <2>1 DEF SessionHolds, OwnSteps
  <2>3. \A i \in DOMAIN inbox[s] : Names(s, inbox[s][i])
    BY <2>1 DEF InboxHolds, Names
  <2>4. Hears(chat[s], Heard(chat[s], inbox[s])) /\ OwnSteps(s, Heard(chat[s], inbox[s]))
    BY <2>1, <2>2, <2>3, HeardIs DEF IInv
  <2>5. chat'[s] = Heard(chat[s], inbox[s])
    BY <1>1
  <2> QED BY <2>1, <2>4, <2>5 DEF Hears, Retells
<1>3. /\ \A s \in Sessions : chat'[s] \in Chats /\ chat'[s].attempt = chat[s].attempt
                             /\ chat[s].attempt \in Nat
      /\ \A s \in Sessions : Active(chat'[s]) => Active(chat[s])
  BY <1>2, ChatIs DEF Hears
<1>4. \A s \in over : Asking(replies[s]) /\ cards[replies[s]].session = s /\ s \in Sessions
  BY DEF IInv, ReplyHolds
<1>5. \A c \in gone : Asking(c)
  BY <1>4
<1>6. /\ cards' \in Seq(Requests) /\ Len(cards') = Len(cards) /\ Kept
      /\ log' \in [Ids -> Seq(Outcomes)]
  BY <1>1, <1>5, CloseIs DEF IInv
<1>7. StateTypeOK'
  <2>1. chat' \in [Sessions -> Chats]
    BY <1>1, <1>3
  <2>2. replies' \in [Sessions -> 0..MaxCards]
    BY <1>1, ChatAssumption DEF IInv, StateTypeOK
  <2>3. inbox' \in [Sessions -> Seq(Updates)]
    <3>1. <<>> \in Seq(Updates)
      OBVIOUS
    <3> QED BY <1>1, <3>1
  <2> HIDE DEF heard, over, gone
  <2> QED BY <1>1, <1>6, <2>1, <2>2, <2>3 DEF IInv, StateTypeOK
<1>8. ASSUME NEW c \in Cards \ gone, InHand(c), Asking(c)
      PROVE  (\E i \in DOMAIN channel' : channel'[i] = c) \/ replies'[cards[c].session] = c
  <2>1. CASE \E i \in DOMAIN channel : channel[i] = c
    BY <1>1, <2>1
  <2>2. CASE replies[cards[c].session] = c
    <3>1. cards[c].session \in Sessions
      BY AttemptsAre
    <3>2. cards[c].session \notin over
      BY <2>2, <1>8
    <3> QED BY <1>1, <2>2, <3>1, <3>2
  <2> QED BY <1>8, <2>1, <2>2, HandIs
<1>9. Closes(gone)
  <2>1. \A s \in Sessions : chat[s].attempt <= chat'[s].attempt
    BY <1>3
  <2>2. \A c \in Cards : Stale(c) => Over(c)
    BY <1>3, AttemptsAre DEF Stale, Awaits, Over
  <2> QED BY <1>1, <1>5, <1>8, <2>1, <2>2 DEF Closes
<1> HIDE DEF heard
<1>10. ASSUME NEW s \in Sessions
       PROVE  replies'[s] = IF replies[s] # 0 /\ Pending(chat'[s]) = 0 THEN 0 ELSE replies[s]
  BY <1>1
<1>11. \A c : Asking(c) /\ c \notin gone => c \in Cards' /\ cards'[c] = cards[c]
  BY <1>7, <1>9, CloseMoves
<1>12. ASSUME NEW s \in Sessions, replies'[s] # 0
       PROVE  replies'[s] = replies[s] /\ replies[s] \notin gone
  <2>1. replies'[s] = replies[s] /\ s \notin over
    BY <1>1, <1>12
  <2>2. cards[replies[s]].session = s
    BY <1>12, <2>1 DEF IInv, ReplyHolds
  <2> QED BY <1>4, <2>1, <2>2
<1>13. \A s \in Sessions : ReplyHolds(s)'
  <2> SUFFICES ASSUME NEW s \in Sessions, replies'[s] # 0
               PROVE  Asking(replies[s])' /\ cards'[replies'[s]].session = s
    BY DEF ReplyHolds
  <2>1. Asking(replies[s]) /\ cards[replies[s]].session = s /\ replies'[s] = replies[s]
    BY <1>12 DEF IInv, ReplyHolds
  <2> QED BY <1>11, <1>12, <2>1 DEF Asking
<1>14. ChannelHolds'
  <2>1. ChannelHolds
    BY DEF IInv
  <2>2. ASSUME NEW i \in DOMAIN channel
        PROVE  Asking(channel[i])' /\ channel[i] # replies'[cards'[channel[i]].session]
    <3>1. Asking(channel[i]) /\ channel[i] # replies[cards[channel[i]].session]
      BY <2>1 DEF ChannelHolds
    <3>2. channel[i] \notin gone
      BY <1>4, <3>1
    <3>3. channel[i] \in Cards' /\ cards'[channel[i]] = cards[channel[i]]
      BY <1>11, <3>1, <3>2
    <3>4. cards[channel[i]].session \in Sessions /\ channel[i] # 0
      BY <3>1, TypeFacts DEF Asking, IInv
    <3>5. channel[i] # replies'[cards[channel[i]].session]
      BY <1>12, <3>1, <3>4
    <3> QED BY <1>1, <3>1, <3>3, <3>5 DEF Asking
  <2> QED BY <1>1, <2>1, <2>2 DEF ChannelHolds
<1>15. \A s \in Sessions : InboxHolds(s)'
  BY <1>1 DEF InboxHolds
<1>16. ASSUME NEW s \in Sessions PROVE SessionHolds(s)'
  <2>1. SessionHolds(s) /\ Hears(chat[s], chat'[s]) /\ OwnSteps(s, chat'[s])
    BY <1>2 DEF IInv
  <2>2. \A c : Owns(s, chat[s].attempt, c) =>
          c \in Cards' /\ cards'[c].session = s /\ cards'[c].attempt = chat[s].attempt
    BY <1>6, OwnsStays DEF Cards
  <2>3. /\ Len(chat'[s].queue) <= MaxQueued /\ chat'[s].turns <= bound'.turns
        /\ ready'[s] <= chat'[s].attempt
    <3>1. Len(chat[s].queue) \in Nat /\ Len(chat'[s].queue) \in Nat /\ MaxQueued \in Nat
      BY <1>2, ChatIs, ChatAssumption
    <3> QED BY <1>1, <2>1, <3>1 DEF SessionHolds, Hears
  <2>4. ready'[s] # 0 /\ ready'[s] = chat'[s].attempt => turn'[s].pc = "none"
    BY <1>1, <2>1 DEF SessionHolds, Hears
  <2>5. /\ chat'[s].card # 0 => Owns(s, chat[s].attempt, chat[s].card)'
        /\ \A c \in chat'[s].steps : Owns(s, chat[s].attempt, c)
    BY <2>1, <2>2 DEF SessionHolds, Hears, OwnSteps, Owns
  <2>6. chat'[s].queue # <<>> => chat'[s].status \in {"active", "complete"}
    BY <2>1 DEF SessionHolds, Hears, InOrder
  <2> QED BY <1>1, <1>3, <2>1, <2>2, <2>3, <2>4, <2>5, <2>6 DEF SessionHolds, Owns, Hears
<1>17. ShowHolds'
  <2> SUFFICES ASSUME NEW s \in Sessions PROVE replies'[s] = Pending(chat'[s])
    BY <1>1 DEF ShowHolds, Pending, Active
  <2>1. Pending(chat[s]) # 0 => replies[s] = Pending(chat[s])
    BY <1>1 DEF IInv, ShowHolds
  <2>2. Hears(chat[s], chat'[s])
    BY <1>2
  <2>3. Pending(chat'[s]) # 0 => Pending(chat'[s]) = Pending(chat[s])
    BY <2>2 DEF Hears, Pending
  <2> QED BY <1>10, <2>1, <2>3
<1>18. TextsInOrder'
  BY <1>1, <1>2, TextsKept DEF IInv, Hears, Retells
<1>19. /\ \A c \in Cards' : CardHolds(c)'
       /\ \A c \in (Ids \ Cards)' : log'[c] = <<>>
       /\ \A s \in Sessions : JobHolds(s)'
  BY <1>7, <1>9, CloseMoves
<1> QED BY <1>7, <1>13, <1>14, <1>15, <1>16, <1>17, <1>18, <1>19 DEF IInv

LEMMA OnReceive ==
    ASSUME IInv, Receive
    PROVE  IInv'
<1>0. PICK c, s : c = Head(channel) /\ s = cards[c].session
  OBVIOUS
<1> DEFINE gone == IF Shown(c) THEN {replies[s]} \ {0} ELSE {c}
<1>1. /\ chat' = IF Shown(c) THEN [chat EXCEPT ![s].card = c] ELSE chat
      /\ replies' = IF Shown(c) THEN [replies EXCEPT ![s] = c] ELSE replies
      /\ cards' = CloseCards(cards, gone) /\ log' = CancelLog(log, gone)
      /\ channel' = Tail(channel) /\ channel # <<>>
      /\ inbox' = inbox /\ pass' = pass /\ pass = "cards"
      /\ bound' = bound /\ ready' = ready /\ turn' = turn
      /\ rules' = rules /\ file' = file /\ journal' = journal /\ count' = count
  BY <1>0 DEF Receive
<1>2. /\ channel \in Seq(Ids) /\ Len(channel) \in Nat \ {0} /\ DOMAIN channel = 1..Len(channel)
      /\ channel[1] = c /\ Tail(channel) \in Seq(Ids)
      /\ DOMAIN channel' = 1..(Len(channel) - 1)
      /\ \A i \in 1..(Len(channel) - 1) : channel'[i] = channel[i + 1]
  <2>1. channel \in Seq(Ids) /\ channel # <<>>
    BY <1>1 DEF IInv, StateTypeOK
  <2> QED BY <1>0, <1>1, <2>1
<1>3. ChannelHolds /\ \A u \in Sessions : ReplyHolds(u)
  BY DEF IInv
<1>4. Asking(c) /\ c # replies[s] /\ c \in Cards /\ c \in Ids /\ 0 \notin Cards
  BY <1>0, <1>2, <1>3, TypeFacts DEF ChannelHolds, Asking, IInv
<1>5. /\ s \in Sessions /\ chat[s] \in Chats /\ replies[s] \in 0..MaxCards /\ c \in 0..MaxCards
      /\ chat \in [Sessions -> Chats] /\ replies \in [Sessions -> 0..MaxCards]
  <2>1. s \in Sessions
    BY <1>0, <1>4, AttemptsAre
  <2>2. c \in 1..MaxCards
    BY <1>4 DEF Ids
  <2>3. c \in 0..MaxCards
    BY <2>2, ChatAssumption
  <2> QED BY <2>1, <2>3 DEF IInv, StateTypeOK
<1>6. \A d \in gone : Asking(d)
  BY <1>3, <1>4, <1>5 DEF ReplyHolds
<1>7. \A d \in gone : d = c \/ d = replies[s]
  OBVIOUS
<1>8. ASSUME Shown(c) PROVE gone = {replies[s]} \ {0}
  BY <1>8
<1>9. ASSUME ~Shown(c) PROVE gone = {c}
  BY <1>9
<1> HIDE DEF gone
<1>10. ASSUME NEW u \in Sessions
       PROVE  /\ chat'[u] = IF Shown(c) /\ u = s THEN [chat[s] EXCEPT !.card = c] ELSE chat[u]
              /\ replies'[u] = IF Shown(c) /\ u = s THEN c ELSE replies[u]
  BY <1>1, <1>5
<1>11. ASSUME NEW u \in Sessions
       PROVE  /\ chat'[u] \in Chats /\ chat'[u].attempt = chat[u].attempt
              /\ chat'[u].status = chat[u].status /\ chat'[u].turns = chat[u].turns
              /\ chat'[u].queue = chat[u].queue /\ chat'[u].steps = chat[u].steps
              /\ chat'[u].sent = chat[u].sent /\ chat'[u].draft = chat[u].draft
              /\ chat'[u].card = IF Shown(c) /\ u = s THEN c ELSE chat[u].card
              /\ chat[u].attempt \in Nat
  <2>1. chat[u] \in Chats
    BY <1>5
  <2>2. chat[u].attempt \in Nat
    BY <2>1 DEF Chats
  <2>3. CASE Shown(c) /\ u = s
    BY <1>5, <1>10, <2>2, <2>3 DEF Chats
  <2>4. CASE ~(Shown(c) /\ u = s)
    BY <1>10, <2>1, <2>2, <2>4
  <2> QED BY <2>3, <2>4
<1>12. /\ cards' \in Seq(Requests) /\ Len(cards') = Len(cards) /\ Kept
       /\ log' \in [Ids -> Seq(Outcomes)]
  BY <1>1, <1>6, CloseIs DEF IInv
<1>13. StateTypeOK'
  <2>1. chat' \in [Sessions -> Chats]
    BY <1>1, <1>5, <1>11
  <2>2. replies' \in [Sessions -> 0..MaxCards]
    BY <1>1, <1>5
  <2>3. channel' \in Seq(Ids)
    BY <1>1, <1>2
  <2> QED BY <1>1, <1>12, <2>1, <2>2, <2>3 DEF IInv, StateTypeOK
<1>14. ASSUME NEW d \in Cards \ gone, InHand(d), Asking(d)
       PROVE  (\E i \in DOMAIN channel' : channel'[i] = d) \/ replies'[cards[d].session] = d
  <2>1. cards[d].session \in Sessions
    BY AttemptsAre
  <2>2. CASE \E i \in DOMAIN channel : channel[i] = d
    <3>1. PICK i \in 1..Len(channel) : channel[i] = d
      BY <1>2, <2>2
    <3>2. CASE i = 1
      <4>1. d = c /\ Shown(c)
        BY <1>2, <1>9, <1>14, <3>1, <3>2
      <4> QED BY <1>0, <1>5, <1>10, <4>1
    <3>3. CASE i # 1
      <4>1. i - 1 \in 1..(Len(channel) - 1) /\ (i - 1) + 1 = i
        BY <1>2, <3>1, <3>3
      <4> QED BY <1>2, <3>1, <4>1
    <3> QED BY <3>2, <3>3
  <2>3. CASE replies[cards[d].session] = d
    <3>1. d # 0
      BY <1>4
    <3>2. ~(Shown(c) /\ cards[d].session = s)
      BY <1>8, <1>14, <2>3, <3>1
    <3> QED BY <1>10, <2>1, <2>3, <3>2
  <2> QED BY <1>14, <2>2, <2>3, HandIs
<1>15. Closes(gone)
  <2>1. \A u \in Sessions : chat[u].attempt <= chat'[u].attempt
    BY <1>11
  <2>2. \A d \in Cards : Stale(d) => Over(d)
    BY <1>11, AttemptsAre DEF Stale, Awaits, Over, Active
  <2> QED BY <1>1, <1>6, <1>14, <2>1, <2>2 DEF Closes
<1>16. /\ \A d \in Cards' : CardHolds(d)'
       /\ \A d \in (Ids \ Cards)' : log'[d] = <<>>
       /\ \A u \in Sessions : JobHolds(u)'
       /\ \A d : Asking(d) /\ d \notin gone => d \in Cards' /\ cards'[d] = cards[d]
  BY <1>13, <1>15, CloseMoves
<1>17. \A u \in Sessions : ReplyHolds(u)'
  <2> SUFFICES ASSUME NEW u \in Sessions, replies'[u] # 0
               PROVE  Asking(replies[u])' /\ cards'[replies'[u]].session = u
    BY DEF ReplyHolds
  <2>1. CASE Shown(c) /\ u = s
    <3>1. replies'[u] = c /\ c \notin gone
      BY <1>4, <1>8, <1>10, <2>1
    <3> QED BY <1>0, <1>4, <1>16, <2>1, <3>1 DEF Asking
  <2>2. CASE ~(Shown(c) /\ u = s)
    <3>1. replies'[u] = replies[u] /\ Asking(replies[u]) /\ cards[replies[u]].session = u
      BY <1>3, <1>10, <2>2 DEF ReplyHolds
    <3>2. replies[u] \notin gone
      <4>1. replies[u] # c
        BY <1>0, <1>4, <3>1
      <4>2. Shown(c) => u # s
        BY <2>2
      <4>3. Shown(c) => replies[u] # replies[s] \/ replies[s] = 0
        BY <1>3, <1>5, <3>1, <4>2 DEF ReplyHolds
      <4> QED BY <1>8, <1>9, <3>1, <4>1, <4>3
    <3> QED BY <1>16, <3>1, <3>2 DEF Asking
  <2> QED BY <2>1, <2>2
<1>18. ChannelHolds'
  <2>1. ASSUME NEW i \in 1..(Len(channel) - 1)
        PROVE  Asking(channel[i])' /\ channel'[i] # replies'[cards'[channel'[i]].session]
    <3>1. PICK d : d = channel'[i]
      OBVIOUS
    <3>2. i + 1 \in DOMAIN channel /\ channel[i + 1] = d /\ i + 1 # 1 /\ 1 \in DOMAIN channel
      BY <1>2, <3>1
    <3>3. Asking(d) /\ d # replies[cards[d].session] /\ d # c
      BY <1>2, <1>3, <3>2 DEF ChannelHolds
    <3>4. d \notin gone
      <4>1. d # replies[s] \/ replies[s] = 0
        BY <1>3, <1>5, <3>3 DEF ReplyHolds
      <4>2. d # 0
        BY <1>4, <3>3 DEF Asking
      <4> QED BY <1>7, <3>3, <4>1, <4>2
    <3>5. d \in Cards' /\ cards'[d] = cards[d] /\ cards[d].session \in Sessions
      BY <1>16, <3>3, <3>4, AttemptsAre DEF Asking
    <3>6. d # replies'[cards[d].session]
      BY <1>10, <3>3, <3>5
    <3> QED BY <3>1, <3>3, <3>5, <3>6 DEF Asking
  <2>2. \A i, j \in DOMAIN channel' : channel'[i] = channel'[j] => i = j
    <3> SUFFICES ASSUME NEW i \in 1..(Len(channel) - 1), NEW j \in 1..(Len(channel) - 1),
                        channel[i + 1] = channel[j + 1]
                 PROVE  i = j
      BY <1>2
    <3>1. i + 1 \in DOMAIN channel /\ j + 1 \in DOMAIN channel
      BY <1>2
    <3>2. i + 1 = j + 1
      BY <1>3, <3>1 DEF ChannelHolds
    <3> QED BY <3>2
  <2> QED BY <1>2, <2>1, <2>2 DEF ChannelHolds
<1>19. \A u \in Sessions : InboxHolds(u)'
  BY <1>1, <1>12, InboxSame
<1>20. ASSUME NEW u \in Sessions PROVE SessionHolds(u)'
  <2>1. SessionHolds(u)
    BY DEF IInv
  <2>2. \A d : Owns(u, chat[u].attempt, d) =>
          d \in Cards' /\ cards'[d].session = u /\ cards'[d].attempt = chat[u].attempt
    BY <1>12, OwnsStays DEF Cards
  <2>3. Shown(c) => Owns(s, chat[s].attempt, c)
    BY <1>0, <1>4 DEF Shown, Awaits, Owns
  <2>4. chat'[u].card # 0 => Owns(u, chat[u].attempt, chat'[u].card)
    BY <1>11, <2>1, <2>3 DEF SessionHolds
  <2> QED BY <1>1, <1>11, <2>1, <2>2, <2>4 DEF SessionHolds, Owns, Active
<1>21. ShowHolds'
  <2> SUFFICES ASSUME NEW u \in Sessions PROVE replies'[u] = Pending(chat'[u])
    BY <1>1 DEF ShowHolds
  <2>1. replies[u] = Pending(chat[u])
    BY <1>1 DEF IInv, ShowHolds
  <2>2. Shown(c) => Active(chat[s])
    BY <1>0 DEF Shown, Awaits
  <2> QED BY <1>10, <1>11, <2>1, <2>2 DEF Pending, Active
<1>22. TextsInOrder'
  <2>1. \A u \in Sessions : TextOf(chat'[u]) = TextOf(chat[u])
    BY <1>11 DEF TextOf
  <2> QED BY <1>1, <2>1, TextsKept DEF IInv
<1> QED BY <1>13, <1>16, <1>17, <1>18, <1>19, <1>20, <1>21, <1>22 DEF IInv

\* A session that the step leaves alone.
LEMMA SessionStays ==
    ASSUME NEW s, SessionHolds(s), Kept, chat'[s] = chat[s], ready'[s] = ready[s], bound' = bound,
           turn[s].pc = "none" => turn'[s].pc = "none",
           pass' \in {"keys", "abort"} /\ chat[s].queue # <<>> => Active(chat[s])
    PROVE  SessionHolds(s)'
<1>1. \A d : Owns(s, chat[s].attempt, d) =>
        d \in Cards' /\ cards'[d].session = s /\ cards'[d].attempt = chat[s].attempt
  BY OwnsStays DEF Cards
<1> QED BY <1>1 DEF SessionHolds, Owns, Active

LEMMA OnEscapesCard ==
    ASSUME IInv, NEW s \in Sessions, EscapesCard(s)
    PROVE  IInv'
<1>0. PICK c : c = replies[s]
  OBVIOUS
<1>1. /\ c # 0 /\ cards' = CloseCards(cards, {c}) /\ log' = CancelLog(log, {c})
      /\ replies' = [replies EXCEPT ![s] = 0] /\ pass = "keys" /\ pass' = "abort"
      /\ bound' = bound /\ chat' = chat /\ ready' = ready /\ turn' = turn /\ channel' = channel
      /\ inbox' = inbox /\ rules' = rules /\ file' = file /\ journal' = journal /\ count' = count
  BY <1>0 DEF EscapesCard
<1>2. ChannelHolds /\ \A u \in Sessions : ReplyHolds(u) /\ SessionHolds(u)
  BY DEF IInv
<1>3. Asking(c) /\ cards[c].session = s
  BY <1>0, <1>1, <1>2 DEF ReplyHolds
<1>4. /\ cards' \in Seq(Requests) /\ Len(cards') = Len(cards) /\ Kept
      /\ log' \in [Ids -> Seq(Outcomes)]
  <2>1. PICK C : C = {c}
    OBVIOUS
  <2>2. /\ \A d \in C : Asking(d)
        /\ cards' = CloseCards(cards, C) /\ log' = CancelLog(log, C)
    BY <1>1, <1>3, <2>1
  <2> QED BY <2>2, CloseIs DEF IInv
<1>5. /\ replies' \in [Sessions -> 0..MaxCards]
      /\ \A u \in Sessions : replies'[u] = IF u = s THEN 0 ELSE replies[u]
  BY <1>1, ChatAssumption DEF IInv, StateTypeOK
<1>6. StateTypeOK'
  BY <1>1, <1>4, <1>5 DEF IInv, StateTypeOK
<1>7. Closes({c})
  <2>1. \A u \in Sessions : chat[u].attempt <= chat'[u].attempt
    BY <1>1, TypeFacts, ChatIs DEF IInv
  <2>2. \A d \in Cards : Stale(d) => Over(d)
    BY <1>1 DEF Stale, Awaits, Over
  <2>3. ASSUME NEW d \in Cards \ {c}, InHand(d)
        PROVE  (\E i \in DOMAIN channel' : channel'[i] = d) \/ replies'[cards[d].session] = d
    <3>1. cards[d].session \in Sessions
      BY AttemptsAre
    <3> QED BY <1>0, <1>1, <1>5, <2>3, <3>1, HandIs
  <2> QED BY <1>1, <1>3, <2>1, <2>2, <2>3 DEF Closes
<1>8. /\ \A d \in Cards' : CardHolds(d)'
      /\ \A d \in (Ids \ Cards)' : log'[d] = <<>>
      /\ \A u \in Sessions : JobHolds(u)'
      /\ \A d : Asking(d) /\ d \notin {c} => d \in Cards' /\ cards'[d] = cards[d]
  BY <1>6, <1>7, CloseMoves
<1>9. \A u \in Sessions : ReplyHolds(u)'
  <2> SUFFICES ASSUME NEW u \in Sessions, replies'[u] # 0
               PROVE  Asking(replies[u])' /\ cards'[replies'[u]].session = u
    BY DEF ReplyHolds
  <2>1. replies'[u] = replies[u] /\ u # s
    BY <1>5
  <2>2. Asking(replies[u]) /\ cards[replies[u]].session = u
    BY <1>2, <2>1 DEF ReplyHolds
  <2>3. replies[u] # c
    BY <1>3, <2>1, <2>2
  <2> QED BY <1>8, <2>1, <2>2, <2>3 DEF Asking
<1>10. ChannelHolds'
  <2>1. ASSUME NEW i \in DOMAIN channel
        PROVE  Asking(channel[i])' /\ channel[i] # replies'[cards'[channel[i]].session]
    <3>1. PICK d : d = channel[i]
      OBVIOUS
    <3>2. Asking(d) /\ d # replies[cards[d].session]
      BY <1>2, <3>1 DEF ChannelHolds
    <3>3. d # c
      BY <1>0, <1>3, <3>2
    <3>4. d \in Cards' /\ cards'[d] = cards[d] /\ cards[d].session \in Sessions /\ d # 0
      BY <1>8, <3>2, <3>3, AttemptsAre, TypeFacts DEF Asking, IInv
    <3>5. d # replies'[cards[d].session]
      BY <1>5, <3>2, <3>4
    <3> QED BY <1>1, <3>1, <3>2, <3>4, <3>5 DEF Asking
  <2> QED BY <1>1, <1>2, <2>1 DEF ChannelHolds
<1>11. \A u \in Sessions : InboxHolds(u)'
  BY <1>1, <1>4, InboxSame
<1>12. ASSUME NEW u \in Sessions PROVE SessionHolds(u)'
  <2>1. chat[u].queue # <<>> => Active(chat[u])
    BY <1>1, <1>2 DEF SessionHolds
  <2>2. SessionHolds(u)
    BY <1>2
  <2> QED BY <1>1, <1>4, <2>1, <2>2, SessionStays
<1>13. ShowHolds'
  <2>1. \A u \in Sessions : replies[u] = Pending(chat[u])
    BY <1>1 DEF IInv, ShowHolds
  <2>2. replies'[s] = 0 /\ \A u \in Sessions \ {s} : replies'[u] = Pending(chat'[u])
    BY <1>1, <1>5, <2>1
  <2> QED BY <1>1, <2>2 DEF ShowHolds, Pending, Active
<1>14. TextsInOrder'
  BY <1>1, TextsKept DEF IInv
<1> QED BY <1>6, <1>8, <1>9, <1>10, <1>11, <1>12, <1>13, <1>14 DEF IInv

-----------------------------------------------------------------------------
(* Scope routing, and the actions that leave cards and jobs alone.  *)

\* No job is dropped, no card touched.
JobsStay == /\ cards' = cards /\ log' = log /\ turn' = turn /\ channel' = channel
            /\ replies' = replies /\ inbox' = inbox /\ bound' = bound
            /\ pass = "quit" => pass' = "quit"
            /\ \A s \in Sessions : chat[s].attempt <= chat'[s].attempt
            /\ \A c \in Cards : Stale(c) => Over(c)

LEMMA StayMoves ==
    ASSUME IInv, JobsStay, StateTypeOK'
    PROVE  /\ \A c \in Cards' : CardHolds(c)'
           /\ \A c \in (Ids \ Cards)' : log'[c] = <<>>
           /\ \A s \in Sessions : JobHolds(s)' /\ InboxHolds(s)'
           /\ ChannelHolds' /\ \A s \in Sessions : ReplyHolds(s)'
<1>1. cards \in Seq(Requests) /\ log \in [Ids -> Seq(Outcomes)]
  BY DEF IInv, StateTypeOK
<1>2. cards' = DropCards(cards, {})
  BY <1>1 DEF JobsStay, DropCards
<1>3. log' = DropLog(log, {})
  BY <1>1 DEF JobsStay, DropLog
<1>4. PICK D \in SUBSET Sessions : D = {}
  OBVIOUS
<1>5. Drops(D) /\ DropFrame(D) /\ \A s \in D : turn'[s] # Idle => JobHolds(s)'
  BY <1>2, <1>3, <1>4 DEF Drops, DropFrame, JobsStay
<1> QED BY <1>5, DropMoves DEF JobsStay

\* The chats stay, too.
LEMMA StillHolds ==
    ASSUME IInv, UNCHANGED <<bound, chat, ready, turn, cards, channel, replies, inbox, log>>,
           StateTypeOK', count'.prompts = count.prompts,
           pass' = pass \/ (pass = "keys" /\ pass' = "events")
    PROVE  IInv'
<1>1. JobsStay
  <2>1. \A s \in Sessions : chat[s].attempt <= chat'[s].attempt
    BY TypeFacts, ChatIs DEF IInv
  <2> QED BY <2>1 DEF JobsStay, Stale, Awaits, Over
<1>2. \A s \in Sessions : SessionHolds(s)'
  <2> SUFFICES ASSUME NEW s \in Sessions PROVE SessionHolds(s)'
    OBVIOUS
  <2>1. SessionHolds(s) /\ Kept
    BY CardsSame DEF IInv
  <2>2. pass' \in {"keys", "abort"} /\ chat[s].queue # <<>> => Active(chat[s])
    BY <2>1 DEF SessionHolds
  <2> QED BY <2>1, <2>2, SessionStays
<1>3. ShowHolds'
  BY DEF IInv, ShowHolds, Pending, Active
<1>4. TextsInOrder'
  BY TextsKept DEF IInv
<1> QED BY <1>1, <1>2, <1>3, <1>4, StayMoves DEF IInv

\* The job of the attempt that was routed begins.
LaunchesNow(s) ==
    /\ Launch(s) /\ chat[s].attempt = ready[s] /\ Active(chat[s])
    /\ turn' = [turn EXCEPT ![s] = [Idle EXCEPT !.pc = "start", !.attempt = ready[s],
                                                !.id = count.turns + 1]]
    /\ cards' = DropCards(cards, {s}) /\ log' = DropLog(log, {s})
    /\ count' = [count EXCEPT !.turns = @ + 1] /\ chat' = chat

LEMMA LaunchBegins ==
    ASSUME IInv, NEW s \in Sessions, LaunchesNow(s)
    PROVE  IInv'
<1> DEFINE j == [Idle EXCEPT !.pc = "start", !.attempt = ready[s], !.id = count.turns + 1]
<1>1. /\ pass = "events" /\ ready[s] # 0 /\ ready' = [ready EXCEPT ![s] = 0]
      /\ bound' = bound /\ channel' = channel /\ replies' = replies /\ inbox' = inbox
      /\ rules' = rules /\ file' = file /\ journal' = journal /\ pass' = pass
      /\ chat[s].attempt = ready[s] /\ chat' = chat
      /\ cards' = DropCards(cards, {s}) /\ log' = DropLog(log, {s})
  BY DEF Launch, LaunchesNow
<1>2. /\ \A u \in Sessions : chat[u] \in Chats /\ turn[u] \in Jobs /\ SessionHolds(u)
                             /\ chat[u].attempt \in Nat
      /\ turn \in [Sessions -> Jobs] /\ ready \in [Sessions -> Nat]
      /\ count \in [prompts : Nat, retries : Nat, turns : Nat, writes : Nat]
  BY TypeFacts, ChatIs DEF IInv, StateTypeOK
<1>3. /\ j \in Jobs /\ j.pc = "start" /\ j.attempt = ready[s] /\ j.card = 0 /\ j.rounds = 0
  <2>1. ready[s] \in Nat /\ count.turns + 1 \in Nat
    BY <1>2
  <2>2. Idle.card = 0 /\ Idle.rounds = 0 /\ Idle \in Jobs
    BY IdleIs
  <2>3. /\ j.pc = "start" /\ j.attempt = ready[s] /\ j.id = count.turns + 1
        /\ j.card = 0 /\ j.rounds = 0
    BY DEF Idle
  <2>4. j \in Jobs
    BY <2>1, <2>2 DEF Jobs
  <2> QED BY <2>3, <2>4
<1> HIDE DEF j
<1>4. turn' = [turn EXCEPT ![s] = j]
  BY DEF j, LaunchesNow
<1>5. turn'[s] = j /\ \A u \in Sessions \ {s} : turn'[u] = turn[u] /\ ready'[u] = ready[u]
  BY <1>1, <1>2, <1>4
<1>6. turn[s].pc = "none" /\ ready'[s] = 0
  BY <1>1, <1>2 DEF SessionHolds
<1>7. /\ cards' \in Seq(Requests) /\ Len(cards') = Len(cards)
      /\ log' \in [Ids -> Seq(Outcomes)]
  BY <1>1, DropIs
<1>8. StateTypeOK'
  <2>1. turn' \in [Sessions -> Jobs]
    BY <1>2, <1>3, <1>4
  <2>2. ready' \in [Sessions -> Nat]
    BY <1>1, <1>2
  <2>3. count' \in [prompts : Nat, retries : Nat, turns : Nat, writes : Nat]
    BY <1>2 DEF LaunchesNow
  <2> QED BY <1>1, <1>7, <2>1, <2>2, <2>3 DEF IInv, StateTypeOK
<1>9. Drops({s})
  BY <1>1, <1>3, <1>5 DEF Drops
<1>10. DropFrame({s})
  <2>1. \A u \in Sessions : chat[u].attempt <= chat'[u].attempt
    BY <1>1, <1>2
  <2>2. \A c \in Cards : cards[c].session \in {s} => ~Waits(c)
    BY <1>6 DEF Waits
  <2>3. \A c \in Cards : Stale(c) => Over(c)
    BY <1>1 DEF Stale, Awaits, Over
  <2> QED BY <1>1, <2>1, <2>2, <2>3 DEF DropFrame
<1>11. JobHolds(s)'
  <2>1. bound.steps \in Nat
    BY TypeFacts DEF IInv
  <2>2. turn'[s].pc = "start" /\ turn'[s].attempt = chat'[s].attempt
        /\ turn'[s].card = 0 /\ turn'[s].rounds = 0 /\ chat'[s].attempt \in Nat
    BY <1>1, <1>2, <1>3, <1>5
  <2> QED BY <1>1, <2>1, <2>2 DEF JobHolds
<1>12. /\ Kept
       /\ \A c \in Cards' : CardHolds(c)'
       /\ \A c \in (Ids \ Cards)' : log'[c] = <<>>
       /\ \A u \in Sessions : JobHolds(u)' /\ InboxHolds(u)'
       /\ ChannelHolds' /\ \A u \in Sessions : ReplyHolds(u)'
  BY <1>1, <1>8, <1>9, <1>10, <1>11, DropMoves
<1>13. \A u \in Sessions \ {s} : SessionHolds(u)'
  BY <1>1, <1>2, <1>5, <1>12, SessionStays
<1>14. SessionHolds(s)'
  <2>1. \A d : Owns(s, chat[s].attempt, d) =>
          d \in Cards' /\ cards'[d].session = s /\ cards'[d].attempt = chat[s].attempt
    BY <1>12, OwnsStays DEF Cards
  <2>2. SessionHolds(s) /\ ready'[s] <= chat[s].attempt
    BY <1>1, <1>2, <1>6
  <2> QED BY <1>1, <1>6, <2>1, <2>2 DEF SessionHolds, Owns, Active
<1>15. ShowHolds'
  BY <1>1 DEF IInv, ShowHolds, Pending, Active
<1>16. TextsInOrder'
  <2>1. count'.prompts = count.prompts
    BY <1>2 DEF LaunchesNow
  <2> QED BY <1>1, <2>1, TextsKept DEF IInv
<1> QED BY <1>8, <1>12, <1>13, <1>14, <1>15, <1>16 DEF IInv

LEMMA LaunchFails ==
    ASSUME IInv, NEW s \in Sessions, Launch(s), turn' = turn, cards' = cards, log' = log,
           count' = count, chat' = [chat EXCEPT ![s] = Fail(@)] \/ chat' = chat
    PROVE  IInv'
<1>1. /\ pass = "events" /\ ready[s] # 0 /\ ready' = [ready EXCEPT ![s] = 0]
      /\ bound' = bound /\ channel' = channel /\ replies' = replies /\ inbox' = inbox
      /\ rules' = rules /\ file' = file /\ journal' = journal /\ pass' = pass
  BY DEF Launch
<1>2. /\ \A u \in Sessions : chat[u] \in Chats /\ SessionHolds(u) /\ chat[u].attempt \in Nat
      /\ ready \in [Sessions -> Nat] /\ chat \in [Sessions -> Chats] /\ Kept
  BY TypeFacts, ChatIs, CardsSame DEF IInv, StateTypeOK
<1>3. /\ \A u \in Sessions \ {s} : chat'[u] = chat[u] /\ ready'[u] = ready[u]
      /\ chat'[s] = Fail(chat[s]) \/ chat'[s] = chat[s]
      /\ ready'[s] = 0
  BY <1>1, <1>2
<1>4. /\ Retells(chat[s], chat'[s]) /\ chat'[s].queue \in {<<>>, chat[s].queue}
      /\ Active(chat'[s]) => Active(chat[s])
      /\ chat'[s].attempt = chat[s].attempt /\ chat'[s].turns = chat[s].turns
      /\ chat'[s].card = chat[s].card /\ chat'[s].steps = chat[s].steps
      /\ chat'[s].queue # <<>> => chat'[s].status = chat[s].status
  <2>1. CASE chat'[s] = chat[s]
    BY <1>2, <2>1 DEF Retells
  <2>2. CASE chat'[s] = Fail(chat[s])
    BY <1>2, <2>2, FailIs DEF Active
  <2> QED BY <1>3, <2>1, <2>2
<1>5. StateTypeOK'
  <2>1. chat' \in [Sessions -> Chats]
    BY <1>2, <1>4 DEF Retells
  <2>2. ready' \in [Sessions -> Nat]
    BY <1>1, <1>2
  <2> QED BY <1>1, <2>1, <2>2 DEF IInv, StateTypeOK
<1>6. JobsStay
  <2>1. \A u \in Sessions : chat[u].attempt <= chat'[u].attempt
    BY <1>2, <1>3, <1>4
  <2>2. ASSUME NEW d \in Cards, Stale(d) PROVE Over(d)
    <3>1. cards[d].session \in Sessions
      BY AttemptsAre
    <3>2. CASE cards[d].session = s
      BY <1>4, <2>2, <3>2 DEF Over, Stale, Awaits
    <3>3. CASE cards[d].session # s
      BY <1>3, <2>2, <3>1, <3>3 DEF Over, Stale, Awaits
    <3> QED BY <3>2, <3>3
  <2> QED BY <1>1, <2>1, <2>2 DEF JobsStay
<1>7. \A u \in Sessions \ {s} : SessionHolds(u)'
  BY <1>1, <1>2, <1>3, SessionStays
<1>8. SessionHolds(s)'
  <2>1. \A d : Owns(s, chat[s].attempt, d) =>
          d \in Cards' /\ cards'[d].session = s /\ cards'[d].attempt = chat[s].attempt
    BY <1>2, OwnsStays DEF Cards
  <2>2. /\ chat[s].turns <= bound.turns
        /\ chat[s].card # 0 => Owns(s, chat[s].attempt, chat[s].card)
        /\ \A d \in chat[s].steps : Owns(s, chat[s].attempt, d)
        /\ Len(chat[s].queue) <= MaxQueued
        /\ chat[s].queue # <<>> => chat[s].status \in {"active", "complete"}
    BY <1>2 DEF SessionHolds
  <2>3. Len(chat'[s].queue) <= MaxQueued
    BY <1>4, <2>2, ChatAssumption
  <2>4. chat'[s].queue # <<>> => chat'[s].status \in {"active", "complete"}
    BY <1>4, <2>2
  <2>5. ready'[s] <= chat'[s].attempt
    BY <1>2, <1>3, <1>4
  <2>6. \A d \in chat'[s].steps : Owns(s, chat[s].attempt, d)
    BY <1>4, <2>2
  <2>7. chat'[s].card # 0 => Owns(s, chat[s].attempt, chat[s].card)
    BY <1>4, <2>2
  <2> QED BY <1>1, <1>3, <1>4, <2>1, <2>2, <2>3, <2>4, <2>5, <2>6, <2>7 DEF SessionHolds, Owns
<1>9. ShowHolds'
  <2> SUFFICES ASSUME NEW u \in Sessions, Pending(chat'[u]) # 0
               PROVE  replies[u] = Pending(chat'[u])
    BY <1>1 DEF ShowHolds, Pending, Active
  <2>1. Pending(chat'[u]) = Pending(chat[u])
    BY <1>3, <1>4 DEF Pending
  <2> QED BY <1>1, <2>1 DEF IInv, ShowHolds
<1>10. TextsInOrder'
  <2>1. \A u \in Sessions : TextOf(chat'[u]) = TextOf(chat[u])
    BY <1>3, <1>4 DEF Retells
  <2> QED BY <2>1, TextsKept DEF IInv
<1> QED BY <1>5, <1>6, <1>7, <1>8, <1>9, <1>10, StayMoves DEF IInv

LEMMA OnLaunch ==
    ASSUME IInv, NEW s \in Sessions, Launch(s)
    PROVE  IInv'
<1>1. CASE chat[s].attempt = ready[s] /\ Active(chat[s])
  BY <1>1, LaunchBegins, LaunchFails DEF Launch, LaunchesNow
<1>2. CASE ~(chat[s].attempt = ready[s] /\ Active(chat[s]))
  BY <1>2, LaunchFails DEF Launch
<1> QED BY <1>1, <1>2

-----------------------------------------------------------------------------
(* Steps that end turns or begin new ones.  *)

\* The session u has another turn than t, or its turn is over; no text is lost.
Renewed(t, u) ==
    /\ Retells(t, u) /\ u.turns <= bound.turns /\ Len(u.queue) <= Len(t.queue)
    /\ u.queue # <<>> => u.status \in {"active", "complete"}
    /\ \/ u.attempt = t.attempt + 1 /\ u.card = 0 /\ u.steps = {}
       \/ /\ u.attempt = t.attempt /\ ~Active(u)
          /\ u.card \in {0, t.card} /\ u.steps = t.steps

Renews(D) ==
    /\ cards' = DropCards(cards, D) /\ log' = DropLog(log, D) /\ turn' = DropTurn(D)
    /\ inbox' = inbox /\ bound' = bound /\ pass # "quit"
    /\ pass' = "quit" \/ (channel' = channel /\ replies' = replies)
    /\ \A s \in D : Renewed(chat[s], chat'[s]) /\ ready'[s] \in {ready[s], chat'[s].attempt}
    /\ \A s \in Sessions \ D : chat'[s] = chat[s] /\ ready'[s] = ready[s]
    /\ \A s \in Sessions : pass' \in {"keys", "abort"} /\ chat'[s].queue # <<>> => Active(chat'[s])

LEMMA RenewTypes ==
    ASSUME IInv, NEW D \in SUBSET Sessions, Renews(D)
    PROVE  /\ cards' \in Seq(Requests) /\ Len(cards') = Len(cards)
           /\ log' \in [Ids -> Seq(Outcomes)] /\ turn' \in [Sessions -> Jobs]
           /\ \A s \in Sessions : chat'[s] \in Chats /\ ready'[s] \in Nat
<1>1. /\ cards' \in Seq(Requests) /\ Len(cards') = Len(cards)
      /\ log' \in [Ids -> Seq(Outcomes)]
  BY DropIs DEF Renews
<1>2. turn' \in [Sessions -> Jobs]
  BY IdleIs DEF Renews, DropTurn, IInv, StateTypeOK
<1>3. ASSUME NEW s \in Sessions PROVE chat'[s] \in Chats /\ ready'[s] \in Nat
  <2>1. chat[s] \in Chats /\ ready[s] \in Nat
    BY DEF IInv, StateTypeOK
  <2>2. CASE s \in D
    <3>1. chat'[s] \in Chats /\ ready'[s] \in {ready[s], chat'[s].attempt}
      BY <2>2 DEF Renews, Renewed, Retells
    <3> QED BY <2>1, <3>1, ChatIs
  <2>3. CASE s \notin D
    BY <2>1, <2>3 DEF Renews
  <2> QED BY <2>2, <2>3
<1> QED BY <1>1, <1>2, <1>3

LEMMA RenewMoves ==
    ASSUME IInv, NEW D \in SUBSET Sessions, Renews(D), StateTypeOK'
    PROVE  /\ \A c \in Cards' : CardHolds(c)'
           /\ \A c \in (Ids \ Cards)' : log'[c] = <<>>
           /\ \A s \in Sessions : JobHolds(s)' /\ InboxHolds(s)' /\ SessionHolds(s)'
           /\ channel' = channel /\ replies' = replies =>
                ChannelHolds' /\ \A s \in Sessions : ReplyHolds(s)'
           /\ count'.prompts = count.prompts => TextsInOrder'
<1>1. \A s \in Sessions : /\ chat[s] \in Chats /\ chat'[s] \in Chats /\ turn[s] \in Jobs
                          /\ chat[s].attempt \in Nat /\ chat'[s].attempt \in Nat
                          /\ SessionHolds(s) /\ ready[s] \in Nat
  BY RenewTypes, TypeFacts, ChatIs DEF IInv, StateTypeOK
<1>2. \A s \in Sessions : turn'[s] = IF s \in D THEN Idle ELSE turn[s]
  BY DEF Renews, DropTurn
<1>3. Drops(D)
  BY <1>2 DEF Drops, Renews
<1>4. \A s \in Sessions : chat[s].attempt <= chat'[s].attempt
  <2> SUFFICES ASSUME NEW s \in Sessions PROVE chat[s].attempt <= chat'[s].attempt
    OBVIOUS
  <2>1. CASE s \in D
    BY <1>1, <2>1 DEF Renews, Renewed
  <2>2. CASE s \notin D
    BY <1>1, <2>2 DEF Renews
  <2> QED BY <2>1, <2>2
<1>5. ASSUME NEW c \in Cards, Stale(c) \/ (cards[c].session \in D /\ Waits(c))
      PROVE  Over(c)
  <2>1. /\ cards[c].session \in Sessions /\ cards[c].attempt \in Nat
        /\ chat[cards[c].session].attempt \in Nat
        /\ cards[c].attempt <= chat[cards[c].session].attempt
    BY AttemptsAre
  <2>2. CASE cards[c].session \in D
    <3>1. Renewed(chat[cards[c].session], chat'[cards[c].session])
      BY <2>2 DEF Renews
    <3>2. \/ chat'[cards[c].session].attempt = chat[cards[c].session].attempt + 1
          \/ ~Active(chat'[cards[c].session])
      BY <3>1 DEF Renewed
    <3> QED BY <2>1, <3>2 DEF Over
  <2>3. CASE cards[c].session \notin D
    BY <1>5, <2>1, <2>3 DEF Renews, Over, Stale, Awaits
  <2> QED BY <2>2, <2>3
<1>6. DropFrame(D)
  BY <1>4, <1>5 DEF DropFrame, Renews
<1>7. \A s \in D : turn'[s] # Idle => JobHolds(s)'
  BY <1>2
<1>8. /\ Kept
      /\ \A c \in Cards' : CardHolds(c)'
      /\ \A c \in (Ids \ Cards)' : log'[c] = <<>>
      /\ \A s \in Sessions : JobHolds(s)' /\ InboxHolds(s)'
      /\ channel' = channel /\ replies' = replies =>
           ChannelHolds' /\ \A s \in Sessions : ReplyHolds(s)'
  BY <1>3, <1>6, <1>7, DropMoves
<1>9. ASSUME NEW s \in Sessions PROVE SessionHolds(s)'
  <2>1. pass' \in {"keys", "abort"} /\ chat'[s].queue # <<>> => Active(chat'[s])
    BY DEF Renews
  <2>2. CASE s \notin D
    <3>1. chat'[s] = chat[s] /\ ready'[s] = ready[s] /\ bound' = bound /\ turn'[s] = turn[s]
      BY <1>2, <2>2 DEF Renews
    <3> QED BY <1>1, <1>8, <2>1, <3>1, SessionStays
  <2>3. CASE s \in D
    <3>1. /\ Renewed(chat[s], chat'[s]) /\ ready'[s] \in {ready[s], chat'[s].attempt}
          /\ bound' = bound /\ turn'[s].pc = "none"
      BY <1>2, <2>3, IdleIs DEF Renews
    <3>2. /\ ready[s] <= chat[s].attempt /\ Len(chat[s].queue) <= MaxQueued
          /\ chat[s].card # 0 => Owns(s, chat[s].attempt, chat[s].card)
          /\ \A d \in chat[s].steps : Owns(s, chat[s].attempt, d)
      BY <1>1 DEF SessionHolds
    <3>3. Len(chat'[s].queue) <= MaxQueued
      <4>1. Len(chat[s].queue) \in Nat /\ Len(chat'[s].queue) \in Nat /\ MaxQueued \in Nat
        BY <1>1, ChatIs, ChatAssumption
      <4> QED BY <3>1, <3>2, <4>1 DEF Renewed
    <3>4. ready'[s] <= chat'[s].attempt
      BY <1>1, <1>4, <3>1, <3>2
    <3>5. \A d : Owns(s, chat[s].attempt, d) =>
            d \in Cards' /\ cards'[d].session = s /\ cards'[d].attempt = chat[s].attempt
      BY <1>8, OwnsStays DEF Cards
    <3>6. /\ chat'[s].card # 0 => /\ chat'[s].attempt = chat[s].attempt
                                  /\ Owns(s, chat[s].attempt, chat'[s].card)
          /\ \A d \in chat'[s].steps : /\ chat'[s].attempt = chat[s].attempt
                                       /\ Owns(s, chat[s].attempt, d)
      <4>1. CASE chat'[s].card = 0 /\ chat'[s].steps = {}
        BY <4>1
      <4>2. CASE /\ chat'[s].attempt = chat[s].attempt
                 /\ chat'[s].card \in {0, chat[s].card} /\ chat'[s].steps = chat[s].steps
        BY <3>2, <4>2
      <4> QED BY <3>1, <4>1, <4>2 DEF Renewed
    <3>7. /\ chat'[s].turns <= bound'.turns
          /\ chat'[s].queue # <<>> => chat'[s].status \in {"active", "complete"}
      BY <3>1 DEF Renewed
    <3> QED BY <2>1, <3>1, <3>3, <3>4, <3>5, <3>6, <3>7 DEF SessionHolds, Owns
  <2> QED BY <2>2, <2>3
<1>10. count'.prompts = count.prompts => TextsInOrder'
  <2>1. \A s \in Sessions : TextOf(chat'[s]) = TextOf(chat[s])
    BY DEF Renews, Renewed, Retells
  <2> QED BY <2>1, TextsKept DEF IInv
<1> QED BY <1>8, <1>9, <1>10

LEMMA OnEscapes ==
    ASSUME IInv, NEW s \in Sessions, Escapes(s)
    PROVE  IInv'
<1>1. /\ cards' = DropCards(cards, {s}) /\ log' = DropLog(log, {s}) /\ turn' = DropTurn({s})
      /\ chat' = [chat EXCEPT ![s] = Cancel(@)] /\ pass' = "events" /\ replies[s] = 0
      /\ pass = "keys" \/ (pass = "abort" /\ Pending(chat[s]) # 0)
      /\ bound' = bound /\ ready' = ready /\ channel' = channel /\ replies' = replies
      /\ inbox' = inbox /\ rules' = rules /\ file' = file /\ journal' = journal /\ count' = count
  BY DEF Escapes
<1>2. chat[s] \in Chats /\ SessionHolds(s) /\ chat \in [Sessions -> Chats]
  BY DEF IInv, StateTypeOK
<1>3. chat'[s] = Cancel(chat[s]) /\ \A u \in Sessions \ {s} : chat'[u] = chat[u]
  BY <1>1, <1>2
<1>4. /\ Retells(chat[s], chat'[s]) /\ chat'[s].queue = <<>> /\ chat'[s].card = 0
      /\ ~Active(chat'[s]) /\ Pending(chat'[s]) = 0 /\ chat'[s].attempt = chat[s].attempt
      /\ chat'[s].turns = chat[s].turns /\ chat'[s].steps = chat[s].steps
  BY <1>2, <1>3, CancelIs
<1>5. Renewed(chat[s], chat'[s])
  <2>1. Len(<<>>) <= Len(chat[s].queue)
    BY <1>2, ChatIs
  <2> QED BY <1>2, <1>4, <2>1 DEF Renewed, SessionHolds
<1>6. PICK D \in SUBSET Sessions : D = {s}
  OBVIOUS
<1>7. Renews(D)
  BY <1>1, <1>3, <1>5, <1>6 DEF Renews
<1>8. StateTypeOK'
  <2>1. chat' \in [Sessions -> Chats]
    BY <1>1, <1>2, <1>7, RenewTypes
  <2> QED BY <1>1, <1>7, <2>1, RenewTypes DEF IInv, StateTypeOK
<1>9. ShowHolds'
  <2> SUFFICES ASSUME NEW u \in Sessions, Pending(chat'[u]) # 0
               PROVE  replies[u] = Pending(chat'[u])
    BY <1>1 DEF ShowHolds, Pending, Active
  <2>1. u # s /\ chat'[u] = chat[u]
    BY <1>3, <1>4
  <2>2. CASE pass = "keys"
    BY <2>1, <2>2 DEF IInv, ShowHolds
  <2>3. CASE pass = "abort"
    <3>1. PICK v \in Sessions :
            replies[v] = 0 /\ \A w \in Sessions \ {v} : replies[w] = Pending(chat[w])
      BY <2>3 DEF IInv, ShowHolds
    <3>2. v = s
      BY <1>1, <2>3, <3>1
    <3> QED BY <2>1, <3>1, <3>2
  <2> QED BY <1>1, <2>2, <2>3
<1> QED BY <1>1, <1>7, <1>8, <1>9, RenewMoves DEF IInv

\* The turn t of the owner; it fails if the scope of the last one is still being routed.
LEMMA SubmitMoves ==
    ASSUME IInv, NEW s \in Sessions, NEW t, Submit(s, t), pass = "keys", pass' = "events",
           UNCHANGED <<bound, channel, replies, inbox, rules, file, journal>>,
           count' \in [prompts : Nat, retries : Nat, turns : Nat, writes : Nat],
           count'.prompts = count.prompts,
           Retells(chat[s], t), t.attempt = chat[s].attempt + 1, t.card = 0, t.steps = {},
           t.turns <= bound.turns, t.status = "active", Len(t.queue) <= Len(chat[s].queue)
    PROVE  IInv'
<1>1. /\ chat' = [chat EXCEPT ![s] = IF ready[s] = 0 THEN t ELSE Fail(t)]
      /\ ready' = [ready EXCEPT ![s] = IF ready[s] = 0 THEN t.attempt ELSE ready[s]]
      /\ cards' = DropCards(cards, {s}) /\ log' = DropLog(log, {s}) /\ turn' = DropTurn({s})
      /\ chat \in [Sessions -> Chats] /\ ready \in [Sessions -> Nat] /\ t \in Chats
  BY DEF Submit, IInv, StateTypeOK, Retells
<1>2. /\ chat'[s] = IF ready[s] = 0 THEN t ELSE Fail(t)
      /\ ready'[s] = IF ready[s] = 0 THEN t.attempt ELSE ready[s]
      /\ \A u \in Sessions \ {s} : chat'[u] = chat[u] /\ ready'[u] = ready[u]
  BY <1>1
<1>3. /\ Retells(t, Fail(t)) /\ Fail(t).queue = <<>> /\ Fail(t).attempt = t.attempt
      /\ Fail(t).turns = t.turns /\ Fail(t).card = t.card /\ Fail(t).steps = t.steps
  BY <1>1, FailIs
<1>4. Renewed(chat[s], chat'[s]) /\ chat'[s].card = 0
  <2>1. CASE ready[s] = 0
    BY <1>2, <2>1 DEF Renewed
  <2>2. CASE ready[s] # 0
    <3>1. Len(<<>>) <= Len(chat[s].queue)
      BY <1>1, ChatIs
    <3> QED BY <1>2, <1>3, <2>2, <3>1 DEF Renewed, Retells
  <2> QED BY <2>1, <2>2
<1>5. ready'[s] \in {ready[s], chat'[s].attempt}
  BY <1>2
<1>6. PICK D \in SUBSET Sessions : D = {s}
  OBVIOUS
<1>7. Renews(D)
  BY <1>1, <1>2, <1>4, <1>5, <1>6 DEF Renews
<1>8. StateTypeOK'
  <2>1. chat' \in [Sessions -> Chats] /\ ready' \in [Sessions -> Nat]
    BY <1>1, <1>7, RenewTypes
  <2> QED BY <1>1, <1>7, <2>1, RenewTypes DEF IInv, StateTypeOK
<1>9. ShowHolds'
  <2> SUFFICES ASSUME NEW u \in Sessions, Pending(chat'[u]) # 0
               PROVE  replies[u] = Pending(chat'[u])
    BY DEF ShowHolds, Pending, Active
  <2>1. u # s /\ chat'[u] = chat[u]
    BY <1>2, <1>4 DEF Pending
  <2> QED BY <2>1 DEF IInv, ShowHolds
<1> QED BY <1>7, <1>8, <1>9, RenewMoves DEF IInv

LEMMA OnEnterSends ==
    ASSUME IInv, NEW s \in Sessions, EnterSends(s)
    PROVE  IInv'
<1>1. /\ pass = "keys" /\ pass' = "events" /\ bound' = bound /\ count' = count
      /\ Submit(s, Begin(chat[s])) /\ CanBegin(chat[s])
      /\ UNCHANGED <<bound, channel, replies, inbox, rules, file, journal>>
  BY DEF EnterSends, Next0
<1>2. chat[s] \in Chats /\ SessionHolds(s) /\ chat[s].turns \in Nat /\ bound.turns \in Nat
  BY TypeFacts, ChatIs DEF IInv
<1>3. chat[s].queue = <<>>
  BY <1>1, <1>2 DEF SessionHolds, CanBegin
<1> DEFINE t == Begin(chat[s])
<1>4. /\ Retells(chat[s], t) /\ t.status = "active" /\ t.attempt = chat[s].attempt + 1
      /\ t.card = 0 /\ t.steps = {} /\ t.turns = chat[s].turns + 1 /\ t.queue = chat[s].queue
  BY <1>2, <1>3, BeginIs
<1>5. t.turns <= bound.turns /\ Len(t.queue) <= Len(chat[s].queue)
  <2>1. Len(chat[s].queue) \in Nat /\ chat[s].turns < bound.turns
    BY <1>1, <1>2, ChatIs DEF CanBegin
  <2> QED BY <1>2, <1>4, <2>1
<1>6. count' \in [prompts : Nat, retries : Nat, turns : Nat, writes : Nat]
  BY <1>1 DEF IInv, StateTypeOK
<1> HIDE DEF t
<1>7. Submit(s, t)
  BY <1>1 DEF t
<1> QED BY <1>1, <1>4, <1>5, <1>6, <1>7, SubmitMoves

LEMMA OnRetry ==
    ASSUME IInv, NEW s \in Sessions, Retry(s)
    PROVE  IInv'
<1>1. /\ pass = "keys" /\ pass' = "events" /\ bound' = bound
      /\ count' = [count EXCEPT !.retries = @ + 1]
      /\ Submit(s, StartTurn(chat[s]))
      /\ UNCHANGED <<bound, channel, replies, inbox, rules, file, journal>>
  BY DEF Retry, Next0
<1>2. chat[s] \in Chats /\ SessionHolds(s) /\ Len(chat[s].queue) \in Nat
  BY TypeFacts, ChatIs DEF IInv
<1> DEFINE t == StartTurn(chat[s])
<1>3. /\ Retells(chat[s], t) /\ t.status = "active" /\ t.attempt = chat[s].attempt + 1
      /\ t.card = 0 /\ t.steps = {} /\ t.turns = chat[s].turns /\ t.queue = chat[s].queue
  BY <1>2, StartIs
<1>4. t.turns <= bound.turns /\ Len(t.queue) <= Len(chat[s].queue)
  BY <1>2, <1>3 DEF SessionHolds
<1>5. /\ count' \in [prompts : Nat, retries : Nat, turns : Nat, writes : Nat]
      /\ count'.prompts = count.prompts
  <2>1. count \in [prompts : Nat, retries : Nat, turns : Nat, writes : Nat]
    BY DEF IInv, StateTypeOK
  <2>2. count.retries + 1 \in Nat
    BY <2>1
  <2> QED BY <1>1, <2>1, <2>2
<1> HIDE DEF t
<1>6. Submit(s, t)
  BY <1>1 DEF t
<1> QED BY <1>1, <1>3, <1>4, <1>5, <1>6, SubmitMoves

LEMMA OnQuit ==
    ASSUME IInv, Quit
    PROVE  IInv'
<1>1. /\ cards' = DropCards(cards, Sessions) /\ log' = DropLog(log, Sessions)
      /\ turn' = DropTurn(Sessions) /\ chat' = [s \in Sessions |-> Cancel(chat[s])]
      /\ pass = "keys" /\ pass' = "quit" /\ replies' = [s \in Sessions |-> 0] /\ channel' = <<>>
      /\ bound' = bound /\ ready' = ready /\ inbox' = inbox
      /\ rules' = rules /\ file' = file /\ journal' = journal /\ count' = count
  BY DEF Quit
<1>2. ASSUME NEW s \in Sessions PROVE Renewed(chat[s], chat'[s])
  <2>1. chat[s] \in Chats /\ SessionHolds(s) /\ chat'[s] = Cancel(chat[s])
    BY <1>1 DEF IInv, StateTypeOK
  <2>2. /\ Retells(chat[s], chat'[s]) /\ chat'[s].queue = <<>> /\ chat'[s].card = 0
        /\ ~Active(chat'[s]) /\ chat'[s].attempt = chat[s].attempt
        /\ chat'[s].turns = chat[s].turns /\ chat'[s].steps = chat[s].steps
    BY <2>1, CancelIs
  <2>3. Len(<<>>) <= Len(chat[s].queue)
    BY <2>1, ChatIs
  <2> QED BY <2>1, <2>2, <2>3 DEF Renewed, SessionHolds
<1>3. PICK D \in SUBSET Sessions : D = Sessions
  OBVIOUS
<1>4. Renews(D)
  BY <1>1, <1>2, <1>3 DEF Renews
<1>5. replies' \in [Sessions -> 0..MaxCards] /\ channel' \in Seq(Ids)
  BY <1>1, ChatAssumption
<1>6. StateTypeOK'
  <2>1. chat' \in [Sessions -> Chats]
    BY <1>1, <1>4, RenewTypes
  <2> QED BY <1>1, <1>4, <1>5, <2>1, RenewTypes DEF IInv, StateTypeOK
<1>7. ChannelHolds' /\ ShowHolds' /\ \A s \in Sessions : ReplyHolds(s)'
  BY <1>1 DEF ChannelHolds, ShowHolds, ReplyHolds
<1> QED BY <1>1, <1>4, <1>6, <1>7, RenewMoves DEF IInv

LEMMA LeastOf ==
    ASSUME NEW T \in SUBSET Nat, T # {}
    PROVE  \E x \in T : \A y \in T : x <= y
<1> DEFINE Less == {p \in Nat \X Nat : p[1] < p[2]}
<1>1. PICK x \in T : \A y \in T : <<y, x>> \notin Less
  <2>1. IsWellFoundedOn(Less, Nat)
    BY NatLessThanWellFounded DEF OpToRel
  <2> HIDE DEF Less
  <2> QED BY <2>1, WFMin
<1>2. ASSUME NEW y \in T PROVE x <= y
  <2>1. x \in Nat /\ y \in Nat /\ ~(y < x)
    BY <1>1
  <2> QED BY <2>1
<1> QED BY <1>2

\* Nobody is passed over: as long as text is queued behind a turn that completed, a turn begins.
LEMMA OnSends ==
    ASSUME IInv, Sends
    PROVE  IInv'
<1> DEFINE first == {s \in Queued : \A t \in Queued : s <= t}
           began == [s \in Sessions |-> IF s \in first THEN BeginQueued(chat[s]) ELSE chat[s]]
           idle == {s \in Sessions : ~Active(began[s])}
           routed == {s \in first : Active(began[s])}
<1>1. /\ chat' = [s \in Sessions |-> IF s \in routed /\ ready[s] # 0
                                     THEN Fail(began[s]) ELSE began[s]]
      /\ ready' = [s \in Sessions |-> IF s \in routed /\ ready[s] = 0
                                      THEN began[s].attempt ELSE ready[s]]
      /\ turn' = DropTurn(idle \union routed)
      /\ cards' = DropCards(cards, idle \union routed)
      /\ log' = DropLog(log, idle \union routed)
      /\ pass' = IF first = {} THEN "keys" ELSE "events"
      /\ pass = "cards" /\ bound' = bound /\ channel' = channel /\ replies' = replies
      /\ inbox' = inbox /\ rules' = rules /\ file' = file /\ journal' = journal /\ count' = count
  BY DEF Sends
<1>2. \A s \in Sessions : /\ chat[s] \in Chats /\ SessionHolds(s) /\ ready[s] \in Nat
                          /\ Len(chat[s].queue) \in Nat /\ s \in Nat
  BY TypeFacts, ChatIs DEF IInv, StateTypeOK
<1>3. \A s \in first : s \in Sessions /\ chat[s].status = "complete" /\ chat[s].queue # <<>>
  BY DEF Queued
<1>4. first = {} => Queued = {}
  <2>1. Queued \subseteq Nat
    BY <1>2 DEF Queued
  <2>2. Queued # {} => \E x \in Queued : \A y \in Queued : x <= y
    BY <2>1, LeastOf
  <2> QED BY <2>2
<1>5. \A s \in Sessions : began[s] = IF s \in first THEN BeginQueued(chat[s]) ELSE chat[s]
  OBVIOUS
<1>6. \A s \in routed : s \in first
  OBVIOUS
<1>7. \A s \in Sessions : s \in idle <=> ~Active(began[s])
  OBVIOUS
<1>8. \A s \in Sessions : s \in routed <=> s \in first /\ Active(began[s])
  BY <1>3
<1> HIDE DEF first, began, idle, routed
<1>9. /\ \A s \in Sessions : chat'[s] = IF s \in routed /\ ready[s] # 0
                                        THEN Fail(began[s]) ELSE began[s]
      /\ \A s \in Sessions : ready'[s] = IF s \in routed /\ ready[s] = 0
                                         THEN began[s].attempt ELSE ready[s]
  BY <1>1
<1>10. ASSUME NEW s \in first
       PROVE  /\ Retells(chat[s], began[s])
              /\ \/ /\ began[s].status = "active" /\ began[s].attempt = chat[s].attempt + 1
                    /\ began[s].card = 0 /\ began[s].steps = {}
                    /\ began[s].turns = chat[s].turns + 1 /\ chat[s].turns < bound.turns
                    /\ Len(began[s].queue) = Len(chat[s].queue) - 1
                 \/ /\ began[s].status = "complete" /\ began[s].attempt = chat[s].attempt
                    /\ began[s].card = chat[s].card /\ began[s].steps = chat[s].steps
                    /\ began[s].turns = chat[s].turns /\ began[s].queue = <<>>
  <2>1. chat[s] \in Chats /\ chat[s].queue # <<>> /\ ~Active(chat[s])
        /\ chat[s].status = "complete" /\ began[s] = BeginQueued(chat[s])
    BY <1>2, <1>3, <1>5 DEF Active
  <2> QED BY <2>1, BeginQueuedIs
<1> DEFINE D == idle \union routed
<1>11. ASSUME NEW s \in D
       PROVE  /\ s \in Sessions /\ Renewed(chat[s], chat'[s])
              /\ ready'[s] \in {ready[s], chat'[s].attempt}
              /\ Pending(chat'[s]) = 0
  <2>1. s \in Sessions
    BY <1>3, <1>6 DEF idle
  <2>2. CASE s \in first /\ began[s].status = "active"
    <3>1. s \in routed
      BY <1>8, <2>1, <2>2 DEF Active
    <3>2. /\ Retells(chat[s], began[s]) /\ began[s].attempt = chat[s].attempt + 1
          /\ began[s].card = 0 /\ began[s].steps = {} /\ began[s].turns <= bound.turns
          /\ Len(began[s].queue) <= Len(chat[s].queue) /\ began[s] \in Chats
      <4>1. chat[s].turns \in Nat /\ bound.turns \in Nat
        BY <1>2, <2>1, ChatIs, TypeFacts DEF IInv
      <4> QED BY <1>2, <1>10, <2>1, <2>2, <4>1 DEF Retells
    <3>3. CASE ready[s] = 0
      <4>1. chat'[s] = began[s] /\ ready'[s] = began[s].attempt
        BY <1>9, <2>1, <3>1, <3>3
      <4> QED BY <2>1, <2>2, <3>2, <4>1 DEF Renewed, Pending
    <3>4. CASE ready[s] # 0
      <4>1. chat'[s] = Fail(began[s]) /\ ready'[s] = ready[s]
        BY <1>9, <2>1, <3>1, <3>4
      <4>2. /\ Retells(began[s], chat'[s]) /\ chat'[s].queue = <<>>
            /\ chat'[s].attempt = began[s].attempt /\ chat'[s].turns = began[s].turns
            /\ chat'[s].card = began[s].card /\ chat'[s].steps = began[s].steps
        BY <3>2, <4>1, FailIs
      <4>3. Retells(chat[s], chat'[s]) /\ Len(<<>>) <= Len(chat[s].queue)
        BY <1>2, <2>1, <3>2, <4>2 DEF Retells
      <4> QED BY <2>1, <3>2, <4>1, <4>2, <4>3 DEF Renewed, Pending
    <3> QED BY <3>3, <3>4
  <2>3. CASE s \in first /\ began[s].status # "active"
    <3>1. /\ Retells(chat[s], began[s]) /\ began[s].attempt = chat[s].attempt
          /\ began[s].card = chat[s].card /\ began[s].steps = chat[s].steps
          /\ began[s].turns = chat[s].turns /\ began[s].queue = <<>>
      BY <1>10, <2>3
    <3>2. chat'[s] = began[s] /\ ready'[s] = ready[s]
      BY <1>8, <1>9, <2>1, <2>3 DEF Active
    <3>3. Len(<<>>) <= Len(chat[s].queue) /\ chat[s].turns <= bound.turns
      BY <1>2, <2>1 DEF SessionHolds
    <3> QED BY <2>1, <2>3, <3>1, <3>2, <3>3 DEF Renewed, Active, Pending
  <2>4. CASE s \notin first
    <3>1. chat'[s] = chat[s] /\ ready'[s] = ready[s] /\ ~Active(chat[s])
      BY <1>5, <1>6, <1>7, <1>9, <2>1, <2>4 DEF D
    <3>2. /\ Retells(chat[s], chat[s]) /\ chat[s].turns <= bound.turns
          /\ Len(chat[s].queue) <= Len(chat[s].queue)
          /\ chat[s].queue # <<>> => chat[s].status \in {"active", "complete"}
      BY <1>2, <2>1 DEF SessionHolds, Retells
    <3> QED BY <2>1, <3>1, <3>2 DEF Renewed, Pending
  <2> QED BY <2>2, <2>3, <2>4
<1>12. ASSUME NEW s \in Sessions \ D
       PROVE  chat'[s] = chat[s] /\ ready'[s] = ready[s]
  <2>1. Active(began[s]) /\ s \notin first
    BY <1>7, <1>8, <1>12 DEF D
  <2> QED BY <1>5, <1>6, <1>9, <2>1
<1>13. ASSUME NEW s \in Sessions, pass' \in {"keys", "abort"}, chat'[s].queue # <<>>
       PROVE  Active(chat'[s])
  <2>1. first = {}
    BY <1>1, <1>13
  <2>2. Queued = {} /\ chat'[s] = chat[s]
    BY <1>4, <1>5, <1>6, <1>9, <2>1
  <2>3. chat[s].status \in {"active", "complete"}
    BY <1>2, <1>13, <2>2 DEF SessionHolds
  <2> QED BY <1>13, <2>2, <2>3 DEF Queued, Active
<1>14. PICK d \in SUBSET Sessions : d = D
  BY <1>11
<1>15. /\ cards' = DropCards(cards, d) /\ log' = DropLog(log, d) /\ turn' = DropTurn(d)
       /\ pass # "quit" /\ channel' = channel /\ replies' = replies
       /\ inbox' = inbox /\ bound' = bound /\ count' = count
  BY <1>1, <1>14 DEF D
<1> HIDE DEF D
<1>16. /\ \A s \in d : Renewed(chat[s], chat'[s]) /\ ready'[s] \in {ready[s], chat'[s].attempt}
       /\ \A s \in Sessions \ d : chat'[s] = chat[s] /\ ready'[s] = ready[s]
  BY <1>11, <1>12, <1>14
<1>17. Renews(d)
  BY <1>13, <1>15, <1>16 DEF Renews
<1>18. StateTypeOK'
  <2>1. chat' \in [Sessions -> Chats] /\ ready' \in [Sessions -> Nat]
    BY <1>1, <1>17, RenewTypes
  <2> QED BY <1>1, <1>17, <2>1, RenewTypes DEF IInv, StateTypeOK
<1>19. ShowHolds'
  <2>1. \A s \in Sessions : replies[s] = Pending(chat[s])
    BY <1>1 DEF IInv, ShowHolds
  <2>2. CASE first = {}
    <3>1. \A s \in Sessions : chat'[s] = chat[s]
      BY <1>5, <1>6, <1>9, <2>2
    <3> QED BY <1>1, <2>1, <2>2, <3>1 DEF ShowHolds, Pending, Active
  <2>3. CASE first # {}
    <3> SUFFICES ASSUME NEW s \in Sessions, Pending(chat'[s]) # 0
                 PROVE  replies[s] = Pending(chat'[s])
      BY <1>1, <2>3 DEF ShowHolds, Pending, Active
    <3>1. s \notin D
      BY <1>11
    <3> QED BY <1>12, <2>1, <3>1
  <2> QED BY <2>2, <2>3
<1> QED BY <1>15, <1>17, <1>18, <1>19, RenewMoves DEF IInv

-----------------------------------------------------------------------------
(* The other keys, and another program.  *)

LEMMA OnQuiet ==
    ASSUME IInv, Quiet
    PROVE  IInv'
<1>1. StateTypeOK'
  BY DEF Quiet, Next0, IInv, StateTypeOK
<1> QED BY <1>1, StillHolds DEF Quiet, Next0

LEMMA OnUndo ==
    ASSUME IInv, NEW s \in Sessions, Undo(s)
    PROVE  IInv'
<1>1. file' \in Int /\ journal' \in Journals
  <2>1. journal \in Journals /\ file \in Int
    BY DEF IInv, StateTypeOK, Journals
  <2>2. journal.pre \in Int /\ NoJournal \in Journals
    BY <2>1 DEF Journals, NoJournal
  <2>3. journal' = NoJournal /\ file' \in {file, journal.pre}
    BY DEF Undo
  <2> QED BY <2>1, <2>2, <2>3
<1>2. StateTypeOK'
  BY <1>1 DEF Undo, Next0, IInv, StateTypeOK, Journals
<1> QED BY <1>2, StillHolds DEF Undo, Next0

LEMMA OnForget ==
    ASSUME IInv, NEW s \in Sessions, Forget(s)
    PROVE  IInv'
<1>1. StateTypeOK'
  BY DEF Forget, Next0, IInv, StateTypeOK
<1> QED BY <1>1, StillHolds DEF Forget, Next0

LEMMA OnForeign ==
    ASSUME IInv, Foreign
    PROVE  IInv'
<1>1. /\ count \in [prompts : Nat, retries : Nat, turns : Nat, writes : Nat]
      /\ count' = [count EXCEPT !.writes = @ + 1] /\ file' = MaxCards + count.writes + 1
      /\ MaxCards \in Nat
  BY ChatAssumption DEF Foreign, IInv, StateTypeOK
<1>2. /\ count' \in [prompts : Nat, retries : Nat, turns : Nat, writes : Nat]
      /\ count'.prompts = count.prompts /\ file' \in Int
  <2>1. count.writes + 1 \in Nat
    BY <1>1
  <2> QED BY <1>1, <2>1
<1>3. StateTypeOK'
  BY <1>2 DEF Foreign, IInv, StateTypeOK
<1> QED BY <1>2, <1>3, StillHolds DEF Foreign

LEMMA LastIs ==
    ASSUME NEW x \in Seq(Nat), NEW n \in Nat
    PROVE  LET y == Append(x, n) IN
             /\ DOMAIN y = DOMAIN x \union {Len(x) + 1}
             /\ DOMAIN x = 1..Len(x) /\ Len(x) \in Nat
             /\ \A i \in DOMAIN x : y[i] = x[i]
             /\ y[Len(x) + 1] = n
OBVIOUS

\* What is typed is put behind everything else.
LEMMA TypedText ==
    ASSUME NEW s \in Sessions, TextsInOrder, count.prompts \in Nat,
           \A u \in Sessions : TextOf(chat[u]) \in Seq(Nat),
           count'.prompts = count.prompts + 1,
           TextOf(chat'[s]) = Append(TextOf(chat[s]), count.prompts + 1),
           \A u \in Sessions \ {s} : TextOf(chat'[u]) = TextOf(chat[u])
    PROVE  TextsInOrder'
<1> DEFINE n == count.prompts + 1
           old == TextsOf(chat)
           new == TextsOf(chat')
<1>1. \A u \in Sessions : old[u] = TextOf(chat[u]) /\ new[u] = TextOf(chat'[u])
  BY DEF TextsOf
<1>2. Told(old, count.prompts)
  BY TextsAre
<1>3. /\ \A u \in Sessions : old[u] \in Seq(Nat)
      /\ new[s] = Append(old[s], n) /\ \A u \in Sessions \ {s} : new[u] = old[u]
  BY <1>1
<1> HIDE DEF old, new
<1>4. \A u \in Sessions : \A i \in DOMAIN old[u] : old[u][i] \in 1..count.prompts
  <2> SUFFICES ASSUME NEW u \in Sessions, NEW i \in DOMAIN old[u]
               PROVE  old[u][i] \in 1..count.prompts
    OBVIOUS
  <2>1. old[u][i] \in ToSet(old[u])
    BY DEF ToSet
  <2> QED BY <1>2, <2>1 DEF Told
<1>5. /\ DOMAIN new[s] = DOMAIN old[s] \union {Len(old[s]) + 1}
      /\ DOMAIN old[s] = 1..Len(old[s]) /\ Len(old[s]) \in Nat
      /\ \A i \in DOMAIN old[s] : new[s][i] = old[s][i]
      /\ new[s][Len(old[s]) + 1] = n
  <2>1. PICK x : x = old[s]
    OBVIOUS
  <2>2. x \in Seq(Nat) /\ n \in Nat
    BY <1>3, <2>1
  <2>3. new[s] = Append(x, n)
    BY <1>3, <2>1
  <2> HIDE DEF n
  <2> QED BY <2>1, <2>2, <2>3, LastIs
<1>6. \A u \in Sessions : Ordered(new[u])
  <2> SUFFICES ASSUME NEW u \in Sessions PROVE Ordered(new[u])
    OBVIOUS
  <2>1. Ordered(old[u])
    BY <1>2 DEF Told
  <2>2. CASE u # s
    BY <1>3, <2>1, <2>2
  <2>3. CASE u = s
    <3> SUFFICES ASSUME NEW i \in DOMAIN new[s], NEW j \in DOMAIN new[s], i < j
                 PROVE  new[s][i] < new[s][j]
      BY <2>3 DEF Ordered
    <3>1. i \in DOMAIN old[s] /\ old[s][i] \in 1..count.prompts
      BY <1>4, <1>5
    <3>2. CASE j \in DOMAIN old[s]
      BY <1>5, <2>1, <2>3, <3>1, <3>2 DEF Ordered
    <3>3. CASE j = Len(old[s]) + 1
      <4>1. new[s][j] = n /\ new[s][i] = old[s][i]
        BY <1>5, <3>1, <3>3
      <4> QED BY <3>1, <4>1
    <3> QED BY <1>5, <3>2, <3>3
  <2> QED BY <2>2, <2>3
<1>7. ToSet(new[s]) = ToSet(old[s]) \union {n}
  BY <1>5 DEF ToSet
<1>8. UNION {ToSet(new[u]) : u \in Sessions}
        = (UNION {ToSet(old[u]) : u \in Sessions}) \union {n}
  <2>1. \A u \in Sessions \ {s} : ToSet(new[u]) = ToSet(old[u])
    BY <1>3
  <2> HIDE DEF n
  <2> QED BY <1>7, <2>1
<1>9. UNION {ToSet(new[u]) : u \in Sessions} = 1..n
  <2>1. UNION {ToSet(old[u]) : u \in Sessions} = 1..count.prompts
    BY <1>2 DEF Told
  <2>2. (1..count.prompts) \union {n} = 1..n
    OBVIOUS
  <2> QED BY <1>8, <2>1, <2>2
<1>10. Told(new, count'.prompts)
  BY <1>6, <1>9 DEF Told
<1> QED BY <1>10, TextsAre DEF new

LEMMA OnType ==
    ASSUME IInv, NEW s \in Sessions, Type(s)
    PROVE  IInv'
<1>1. /\ chat' = [chat EXCEPT ![s].draft = Append(@, count.prompts + 1)]
      /\ count' = [count EXCEPT !.prompts = @ + 1] /\ pass = "keys" /\ pass' = "events"
      /\ bound' = bound /\ ready' = ready /\ turn' = turn /\ cards' = cards /\ channel' = channel
      /\ replies' = replies /\ inbox' = inbox /\ rules' = rules /\ file' = file
      /\ journal' = journal /\ log' = log
  BY DEF Type, Next0
<1>2. /\ chat \in [Sessions -> Chats] /\ chat[s] \in Chats
      /\ count \in [prompts : Nat, retries : Nat, turns : Nat, writes : Nat]
      /\ count.prompts \in Nat /\ count.prompts + 1 \in Nat
  BY DEF IInv, StateTypeOK
<1> DEFINE d == Append(chat[s].draft, count.prompts + 1)
<1>3. chat[s].draft \in Seq(Nat) /\ d \in Seq(Nat)
  BY <1>2 DEF Chats
<1>4. chat'[s] = [chat[s] EXCEPT !.draft = d] /\ \A u \in Sessions \ {s} : chat'[u] = chat[u]
  BY <1>1, <1>2
<1> HIDE DEF d
<1>5. /\ chat'[s] \in Chats /\ chat'[s].draft = d /\ chat'[s].status = chat[s].status
      /\ chat'[s].attempt = chat[s].attempt /\ chat'[s].turns = chat[s].turns
      /\ chat'[s].sent = chat[s].sent /\ chat'[s].queue = chat[s].queue
      /\ chat'[s].card = chat[s].card /\ chat'[s].steps = chat[s].steps
  BY <1>2, <1>3, <1>4 DEF Chats
<1>6. \A u \in Sessions : /\ chat'[u].status = chat[u].status /\ chat'[u].card = chat[u].card
                          /\ chat'[u].attempt = chat[u].attempt /\ chat'[u].turns = chat[u].turns
                          /\ chat'[u].queue = chat[u].queue /\ chat'[u].steps = chat[u].steps
                          /\ chat[u] \in Chats /\ chat[u].attempt \in Nat /\ chat'[u] \in Chats
  BY <1>2, <1>4, <1>5, ChatIs
<1>7. StateTypeOK'
  <2>1. chat' \in [Sessions -> Chats]
    BY <1>1, <1>2, <1>6
  <2>2. count' \in [prompts : Nat, retries : Nat, turns : Nat, writes : Nat]
    BY <1>1, <1>2
  <2> QED BY <1>1, <2>1, <2>2 DEF IInv, StateTypeOK
<1>8. JobsStay
  <2>1. \A u \in Sessions : chat[u].attempt <= chat'[u].attempt
    BY <1>6
  <2>2. \A c \in Cards : Stale(c) => Over(c)
    BY <1>6, AttemptsAre DEF Stale, Awaits, Over, Active
  <2> QED BY <1>1, <2>1, <2>2 DEF JobsStay
<1>9. \A u \in Sessions : SessionHolds(u)'
  <2> SUFFICES ASSUME NEW u \in Sessions PROVE SessionHolds(u)'
    OBVIOUS
  <2>1. SessionHolds(u) /\ cards' = cards /\ ready' = ready /\ turn' = turn /\ bound' = bound
    BY <1>1 DEF IInv
  <2> QED BY <1>1, <1>6, <2>1 DEF SessionHolds, Owns, Cards, Active
<1>10. ShowHolds'
  BY <1>1, <1>6 DEF IInv, ShowHolds, Pending, Active
<1>11. TextsInOrder'
  <2>1. \A u \in Sessions : TextOf(chat[u]) \in Seq(Nat)
    <3> SUFFICES ASSUME NEW u \in Sessions PROVE TextOf(chat[u]) \in Seq(Nat)
      OBVIOUS
    <3>1. /\ chat[u].sent \in Seq(Nat) /\ chat[u].draft \in Seq(Nat)
          /\ Flat(chat[u].queue) \in Seq(Nat)
      BY <1>6, ChatIs DEF Texting
    <3> QED BY <3>1, ConcatProperties DEF TextOf
  <2>2. TextOf(chat'[s]) = Append(TextOf(chat[s]), count.prompts + 1)
    <3> DEFINE a == chat[s].sent \o Flat(chat[s].queue)
               b == chat[s].draft
               n == count.prompts + 1
    <3>1. a \in Seq(Nat) /\ b \in Seq(Nat) /\ n \in Nat
      <4>1. chat[s].sent \in Seq(Nat) /\ Flat(chat[s].queue) \in Seq(Nat)
        BY <1>2, ChatIs DEF Texting
      <4> QED BY <1>2, <1>3, <4>1, ConcatProperties
    <3>2. TextOf(chat'[s]) = a \o Append(b, n) /\ TextOf(chat[s]) = a \o b
      BY <1>5 DEF TextOf, d
    <3> HIDE DEF a, b, n
    <3>3. a \o Append(b, n) = Append(a \o b, n)
      BY <3>1
    <3> QED BY <3>2, <3>3 DEF n
  <2>3. \A u \in Sessions \ {s} : TextOf(chat'[u]) = TextOf(chat[u])
    BY <1>4
  <2>4. count'.prompts = count.prompts + 1
    BY <1>1, <1>2
  <2> QED BY <1>2, <2>1, <2>2, <2>3, <2>4, TypedText DEF IInv
<1> QED BY <1>7, <1>8, <1>9, <1>10, <1>11, StayMoves DEF IInv

LEMMA OnEnterQueues ==
    ASSUME IInv, NEW s \in Sessions, EnterQueues(s)
    PROVE  IInv'
<1>1. /\ chat' = [chat EXCEPT ![s] = QueueDraft(@)] /\ pass = "keys" /\ pass' = "events"
      /\ Active(chat[s]) /\ HasRoom(chat[s])
      /\ bound' = bound /\ ready' = ready /\ turn' = turn /\ cards' = cards /\ channel' = channel
      /\ replies' = replies /\ inbox' = inbox /\ rules' = rules /\ file' = file
      /\ journal' = journal /\ log' = log /\ count' = count
  BY DEF EnterQueues, Next0
<1>2. /\ chat \in [Sessions -> Chats] /\ chat[s] \in Chats
      /\ \A u \in Sessions : SessionHolds(u)
  BY DEF IInv, StateTypeOK
<1>3. chat'[s] = QueueDraft(chat[s]) /\ \A u \in Sessions \ {s} : chat'[u] = chat[u]
  BY <1>1, <1>2
<1>4. /\ chat'[s] \in Chats /\ TextOf(chat'[s]) = TextOf(chat[s])
      /\ chat'[s].status = chat[s].status /\ chat'[s].attempt = chat[s].attempt
      /\ chat'[s].turns = chat[s].turns /\ chat'[s].card = chat[s].card
      /\ chat'[s].steps = chat[s].steps /\ Len(chat'[s].queue) = Len(chat[s].queue) + 1
  BY <1>2, <1>3, QueueDraftIs DEF Retells
<1>5. \A u \in Sessions : /\ chat'[u].status = chat[u].status /\ chat'[u].card = chat[u].card
                          /\ chat'[u].attempt = chat[u].attempt
                          /\ chat'[u].turns = chat[u].turns /\ chat'[u].steps = chat[u].steps
                          /\ chat[u].attempt \in Nat /\ chat'[u] \in Chats
                          /\ TextOf(chat'[u]) = TextOf(chat[u])
  BY <1>2, <1>3, <1>4, ChatIs
<1>6. StateTypeOK'
  <2>1. chat' \in [Sessions -> Chats]
    BY <1>1, <1>2, <1>5
  <2> QED BY <1>1, <2>1 DEF IInv, StateTypeOK
<1>7. JobsStay
  <2>1. \A u \in Sessions : chat[u].attempt <= chat'[u].attempt
    BY <1>5
  <2>2. \A c \in Cards : Stale(c) => Over(c)
    BY <1>5, AttemptsAre DEF Stale, Awaits, Over, Active
  <2> QED BY <1>1, <2>1, <2>2 DEF JobsStay
<1>8. \A u \in Sessions : SessionHolds(u)'
  <2> SUFFICES ASSUME NEW u \in Sessions PROVE SessionHolds(u)'
    OBVIOUS
  <2>1. /\ Len(chat'[u].queue) <= MaxQueued
        /\ chat'[u].queue # <<>> => chat'[u].status \in {"active", "complete"}
    <3>1. CASE u = s
      <4>1. Len(chat[s].queue) < MaxQueued /\ Len(chat[s].queue) \in Nat /\ MaxQueued \in Nat
        BY <1>1, <1>2, ChatIs, ChatAssumption DEF HasRoom
      <4>2. chat'[s].status = "active"
        BY <1>1, <1>4 DEF Active
      <4> QED BY <1>4, <3>1, <4>1, <4>2
    <3>2. CASE u # s
      BY <1>2, <1>3, <3>2 DEF SessionHolds
    <3> QED BY <3>1, <3>2
  <2>2. SessionHolds(u)
    BY <1>2
  <2> QED BY <1>1, <1>5, <2>1, <2>2 DEF SessionHolds, Owns, Cards, Active
<1>9. ShowHolds'
  BY <1>1, <1>5 DEF IInv, ShowHolds, Pending, Active
<1>10. TextsInOrder'
  BY <1>1, <1>5, TextsKept DEF IInv
<1> QED BY <1>6, <1>7, <1>8, <1>9, <1>10, StayMoves DEF IInv

-----------------------------------------------------------------------------
(* A key on the card of a session.  *)

\* The card shown, which is the request that is held, has the owner's answer.
Answered(s, c, key) ==
    /\ Answer(s, key) /\ key \in Decisions
    /\ c = replies[s] /\ c = Pending(chat[s]) /\ c # 0

LEMMA AnswersHeld ==
    ASSUME IInv, NEW s \in Sessions, NEW key \in Decisions, Answer(s, key)
    PROVE  \E c : Answered(s, c, key)
<1>1. replies[s] = Pending(chat[s]) /\ Pending(chat[s]) # 0
  BY DEF Answer, Next0, IInv, ShowHolds
<1> QED BY <1>1 DEF Answered

LEMMA AnsweredIs ==
    ASSUME IInv, NEW s \in Sessions, NEW c, NEW key, Answered(s, c, key)
    PROVE  LET r == [cards[c] EXCEPT !.answer = key] IN
             /\ Becomes(c, r) /\ Asking(c) /\ cards[c].session = s /\ c \in Ids
             /\ cards[c] \in Requests /\ CardHolds(c)
             /\ r.session = s /\ r.attempt = cards[c].attempt /\ r.kind = cards[c].kind
             /\ r.asked = cards[c].asked /\ r.answer = key /\ r.ruled = cards[c].ruled
             /\ r.run = cards[c].run /\ r.wrote = cards[c].wrote
<1> DEFINE r == [cards[c] EXCEPT !.answer = key]
<1>1. c = replies[s] /\ c # 0 /\ cards' = [cards EXCEPT ![c].answer = key] /\ key \in Decisions
  BY DEF Answered, Answer
<1>2. Asking(c) /\ cards[c].session = s
  BY <1>1 DEF IInv, ReplyHolds
<1>3. c \in Cards /\ c \in Ids /\ cards[c] \in Requests /\ CardHolds(c)
  BY <1>2, TypeFacts DEF IInv, Asking
<1>4. /\ r \in Requests
      /\ r.session = s /\ r.attempt = cards[c].attempt /\ r.kind = cards[c].kind
      /\ r.asked = cards[c].asked /\ r.answer = key /\ r.ruled = cards[c].ruled
      /\ r.run = cards[c].run /\ r.wrote = cards[c].wrote
  BY <1>1, <1>2, <1>3 DEF Requests, Decisions
<1>5. cards' = [d \in Cards |-> IF d = c THEN r ELSE cards[d]]
  BY <1>1, <1>3 DEF Cards, Requests
<1> HIDE DEF r
<1>6. Becomes(c, r)
  BY <1>2, <1>3, <1>4, <1>5 DEF Becomes
<1> QED BY <1>2, <1>3, <1>4, <1>6 DEF r

LEMMA OnAnswered ==
    ASSUME IInv, NEW s \in Sessions, NEW c, NEW key, Answered(s, c, key)
    PROVE  IInv'
<1>0. PICK r : r = [cards[c] EXCEPT !.answer = key]
  OBVIOUS
<1>1. /\ Becomes(c, r) /\ Asking(c) /\ cards[c].session = s /\ c \in Ids /\ c \in Cards
      /\ cards[c] \in Requests /\ CardHolds(c) /\ cards[c].asked /\ cards[c].answer = "none"
      /\ r.session = s /\ r.attempt = cards[c].attempt /\ r.kind = cards[c].kind
      /\ r.asked = cards[c].asked /\ r.answer = key /\ r.ruled = cards[c].ruled
      /\ r.run = cards[c].run /\ r.wrote = cards[c].wrote
  BY <1>0, AnsweredIs DEF Asking
<1>2. /\ chat' = [chat EXCEPT ![s].card = 0] /\ replies' = [replies EXCEPT ![s] = 0]
      /\ pass = "keys" /\ pass' = "events" /\ key \in Decisions
      /\ bound' = bound /\ ready' = ready /\ turn' = turn /\ channel' = channel
      /\ inbox' = inbox /\ rules' = rules /\ file' = file /\ journal' = journal
      /\ log' = log /\ count' = count
      /\ c = replies[s] /\ c = Pending(chat[s]) /\ c # 0
  BY DEF Answered, Answer, Next0
<1>3. /\ cards' \in Seq(Requests) /\ Len(cards') = Len(cards) /\ Cards' = Cards
      /\ cards'[c] = r /\ \A d \in Cards \ {c} : cards'[d] = cards[d]
      /\ Kept
  BY <1>1, BecomesIs DEF IInv
<1>4. /\ chat \in [Sessions -> Chats] /\ replies \in [Sessions -> 0..MaxCards]
      /\ 0 \in 0..MaxCards /\ ChannelHolds
      /\ \A u \in Sessions : /\ chat[u] \in Chats /\ chat[u].attempt \in Nat
                             /\ ReplyHolds(u) /\ JobHolds(u) /\ SessionHolds(u)
  BY ChatIs, ChatAssumption DEF IInv, StateTypeOK
<1>5. chat'[s] = [chat[s] EXCEPT !.card = 0] /\ \A u \in Sessions \ {s} : chat'[u] = chat[u]
  BY <1>2, <1>4
<1>6. /\ chat'[s] \in Chats /\ TextOf(chat'[s]) = TextOf(chat[s]) /\ chat'[s].card = 0
      /\ chat'[s].status = chat[s].status /\ chat'[s].attempt = chat[s].attempt
      /\ chat'[s].turns = chat[s].turns /\ chat'[s].steps = chat[s].steps
      /\ chat'[s].queue = chat[s].queue
  BY <1>4, <1>5, NoCardIs DEF Retells
<1>7. \A u \in Sessions : /\ chat'[u].status = chat[u].status /\ chat'[u] \in Chats
                          /\ chat'[u].attempt = chat[u].attempt
                          /\ TextOf(chat'[u]) = TextOf(chat[u])
                          /\ replies'[u] = IF u = s THEN 0 ELSE replies[u]
  BY <1>2, <1>4, <1>5, <1>6
<1>8. StateTypeOK'
  <2>1. chat' \in [Sessions -> Chats] /\ replies' \in [Sessions -> 0..MaxCards]
    BY <1>2, <1>4, <1>7
  <2> QED BY <1>2, <1>3, <2>1 DEF IInv, StateTypeOK
<1>9. CardHolds(c)'
  <2>1. chat[s].card = c /\ Active(chat[s])
    BY <1>2 DEF Pending
  <2>2. cards[c].attempt = chat[s].attempt
    BY <1>2, <1>4, <2>1 DEF SessionHolds, Owns
  <2>3. ~Stale(c)
    BY <1>1, <2>1, <2>2 DEF Stale, Awaits
  <2>4. Waits(c)
    BY <1>1, <1>2, <2>3 DEF CardHolds
  <2>5. cards[c].run = "none"
    BY <1>1, <1>4, <2>4 DEF Waits, JobHolds
  <2>6. log[c] = <<>> /\ ~cards[c].wrote /\ ~cards[c].ruled
    BY <1>1, <2>5 DEF CardHolds, Requests
  <2>7. Waits(c)'
    BY <1>1, <1>2, <1>3, <2>4 DEF Waits
  <2>8. /\ cards'[c].session = s /\ cards'[c].attempt <= chat'[s].attempt
        /\ cards'[c].asked /\ cards'[c].answer = key /\ cards'[c].run = "none"
        /\ ~cards'[c].wrote /\ ~cards'[c].ruled /\ log'[c] = <<>>
    <3>1. cards'[c].attempt <= chat'[s].attempt
      BY <1>1, <1>3, <1>4, <1>6, <2>2
    <3>2. cards'[c].session = s /\ cards'[c].answer = key /\ cards'[c].run = "none"
      BY <1>1, <1>3, <2>5
    <3>3. cards'[c].asked /\ ~cards'[c].wrote /\ ~cards'[c].ruled
      BY <1>1, <1>3, <2>6
    <3> QED BY <1>2, <2>6, <3>1, <3>2, <3>3
  <2>9. key # "none" /\ key # "closed"
    BY <1>2 DEF Decisions
  <2> QED BY <1>2, <2>7, <2>8, <2>9 DEF CardHolds
<1>10. ASSUME NEW d \in Cards \ {c} PROVE CardHolds(d)'
  <2>1. PICK u \in Sessions : u = cards[d].session
    BY AttemptsAre
  <2>2. Around(d)
    <3>1. InHand(d) => (\E i \in DOMAIN channel' : channel'[i] = d) \/ replies'[u] = d
      BY <1>2, <1>7, <2>1, HandIs
    <3> QED BY <1>2, <1>4, <1>7, <2>1, <3>1 DEF Around, Active
  <2> QED BY <1>2, <1>3, <1>8, <2>2, CardStays DEF Cards
<1>11. \A d \in (Ids \ Cards)' : log'[d] = <<>>
  BY <1>2, <1>3 DEF IInv
<1>12. ChannelHolds'
  <2>1. ASSUME NEW i \in DOMAIN channel
        PROVE  Asking(channel[i])' /\ channel[i] # replies'[cards'[channel[i]].session]
    <3>1. PICK d : d = channel[i]
      OBVIOUS
    <3>2. Asking(d) /\ d # replies[cards[d].session]
      BY <1>4, <3>1 DEF ChannelHolds
    <3>3. d # c
      BY <1>1, <1>2, <3>2
    <3>4. d \in Cards' /\ cards'[d] = cards[d] /\ cards[d].session \in Sessions /\ d # 0
      BY <1>3, <3>2, <3>3, AttemptsAre, TypeFacts DEF Asking, IInv
    <3>5. d # replies'[cards[d].session]
      BY <1>7, <3>2, <3>4
    <3> QED BY <1>2, <3>1, <3>2, <3>4, <3>5 DEF Asking
  <2> QED BY <1>2, <1>4, <2>1 DEF ChannelHolds
<1>13. \A u \in Sessions : ReplyHolds(u)'
  <2> SUFFICES ASSUME NEW u \in Sessions, replies'[u] # 0
               PROVE  Asking(replies[u])' /\ cards'[replies'[u]].session = u
    BY DEF ReplyHolds
  <2>1. replies'[u] = replies[u] /\ u # s
    BY <1>7
  <2>2. Asking(replies[u]) /\ cards[replies[u]].session = u
    BY <1>4, <2>1 DEF ReplyHolds
  <2>3. replies[u] # c
    BY <1>1, <2>1, <2>2
  <2> QED BY <1>3, <2>1, <2>2, <2>3 DEF Asking
<1>14. \A u \in Sessions : JobHolds(u)'
  <2> SUFFICES ASSUME NEW u \in Sessions PROVE JobHolds(u)'
    OBVIOUS
  <2>1. \A d \in Cards : /\ cards'[d].session = cards[d].session
                         /\ cards'[d].attempt = cards[d].attempt
                         /\ cards'[d].asked = cards[d].asked
                         /\ cards'[d].ruled = cards[d].ruled /\ cards'[d].run = cards[d].run
    BY <1>1, <1>3
  <2>2. JobHolds(u)
    BY <1>4
  <2> QED BY <1>2, <1>3, <1>7, <2>1, <2>2 DEF JobHolds
<1>15. \A u \in Sessions : InboxHolds(u)'
  BY <1>2, <1>3, InboxSame
<1>16. ASSUME NEW u \in Sessions PROVE SessionHolds(u)'
  <2>1. SessionHolds(u)
    BY <1>4
  <2>2. CASE u # s
    BY <1>2, <1>3, <1>5, <2>1, <2>2, SessionStays
  <2>3. CASE u = s
    <3>1. \A d : Owns(s, chat[s].attempt, d) =>
            d \in Cards' /\ cards'[d].session = s /\ cards'[d].attempt = chat[s].attempt
      BY <1>3, OwnsStays DEF Cards
    <3> QED BY <1>2, <1>6, <2>1, <2>3, <3>1 DEF SessionHolds, Owns, Active
  <2> QED BY <2>2, <2>3
<1>17. ShowHolds'
  <2>1. \A u \in Sessions : replies[u] = Pending(chat[u])
    BY <1>2 DEF IInv, ShowHolds
  <2>2. Pending(chat'[s]) = 0
    BY <1>6 DEF Pending
  <2>3. \A u \in Sessions : Pending(chat'[u]) # 0 => replies'[u] = Pending(chat'[u])
    BY <1>5, <1>7, <2>1, <2>2
  <2> QED BY <1>2, <2>3 DEF ShowHolds, Pending, Active
<1>18. TextsInOrder'
  BY <1>2, <1>7, TextsKept DEF IInv
<1>19. \A d \in Cards' : CardHolds(d)'
  BY <1>3, <1>9, <1>10
<1> QED BY <1>8, <1>11, <1>12, <1>13, <1>14, <1>15, <1>16, <1>17, <1>18, <1>19 DEF IInv

LEMMA OnAnswer ==
    ASSUME IInv, NEW s \in Sessions, NEW key \in Decisions, Answer(s, key)
    PROVE  IInv'
BY AnswersHeld, OnAnswered

-----------------------------------------------------------------------------
(* The invariant holds at the start and is kept by every step.  *)

LEMMA InitHolds ==
    ASSUME Init
    PROVE  IInv
<1>1. /\ bound \in Scenarios /\ MaxCards \in Nat /\ MaxQueued \in Nat /\ bound.turns \in Nat
      /\ bound.steps \in Nat /\ Sessions \subseteq Nat /\ 0 \in 0..MaxCards
  BY ChatAssumption DEF Init
<1>2. \A s \in Sessions : /\ chat[s] = NewChat /\ ready[s] = 0 /\ turn[s] = Idle
                          /\ replies[s] = 0 /\ inbox[s] = <<>>
  BY DEF Init
<1>3. /\ cards = <<>> /\ channel = <<>> /\ \A c \in Ids : log[c] = <<>>
      /\ pass = "events" /\ count.prompts = 0
  BY DEF Init
<1>4. /\ NewChat.status = "ready" /\ NewChat.attempt = 0 /\ NewChat.turns = 0
      /\ NewChat.sent = <<>> /\ NewChat.queue = <<>> /\ NewChat.draft = <<>>
      /\ NewChat.card = 0 /\ NewChat.steps = {} /\ NewChat \in Chats
  BY <1>1 DEF NewChat, Chats
<1>5. Idle.card = 0 /\ Idle.pc = "none" /\ Idle.attempt = 0 /\ Idle.rounds = 0 /\ Idle \in Jobs
  BY IdleIs
<1>6. Cards = {} /\ Len(cards) = 0 /\ DOMAIN channel = {}
  BY <1>3 DEF Cards
<1>7. StateTypeOK
  <2>1. chat \in [Sessions -> Chats] /\ ready \in [Sessions -> Nat] /\ turn \in [Sessions -> Jobs]
    BY <1>4, <1>5 DEF Init
  <2>2. /\ cards \in Seq(Requests) /\ Len(cards) <= MaxCards /\ channel \in Seq(Ids)
        /\ replies \in [Sessions -> 0..MaxCards] /\ inbox \in [Sessions -> Seq(Updates)]
    BY <1>1, <1>3, <1>6 DEF Init
  <2>3. /\ rules \subseteq {"edit", "shell"} /\ file \in Int /\ log \in [Ids -> Seq(Outcomes)]
        /\ journal \in [turn : Nat, pre : Int, after : Int, whole : BOOLEAN]
        /\ count \in [prompts : Nat, retries : Nat, turns : Nat, writes : Nat]
    BY DEF Init, NoJournal
  <2> QED BY <1>1, <1>3, <2>1, <2>2, <2>3 DEF StateTypeOK
<1>8. ChannelHolds
  BY <1>6 DEF ChannelHolds
<1>9. ASSUME NEW s \in Sessions PROVE ReplyHolds(s) /\ JobHolds(s) /\ InboxHolds(s)
  <2>1. ReplyHolds(s)
    BY <1>2 DEF ReplyHolds
  <2>2. JobHolds(s)
    BY <1>1, <1>2, <1>4, <1>5 DEF JobHolds
  <2>3. InboxHolds(s)
    BY <1>2 DEF InboxHolds
  <2> QED BY <2>1, <2>2, <2>3
<1>10. ASSUME NEW s \in Sessions PROVE SessionHolds(s)
  BY <1>1, <1>2, <1>3, <1>4 DEF SessionHolds
<1>11. ShowHolds
  BY <1>2, <1>3, <1>4 DEF ShowHolds, Pending, Active
<1>12. TextsInOrder
  <2>1. ASSUME NEW s \in Sessions PROVE TextOf(chat[s]) = <<>>
    BY <1>2, <1>4, FlatEmpty DEF TextOf
  <2>2. \A s \in Sessions : TextsOf(chat)[s] = <<>>
    BY <2>1 DEF TextsOf
  <2>3. \A s \in Sessions : ToSet(TextsOf(chat)[s]) = {} /\ Ordered(TextsOf(chat)[s])
    BY <2>2 DEF ToSet, Ordered
  <2>4. UNION {ToSet(TextsOf(chat)[s]) : s \in Sessions} = 1..count.prompts
    <3>1. UNION {ToSet(TextsOf(chat)[s]) : s \in Sessions} = {}
      BY <2>3
    <3>2. 1..0 = {}
      OBVIOUS
    <3> QED BY <1>3, <3>1, <3>2
  <2> QED BY <2>3, <2>4, TextsAre DEF Told
<1> QED BY <1>3, <1>6, <1>7, <1>8, <1>9, <1>10, <1>11, <1>12 DEF IInv

LEMMA TurnKeeps ==
    ASSUME IInv, NEW s \in Sessions, Turn(s)
    PROVE  IInv'
<1>1. CASE TurnBegins(s)
  BY <1>1, OnTurnBegins
<1>2. CASE Answers(s)
  BY <1>2, OnAnswers
<1>3. CASE Ruled(s)
  BY <1>3, OnRuled
<1>4. CASE Asks(s)
  BY <1>4, OnAsks
<1>5. CASE Dropped(s)
  BY <1>5, OnDropped
<1>6. CASE Decided(s)
  BY <1>6, OnDecided
<1>7. CASE Returns(s)
  BY <1>7, OnReturns
<1>8. ASSUME NEW kind \in bound.kinds, Calls(s, kind) PROVE IInv'
  <2>1. kind \in {"edit", "shell"}
    BY TypeFacts DEF IInv
  <2> QED BY <1>8, <2>1, OnCalls
<1> QED BY <1>1, <1>2, <1>3, <1>4, <1>5, <1>6, <1>7, <1>8 DEF Turn

LEMMA PoolKeeps ==
    ASSUME IInv, NEW c \in Cards, Pool(c)
    PROVE  IInv'
BY OnRefused, OnCaptures, OnChecks, OnWrites, OnWriteFails, OnApplied, OnStarts, OnCompletes,
   OnKilled DEF Pool

LEMMA KeysKeep ==
    ASSUME IInv, NEW s \in Sessions, Keys(s)
    PROVE  IInv'
<1>1. CASE Type(s)
  BY <1>1, OnType
<1>2. CASE EnterSends(s)
  BY <1>2, OnEnterSends
<1>3. CASE EnterQueues(s)
  BY <1>3, OnEnterQueues
<1>4. CASE Retry(s)
  BY <1>4, OnRetry
<1>5. CASE EscapesCard(s)
  BY <1>5, OnEscapesCard
<1>6. CASE Escapes(s)
  BY <1>6, OnEscapes
<1>7. CASE Undo(s)
  BY <1>7, OnUndo
<1>8. CASE Forget(s)
  BY <1>8, OnForget
<1>9. ASSUME NEW key \in bound.keys, Answer(s, key) PROVE IInv'
  <2>1. key \in Decisions
    BY TypeFacts DEF IInv, Decisions
  <2> QED BY <1>9, <2>1, OnAnswer
<1> QED BY <1>1, <1>2, <1>3, <1>4, <1>5, <1>6, <1>7, <1>8, <1>9 DEF Keys

LEMMA Inductive ==
    ASSUME IInv, [Next]_vars
    PROVE  IInv'
<1>1. bound.sessions \subseteq Sessions
  BY TypeFacts DEF IInv
<1>2. ASSUME NEW s \in bound.sessions, Launch(s) \/ Turn(s) \/ Keys(s) PROVE IInv'
  BY <1>1, <1>2, OnLaunch, TurnKeeps, KeysKeep
<1>3. ASSUME NEW c \in DOMAIN cards, Pool(c) PROVE IInv'
  BY <1>3, PoolKeeps DEF Cards
<1>4. CASE Events
  BY <1>4, OnEvents
<1>5. CASE Receive
  BY <1>5, OnReceive
<1>6. CASE Sends
  BY <1>6, OnSends
<1>7. CASE Quiet
  BY <1>7, OnQuiet
<1>8. CASE Quit
  BY <1>8, OnQuit
<1>9. CASE Foreign
  BY <1>9, OnForeign
<1>10. CASE UNCHANGED vars
  <2>1. /\ UNCHANGED <<bound, chat, ready, turn, cards, channel, replies, inbox, log>>
        /\ rules' = rules /\ file' = file /\ journal' = journal /\ pass' = pass
        /\ count' = count
    BY <1>10 DEF vars
  <2>2. StateTypeOK'
    BY <2>1 DEF IInv, StateTypeOK
  <2> QED BY <2>1, <2>2, StillHolds
<1> QED BY <1>2, <1>3, <1>4, <1>5, <1>6, <1>7, <1>8, <1>9, <1>10 DEF Next

-----------------------------------------------------------------------------
(* What it says of the cards, and of the transcript.  *)

LEMMA OneEntry ==
    /\ Len(<<>>) = 0
    /\ \A o : Len(<<o>>) = 1 /\ <<o>> # <<>>
    /\ \A o, p : <<o>> = <<p>> => o = p
<1>1. ASSUME NEW o PROVE Len(<<o>>) = 1 /\ <<o>> # <<>> /\ <<o>>[1] = o
  <2>1. Len(<<o>>) = 1 /\ Len(<<>>) = 0 /\ <<o>>[1] = o
    OBVIOUS
  <2> QED BY <2>1
<1>2. ASSUME NEW o, NEW p, <<o>> = <<p>> PROVE o = p
  BY <1>1, <1>2
<1> QED BY <1>1, <1>2

LEMMA CardsFollow ==
    ASSUME IInv
    PROVE  CardsHold
<1>1. KeyAnswersCardShown
  BY DEF IInv, ShowHolds, KeyAnswersCardShown
<1>2. ASSUME NEW c \in Ids PROVE Len(log[c]) <= 1
  <2>1. CASE c \notin Cards
    BY <2>1 DEF IInv
  <2>2. CASE c \in Cards
    <3>1. CardHolds(c) /\ cards[c] \in Requests
      BY <2>2, TypeFacts DEF IInv
    <3>2. log[c] = <<>> \/ \E outcome \in Outcomes : log[c] = <<outcome>>
      <4>1. cards[c].answer \in {"none", "closed"} \union Decisions
        BY <3>1 DEF Requests, Decisions
      <4> QED BY <3>1, <4>1 DEF CardHolds, Outcomes
    <3>3. CASE log[c] = <<>>
      BY <3>3, OneEntry
    <3>4. ASSUME NEW o, log[c] = <<o>> PROVE Len(log[c]) <= 1
      BY <3>4, OneEntry
    <3> QED BY <3>2, <3>3, <3>4
  <2> QED BY <2>1, <2>2, OneEntry
<1>3. ASSUME pass # "quit", NEW c \in Cards, cards[c].asked \/ cards[c].ruled, ~Held(c)
      PROVE  log[c] # <<>>
  <2>1. CardHolds(c) /\ cards[c] \in Requests /\ cards[c].session \in Sessions
    BY TypeFacts DEF IInv
  <2>2. ~InHand(c) /\ ~Waits(c) /\ cards[c].run \in {"none", "ended"}
    BY <1>3, <2>1 DEF Held, InHand, Waits
  <2>3. CASE cards[c].run = "ended"
    BY <2>1, <2>3, OneEntry DEF CardHolds
  <2>4. CASE cards[c].run = "none"
    <3>1. cards[c].asked /\ cards[c].answer # "none"
      BY <1>3, <2>1, <2>2, <2>4 DEF CardHolds
    <3>2. cards[c].answer = "closed" \/ cards[c].answer \in Decisions
      BY <2>1, <3>1 DEF Requests, Decisions
    <3>3. log[c] \in {<<"cancelled">>, <<"failed">>, <<"denied">>}
      BY <2>1, <2>2, <2>4, <3>2 DEF CardHolds
    <3> QED BY <3>3, OneEntry
  <2> QED BY <2>2, <2>3, <2>4
<1>4. ASSUME NEW c \in Cards
      PROVE  /\ log[c] = <<"applied">> => cards[c].wrote
             /\ cards[c].kind = "edit" /\ log[c] # <<>> /\ log[c] # <<"applied">>
                  => ~cards[c].wrote
             /\ log[c] = <<"denied">> => ~cards[c].wrote
             /\ cards[c].wrote => cards[c].ruled \/ cards[c].answer \in {"yes", "always"}
  <2>1. CardHolds(c) /\ cards[c] \in Requests
    BY TypeFacts DEF IInv
  <2>2. cards[c].wrote => cards[c].ruled \/ cards[c].answer \in {"yes", "always"}
    BY <2>1 DEF CardHolds, Approved
  <2>3. CASE cards[c].run = "none"
    <3>1. cards[c].answer \in {"none", "closed"} \union Decisions
      BY <2>1 DEF Requests, Decisions
    <3>2. ~cards[c].wrote /\ log[c] \in {<<>>, <<"cancelled">>, <<"failed">>, <<"denied">>}
      BY <2>1, <2>3, <3>1 DEF CardHolds
    <3>3. log[c] # <<"applied">>
      BY <3>2, OneEntry
    <3> QED BY <3>2, <3>3
  <2>4. CASE cards[c].run = "ended"
    BY <2>1, <2>2, <2>4 DEF CardHolds
  <2>5. CASE cards[c].run \notin {"none", "ended"}
    <3>1. log[c] = <<>>
      BY <2>1, <2>5 DEF CardHolds
    <3> QED BY <2>2, <3>1, OneEntry
  <2> QED BY <2>3, <2>4, <2>5
<1> QED BY <1>1, <1>2, <1>3, <1>4 DEF CardsHold, OneOutcome, NoCardForgotten, LogTellsTruth

LEMMA TranscriptFollows ==
    ASSUME IInv
    PROVE  TranscriptHolds
<1>1. StateTypeOK /\ TextsInOrder
  BY DEF IInv
<1>2. TypeOK
  <2>1. ASSUME NEW s \in Sessions
        PROVE  /\ chat[s].status \in {"ready", "active", "complete", "failed", "cancelled"}
               /\ chat[s].turns \in 0..bound.turns
               /\ Len(chat[s].queue) \in 0..MaxQueued
               /\ {ready[s], turn[s].attempt} \subseteq 0..chat[s].attempt
               /\ turn[s].pc \in {"none", "start", "round", "card", "waiting", "running"}
               /\ turn[s].rounds \in 0..bound.steps
               /\ {replies[s], chat[s].card, turn[s].card} \subseteq Cards \union {0}
    <3>1. chat[s] \in Chats /\ turn[s] \in Jobs /\ ready[s] \in Nat
      BY <1>1 DEF StateTypeOK
    <3>2. SessionHolds(s) /\ JobHolds(s) /\ ReplyHolds(s)
      BY DEF IInv
    <3>3. /\ bound.turns \in Nat /\ bound.steps \in Nat /\ MaxQueued \in Nat
      BY <1>1, TypeFacts
    <3>4. /\ chat[s].status \in {"ready", "active", "complete", "failed", "cancelled"}
          /\ chat[s].turns \in 0..bound.turns
          /\ Len(chat[s].queue) \in 0..MaxQueued
      BY <3>1, <3>2, <3>3, ChatIs DEF SessionHolds
    <3>5. /\ turn[s].attempt \in Nat /\ turn[s].rounds \in Nat
          /\ turn[s].pc \in {"none", "start", "round", "card", "waiting", "running"}
      BY <3>1 DEF Jobs
    <3>6. /\ {ready[s], turn[s].attempt} \subseteq 0..chat[s].attempt
          /\ turn[s].rounds \in 0..bound.steps
      BY <3>1, <3>2, <3>3, <3>5, ChatIs DEF SessionHolds, JobHolds
    <3>7. {replies[s], chat[s].card, turn[s].card} \subseteq Cards \union {0}
      BY <3>2, <3>5 DEF SessionHolds, JobHolds, ReplyHolds, Owns, Asking
    <3> QED BY <3>4, <3>5, <3>6, <3>7
  <2>2. ASSUME NEW c \in Cards
        PROVE  /\ cards[c].run \in {"none", "spawned", "captured", "checked", "written",
                                    "running", "ended"}
               /\ cards[c].answer \in {"none", "yes", "always", "no", "closed"}
    <3>1. cards[c] \in Requests
      BY <1>1, TypeFacts
    <3> QED BY <3>1 DEF Requests
  <2>3. ToSet(channel) \subseteq Cards
    BY DEF IInv, ChannelHolds, ToSet, Asking
  <2>4. \A c \in Ids : ToSet(log[c]) \subseteq Outcomes
    <3> SUFFICES ASSUME NEW c \in Ids PROVE ToSet(log[c]) \subseteq Outcomes
      OBVIOUS
    <3>1. log[c] \in Seq(Outcomes)
      BY <1>1 DEF StateTypeOK
    <3> QED BY <3>1 DEF ToSet
  <2> QED BY <1>1, <2>1, <2>2, <2>3, <2>4 DEF TypeOK, StateTypeOK
<1>3. StepsAreOwn
  BY DEF IInv, SessionHolds, StepsAreOwn, Owns
<1> QED BY <1>1, <1>2, <1>3 DEF TranscriptHolds

\* A key answers the card on show, and every card put to the owner or run under
\* a rule has one outcome in the log, or somebody who will log it, whatever
\* closes it: the owner, the terminal, the dropped job or the thread.
THEOREM CardsTrue == Spec => []CardsHold
<1>1. Init => IInv
  BY InitHolds
<1>2. IInv /\ [Next]_vars => IInv'
  BY Inductive
<1>3. IInv => CardsHold
  BY CardsFollow
<1> QED BY <1>1, <1>2, <1>3, PTL DEF Spec

\* The prompts of a session stay complete and in the order they were typed, and
\* a reply shows only results of its own attempt.
THEOREM TranscriptTrue == Spec => []TranscriptHolds
<1>1. Init => IInv
  BY InitHolds
<1>2. IInv /\ [Next]_vars => IInv'
  BY Inductive
<1>3. IInv => TranscriptHolds
  BY TranscriptFollows
<1> QED BY <1>1, <1>2, <1>3, PTL DEF Spec

===============================================================================
