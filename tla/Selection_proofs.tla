--------------------------- MODULE Selection_proofs ---------------------------
(***************************************************************************)
(* Proofs about opening and switching work, for any number of terminals,   *)
(* repositories, missions, requests and faults.                            *)
(***************************************************************************)
EXTENDS Selection, FiniteSetTheorems, TLAPS

-----------------------------------------------------------------------------
(* Histories.  A conversation is written again and again, by whoever owns   *)
(* it; what was once in its file stays there, unless its user clears it.    *)

\* The choice i of leaving this conversation is recorded.
Known(S, i) == \E e \in S : e.id = i /\ ~e.arrival

Arrives(S) == \E e \in S : e.arrival

\* T keeps the choices of S, and an arrival if S has one.
Retains(S, T) ==
    /\ \A e \in S : ~e.arrival => Known(T, e.id)
    /\ Arrives(S) => Arrives(T)

\* The choice i is recorded, or was cleared.
Told(c, S, i) == Known(S, i) \/ i \in c.choices

\* The place p was arrived at, or was cleared.
Entered(c, p, S) == Arrives(S) \/ p \in c.places

\* T keeps of S, the conversation of the place p, what was not cleared.
RetainsBut(c, p, S, T) ==
    /\ \A e \in S : ~e.arrival => Told(c, T, e.id)
    /\ Arrives(S) => Entered(c, p, T)

\* Nobody goes on with this request.
Ended(i) == \A t \in Terminals : term[t].id = i => term[t].step = "settle"

\* What an entry says stays true.
TrueEntry(e) ==
    /\ e \in Entries /\ e.id \in DOMAIN asked
    /\ e.shown.kind = "refused" => effects[e.id] = {} /\ e.id \notin handed /\ Ended(e.id)
    /\ e.shown.kind = "at" =>
         /\ e.shown.failed => e.id \notin handed /\ Ended(e.id)
         /\ e.shown.phase = Selected => e.id \in handed

\* It tells how a selection ended, or that this is unknown.
Settled(e) ==
    /\ e.shown.kind # "pending"
    /\ e.shown.kind = "at" /\ ~e.shown.failed => e.shown.phase \in Final

-----------------------------------------------------------------------------
(* The invariant.  *)

Terms == [step : Steps, at : Places \cup {Nobody}, target : Places \cup {Nobody},
          id : 0..MaxRequests, phase : Phases, app : SUBSET Entries, next : SUBSET Entries,
          bg : SUBSET Entries, busy : BOOLEAN, pick : Picks]

StateTypeOK ==
    /\ repo \in [Repos -> {"absent", "made", "init", "ready"}]
    /\ mission \in [Places -> BOOLEAN]
    /\ owner \in [Places -> Terminals \cup {Nobody}]
    /\ saved \in [Places -> SUBSET Entries]
    /\ journal \in [Ids -> Records]
    /\ asked \in Seq(Requests) /\ Len(asked) <= MaxRequests
    /\ term \in [Terminals -> Terms]
    /\ faults \in Nat
    /\ effects \in [Ids -> SUBSET {"repository", "mission"}]
    /\ handed \subseteq Ids
    /\ cleared \in [choices : SUBSET Ids, places : SUBSET Places]

Resting == {"out", "picking", "idle"}
Announcing == {"saving", "admit", "begin"}
Preparing == {"current", "repository", "initialise", "repository-done", "mission",
              "mission-done", "open"}
Entering == {"loaded", "source", "target", "prepared", "handoff"}
Leaving == {"leave", "arrive"}

\* A terminal holds the locks of its two workstations and no other.
OwnerHolds(t) ==
    LET r == term[t] IN
      /\ r.at # Nobody => owner[r.at] = t
      /\ r.target # Nobody => owner[r.target] = t /\ r.target # r.at
      /\ \A p \in Places : owner[p] = t => p \in {r.at, r.target}
      /\ r.step \in Entering => r.target = Target(t)
      /\ r.step = "leave" => r.target # Nobody
      /\ r.step \notin Entering \cup Leaving => r.target = Nobody
      /\ r.step = "out" => r.at = Nobody
      /\ r.step \in {"idle", "saving", "current", "source", "settle"} \cup Leaving =>
            r.at # Nobody
      /\ r.busy => r.step \in {"idle", "picking", "saving"} /\ r.at # Nobody

\* A request is carried out from the place it was made at.
RequestHolds(t) ==
    /\ term[t].step \in Resting <=> term[t].id = 0
    /\ term[t].id <= Len(asked)
    /\ term[t].step \in Announcing \cup Preparing \cup Entering \cup {"failing"} =>
          Request(t).from = term[t].at

BoundedHistory(S) == IsFiniteSet(S) /\ Cardinality(S) <= MaxHistory

HistoryHolds(t) ==
    /\ BoundedHistory(term[t].app) /\ IsFiniteSet(term[t].next) /\ IsFiniteSet(term[t].bg)
    /\ term[t].step \in Entering \ {"loaded"} => BoundedHistory(term[t].next)

\* A terminal's copies keep what is saved of the conversations it owns.
CopiesHold(t) ==
    LET r == term[t] IN
      /\ r.at # Nobody => RetainsBut(cleared, r.at, saved[r.at], r.app)
      /\ r.busy => /\ RetainsBut(cleared, r.at, saved[r.at], r.bg)
                   /\ RetainsBut(cleared, r.at, r.bg, r.app)
      /\ r.target # Nobody => RetainsBut(cleared, r.target, saved[r.target], r.next)

EntriesHold(t) == \A e \in term[t].app \cup term[t].next \cup term[t].bg : TrueEntry(e)

\* Only the entries of the request under way are unsettled.
ShownHolds(t) ==
    LET r == term[t] IN
      /\ r.step \in Resting \cup Leaving \cup {"settle"} => \A e \in r.app : Settled(e)
      /\ \A e \in r.app : Settled(e) \/ (e.id = r.id /\ ~e.arrival)
      /\ r.step \in Entering => \A e \in r.next : Settled(e) \/ (e.id = r.id /\ e.arrival)

NewRecord == [phase |-> Admitted, failed |-> FALSE, dispatched |-> FALSE]

\* What a phase promises.
PhaseHolds(i, phase) ==
    /\ phase \in RepositoryReady..Selected /\ asked[i].create => "repository" \in effects[i]
    /\ phase \in MissionReady..Selected => mission[asked[i].to]
    /\ phase \in {HandoffPrepared, Selected} =>
         Entered(cleared, asked[i].to, saved[asked[i].to])

\* What is true at a step of a request.
StepHolds(t) ==
    LET r == term[t]  i == term[t].id IN
      /\ r.step = "saving" => Known(r.app, i)
      /\ r.step \in {"saving", "admit"} => journal[i] = NoRecord
      /\ r.step = "begin" => journal[i] = NewRecord
      /\ r.step \in Announcing => r.phase = Admitted
      /\ r.step \in {"admit", "begin"} /\ r.at # Nobody => Told(cleared, saved[r.at], i)
      /\ r.step \in Preparing \cup Entering \cup {"failing"} =>
            /\ journal[i].dispatched /\ i \notin handed
            /\ PhaseHolds(i, r.phase) /\ r.phase \in Admitted..HandoffPrepared
      /\ r.step \in {"initialise", "repository-done"} /\ Request(t).create =>
            "repository" \in effects[i]
      /\ r.step \in {"mission", "mission-done"} => PhaseHolds(i, RepositoryReady)
      /\ r.step = "mission-done" => mission[Target(t)]
      /\ r.step = "open" \/ r.step \in Entering => PhaseHolds(i, MissionReady)
      /\ r.step \in {"source", "target"} => Arrives(r.next)
      /\ r.step \in {"prepared", "handoff"} => Arrives(saved[Target(t)])

TerminalHolds(t) ==
    /\ OwnerHolds(t) /\ RequestHolds(t) /\ HistoryHolds(t) /\ CopiesHold(t)
    /\ EntriesHold(t) /\ ShownHolds(t) /\ StepHolds(t)

RecordHolds(i) ==
    LET record == journal[i] IN
      /\ ~record.dispatched =>
           record \in {NoRecord, NewRecord} /\ effects[i] = {} /\ i \notin handed
      /\ record.dispatched =>
           /\ i \in DOMAIN asked
           /\ asked[i].from # Nobody => Told(cleared, saved[asked[i].from], i)
           /\ record.failed => i \notin handed /\ Ended(i)
           /\ record.phase = Selected => i \in handed
           /\ PhaseHolds(i, record.phase)
      /\ i \notin DOMAIN asked => record = NoRecord

FileHolds(p) == IsFiniteSet(saved[p]) /\ \A e \in saved[p] : TrueEntry(e)

IInv ==
    /\ StateTypeOK
    /\ \A t \in Terminals : TerminalHolds(t)
    /\ \A t, u \in Terminals : term[t].id = term[u].id /\ term[t].id # 0 => t = u
    /\ \A i \in Ids : RecordHolds(i)
    /\ \A p \in Places : FileHolds(p)

-----------------------------------------------------------------------------
(* Histories.  *)

LEMMA RetainsSame == \A S : Retains(S, S)
BY DEF Retains, Known

LEMMA RetainsMore == \A S, T : Retains(S, S \cup T)
BY DEF Retains, Known, Arrives

\* What was not cleared goes from one set to the next.
LEMMA RetainsAll == \A c, p, S, T : Retains(S, T) => RetainsBut(c, p, S, T)
BY DEF Retains, RetainsBut, Told, Entered

LEMMA RetainsThrough ==
    \A c, p, S, T, U :
        RetainsBut(c, p, S, T) /\ RetainsBut(c, p, T, U) => RetainsBut(c, p, S, U)
BY DEF RetainsBut, Told, Entered, Known, Arrives

\* More is cleared.
LEMMA RetainsLater ==
    \A c, d, p, S, T :
        /\ RetainsBut(c, p, S, T)
        /\ c.choices \subseteq d.choices /\ (p \in c.places => p \in d.places)
        => RetainsBut(d, p, S, T)
BY DEF RetainsBut, Told, Entered

\* An image is no larger than the set.
LEMMA ImageBounded ==
    ASSUME NEW S, NEW T, NEW f \in [S -> T], IsFiniteSet(S), \A y \in T : \E x \in S : f[x] = y
    PROVE  IsFiniteSet(T) /\ Cardinality(T) <= Cardinality(S)
<1>1. f \in Surjection(S, T)
  BY DEF Surjection
<1> QED BY <1>1, FS_Surjection

LEMMA ShownIs ==
    /\ \A phase \in Phases, failed \in BOOLEAN :
         /\ At(phase, failed) \in Shown /\ At(phase, failed).kind = "at"
         /\ At(phase, failed).phase = phase /\ At(phase, failed).failed = failed
    /\ \A kind \in {"pending", "refused", "unknown"} :
         Says(kind) \in Shown /\ Says(kind).kind = kind
BY DEF At, Says, Shown

\* What is left of the entries, and the one that says something else.
Marked(S, M, i, arrival, shown) ==
    /\ M \in SUBSET Entries /\ Retains(S, M)
    /\ IsFiniteSet(S) => IsFiniteSet(M)
    /\ BoundedHistory(S) => BoundedHistory(M)
    /\ \A e \in M : \/ e \in S /\ ~(e.id = i /\ e.arrival = arrival)
                    \/ e.id = i /\ e.arrival = arrival /\ e.shown = shown /\ i \in Ids

LEMMA MarkIs ==
    ASSUME NEW S \in SUBSET Entries, NEW i, NEW arrival \in BOOLEAN, NEW shown \in Shown
    PROVE  Marked(S, Mark(S, i, arrival, shown), i, arrival, shown)
<1> DEFINE M == Mark(S, i, arrival, shown)
           f == [e \in S |-> IF e.id = i /\ e.arrival = arrival
                             THEN [e EXCEPT !.shown = shown] ELSE e]
<1>1. \A e \in S :
        /\ f[e] \in M /\ f[e] \in Entries /\ f[e].id = e.id /\ f[e].arrival = e.arrival
        /\ \/ f[e] = e /\ ~(e.id = i /\ e.arrival = arrival)
           \/ e.id = i /\ e.arrival = arrival /\ f[e].shown = shown
  BY DEF Mark, Entries
<1>2. \A y \in M : \E e \in S : f[e] = y
  BY DEF Mark
<1> HIDE DEF M
<1>3. M \in SUBSET Entries
  BY <1>1, <1>2
<1>4. f \in [S -> M]
  BY <1>1
<1>5. \A e \in S : e.id \in Ids
  BY DEF Entries
<1>6. Retains(S, M)
  BY <1>1 DEF Retains, Known, Arrives
<1>7. IsFiniteSet(S) => IsFiniteSet(M) /\ Cardinality(M) <= Cardinality(S)
  BY <1>2, <1>4, ImageBounded
<1>8. BoundedHistory(S) => BoundedHistory(M)
  <2> SUFFICES ASSUME BoundedHistory(S) PROVE BoundedHistory(M)
    OBVIOUS
  <2>1. IsFiniteSet(M) /\ Cardinality(M) <= Cardinality(S) /\ Cardinality(S) <= MaxHistory
    BY <1>7 DEF BoundedHistory
  <2>2. Cardinality(M) \in Nat /\ Cardinality(S) \in Nat
    BY <2>1, FS_CardinalityType DEF BoundedHistory
  <2> QED BY <2>1, <2>2, SelectionAssumption DEF BoundedHistory
<1>9. \A e \in M : \/ e \in S /\ ~(e.id = i /\ e.arrival = arrival)
                   \/ e.id = i /\ e.arrival = arrival /\ e.shown = shown /\ i \in Ids
  <2> SUFFICES ASSUME NEW y \in M
               PROVE  \/ y \in S /\ ~(y.id = i /\ y.arrival = arrival)
                      \/ y.id = i /\ y.arrival = arrival /\ y.shown = shown /\ i \in Ids
    OBVIOUS
  <2>1. PICK e \in S : f[e] = y
    BY <1>2
  <2> HIDE DEF f
  <2> QED BY <1>1, <1>5, <2>1
<1> QED BY <1>3, <1>6, <1>7, <1>8, <1>9 DEF M, Marked

LEMMA TypeFacts ==
    ASSUME StateTypeOK
    PROVE  /\ \A t \in Terminals : term[t] \in Terms
           /\ \A i \in Ids : journal[i] \in Records
           /\ \A i \in DOMAIN asked : asked[i] \in Requests
           /\ DOMAIN asked = 1..Len(asked) /\ Len(asked) \in Nat /\ DOMAIN asked \subseteq Ids
           /\ \A p \in Places : saved[p] \in SUBSET Entries
           /\ MaxRequests \in Nat /\ MaxHistory \in Nat /\ Nobody \notin Places
           /\ Nobody \notin Terminals
<1>1. MaxRequests \in Nat /\ MaxHistory \in Nat /\ Nobody \notin Places /\ Nobody \notin Terminals
  BY SelectionAssumption
<1>2. /\ \A i \in DOMAIN asked : asked[i] \in Requests
      /\ DOMAIN asked = 1..Len(asked) /\ Len(asked) \in Nat /\ DOMAIN asked \subseteq Ids
  BY <1>1 DEF StateTypeOK, Ids
<1>3. /\ \A t \in Terminals : term[t] \in Terms
      /\ \A i \in Ids : journal[i] \in Records
      /\ \A p \in Places : saved[p] \in SUBSET Entries
  BY DEF StateTypeOK
<1> QED BY <1>1, <1>2, <1>3

\* The entries of a conversation that was read, each with what the journal says.
Restored(S, T) ==
    /\ T \in SUBSET Entries /\ Retains(S, T) /\ (IsFiniteSet(S) => IsFiniteSet(T))
    /\ \A e \in T :
         /\ \E d \in S : d.id = e.id
         /\ \/ e.shown = Says("unknown")
            \/ LET record == journal[e.id] IN
                 /\ record # NoRecord /\ (record.failed \/ record.phase \in Final)
                 /\ e.shown = At(record.phase, record.failed)

LEMMA ReconciledIs ==
    ASSUME StateTypeOK, NEW S \in SUBSET Entries, NEW readable \in BOOLEAN
    PROVE  Restored(S, {Reconciled(e, readable) : e \in S})
<1> DEFINE T == {Reconciled(e, readable) : e \in S}
           f == [e \in S |-> Reconciled(e, readable)]
<1>1. \A e \in S :
        LET record == journal[e.id] IN
        /\ f[e] \in Entries /\ f[e].id = e.id /\ f[e].arrival = e.arrival
        /\ \/ f[e].shown = Says("unknown")
           \/ /\ record # NoRecord /\ (record.failed \/ record.phase \in Final)
              /\ f[e].shown = At(record.phase, record.failed)
  <2> SUFFICES ASSUME NEW e \in S
               PROVE  LET record == journal[e.id] IN
                      /\ Reconciled(e, readable) \in Entries /\ Reconciled(e, readable).id = e.id
                      /\ Reconciled(e, readable).arrival = e.arrival
                      /\ \/ Reconciled(e, readable).shown = Says("unknown")
                         \/ /\ record # NoRecord /\ (record.failed \/ record.phase \in Final)
                            /\ Reconciled(e, readable).shown = At(record.phase, record.failed)
    OBVIOUS
  <2>1. e \in Entries /\ e.id \in Ids
    BY DEF Entries
  <2>2. journal[e.id] \in Records
    BY <2>1, TypeFacts
  <2>3. /\ journal[e.id].phase \in Phases /\ journal[e.id].failed \in BOOLEAN
    BY <2>2 DEF Records
  <2>4. /\ At(journal[e.id].phase, journal[e.id].failed) \in Shown /\ Says("unknown") \in Shown
    BY <2>3, ShownIs
  <2>5. \A shown \in Shown : /\ [e EXCEPT !.shown = shown] \in Entries
                             /\ [e EXCEPT !.shown = shown].id = e.id
                             /\ [e EXCEPT !.shown = shown].arrival = e.arrival
                             /\ [e EXCEPT !.shown = shown].shown = shown
    BY <2>1 DEF Entries
  <2> QED BY <2>4, <2>5 DEF Reconciled
<1>2. f \in [S -> T] /\ \A y \in T : \E e \in S : f[e] = y
  OBVIOUS
<1>3. \A e \in S : f[e] \in T
  OBVIOUS
<1> HIDE DEF f, T
<1>4. T \in SUBSET Entries
  BY <1>1, <1>2
<1>5. Retains(S, T)
  BY <1>1, <1>3 DEF Retains, Known, Arrives
<1>6. IsFiniteSet(S) => IsFiniteSet(T)
  BY <1>2, ImageBounded
<1>7. \A y \in T :
         /\ \E d \in S : d.id = y.id
         /\ \/ y.shown = Says("unknown")
            \/ LET record == journal[y.id] IN
                 /\ record # NoRecord /\ (record.failed \/ record.phase \in Final)
                 /\ y.shown = At(record.phase, record.failed)
  <2> SUFFICES ASSUME NEW y \in T
               PROVE  /\ \E d \in S : d.id = y.id
                      /\ \/ y.shown = Says("unknown")
                         \/ LET record == journal[y.id] IN
                              /\ record # NoRecord /\ (record.failed \/ record.phase \in Final)
                              /\ y.shown = At(record.phase, record.failed)
    OBVIOUS
  <2>1. PICK e \in S : f[e] = y
    BY <1>2
  <2> QED BY <1>1, <2>1
<1> QED BY <1>4, <1>5, <1>6, <1>7 DEF Restored, T

-----------------------------------------------------------------------------
(* What one terminal does, the others find as they left it.  *)

Frame(t) ==
    LET r == term[t] IN
      /\ StateTypeOK'
      /\ \A u \in Terminals : u # t => term'[u] = term[u]
      /\ \A p \in Places, u \in Terminals : u # t => (owner'[p] = u <=> owner[p] = u)
      /\ \A p \in Places : \/ saved'[p] = saved[p]
                           \/ p = r.at /\ saved'[p] = r.app
                           \/ p = r.at /\ r.busy /\ saved'[p] = r.bg
                           \/ p = r.target /\ saved'[p] = r.next
      /\ cleared.choices \subseteq cleared'.choices
      /\ \A p \in cleared.places \ cleared'.places :
            p = r.target /\ saved'[p] = r.next /\ Arrives(r.next)
      /\ \A p \in Places : mission[p] => mission'[p]
      /\ \/ asked' = asked /\ term'[t].id \in {r.id, 0}
         \/ /\ r.id = 0 /\ term'[t].id = Len(asked) + 1
            /\ \E q \in Requests : asked' = Append(asked, q)
      /\ \A i \in Ids :
           /\ i # r.id => /\ journal'[i] = journal[i] /\ effects'[i] = effects[i]
                          /\ i \in handed' <=> i \in handed
           /\ effects[i] \subseteq effects'[i]
           /\ i \in handed => i \in handed'
      /\ r.step = "settle" => /\ term'[t].id = 0
                              /\ effects' = effects /\ handed' = handed

LEMMA FilesRetained ==
    ASSUME IInv, NEW t \in Terminals, Frame(t), NEW p \in Places
    PROVE  /\ \A i : Told(cleared, saved[p], i) => Told(cleared', saved'[p], i)
           /\ Entered(cleared, p, saved[p]) => Entered(cleared', p, saved'[p])
<1>1. CopiesHold(t) /\ p # Nobody
  BY TypeFacts DEF IInv, TerminalHolds
<1>2. saved'[p] = saved[p] \/ RetainsBut(cleared, p, saved[p], saved'[p])
  BY <1>1 DEF CopiesHold, Frame
<1>3. /\ cleared.choices \subseteq cleared'.choices
      /\ p \in cleared.places => Entered(cleared', p, saved'[p])
  BY DEF Frame, Entered
<1>4. \A i : Told(cleared, saved[p], i) => Told(cleared', saved'[p], i)
  BY <1>2, <1>3 DEF RetainsBut, Told, Known
<1>5. Entered(cleared, p, saved[p]) => Entered(cleared', p, saved'[p])
  BY <1>2, <1>3 DEF RetainsBut, Entered
<1> QED BY <1>4, <1>5

LEMMA AskedKept ==
    ASSUME IInv, NEW t \in Terminals, Frame(t), NEW i \in DOMAIN asked
    PROVE  i \in DOMAIN asked' /\ asked'[i] = asked[i] /\ i \in Ids /\ i # 0 /\ i # Len(asked) + 1
<1>1. asked \in Seq(Requests) /\ i \in 1..Len(asked) /\ Len(asked) \in Nat /\ i \in Ids
  BY TypeFacts DEF IInv, StateTypeOK
<1>2. CASE asked' = asked
  BY <1>1, <1>2
<1>3. CASE \E q \in Requests : asked' = Append(asked, q)
  BY <1>1, <1>3
<1> QED BY <1>2, <1>3 DEF Frame

LEMMA StaysEnded ==
    ASSUME IInv, NEW t \in Terminals, Frame(t), NEW i \in DOMAIN asked, Ended(i)
    PROVE  Ended(i)'
<1>1. i # 0 /\ i # Len(asked) + 1
  BY AskedKept
<1>2. ASSUME NEW u \in Terminals, term'[u].id = i PROVE term'[u].step = "settle"
  <2>1. CASE u # t
    BY <1>2, <2>1 DEF Frame, Ended
  <2>2. CASE u = t
    <3>1. term[t].id = i
      BY <1>1, <1>2, <2>2 DEF Frame
    <3>2. term[t].step = "settle"
      BY <3>1 DEF Ended
    <3> QED BY <1>1, <1>2, <2>2, <3>2 DEF Frame
  <2> QED BY <2>1, <2>2
<1> QED BY <1>2 DEF Ended

\* A request that has ended has its effects behind it.
LEMMA EndedIsQuiet ==
    ASSUME IInv, NEW t \in Terminals, Frame(t), NEW i \in DOMAIN asked, Ended(i)
    PROVE  effects'[i] = effects[i] /\ (i \in handed' <=> i \in handed)
<1>1. i \in Ids
  BY AskedKept
<1>2. CASE i = term[t].id
  BY <1>2 DEF Ended, Frame
<1>3. CASE i # term[t].id
  BY <1>1, <1>3 DEF Frame
<1> QED BY <1>2, <1>3

LEMMA StaysTrue ==
    ASSUME IInv, NEW t \in Terminals, Frame(t), NEW e, TrueEntry(e)
    PROVE  TrueEntry(e)'
<1>1. e \in Entries /\ e.id \in DOMAIN asked /\ e.id \in DOMAIN asked' /\ e.id \in Ids
  BY AskedKept DEF TrueEntry
<1>2. Ended(e.id) => /\ Ended(e.id)' /\ effects'[e.id] = effects[e.id]
                     /\ e.id \in handed' <=> e.id \in handed
  BY <1>1, StaysEnded, EndedIsQuiet
<1>3. e.id \in handed => e.id \in handed'
  BY <1>1 DEF Frame
<1> QED BY <1>1, <1>2, <1>3 DEF TrueEntry

LEMMA PromisesStay ==
    ASSUME IInv, NEW t \in Terminals, Frame(t), NEW i \in DOMAIN asked
    PROVE  /\ asked'[i] = asked[i] /\ asked[i].to \in Places
           /\ "repository" \in effects[i] => "repository" \in effects'[i]
           /\ mission[asked[i].to] => mission'[asked[i].to]
           /\ Entered(cleared, asked[i].to, saved[asked[i].to]) =>
                Entered(cleared', asked[i].to, saved'[asked[i].to])
<1>1. asked'[i] = asked[i] /\ i \in Ids /\ asked[i].to \in Places
  BY AskedKept, TypeFacts DEF IInv, Requests
<1>2. Entered(cleared, asked[i].to, saved[asked[i].to]) =>
         Entered(cleared', asked[i].to, saved'[asked[i].to])
  BY <1>1, FilesRetained
<1>3. /\ effects[i] \subseteq effects'[i]
      /\ mission[asked[i].to] => mission'[asked[i].to]
  BY <1>1 DEF Frame
<1> QED BY <1>1, <1>2, <1>3

LEMMA RecordStays ==
    ASSUME IInv, NEW t \in Terminals, Frame(t), NEW i \in Ids,
           journal'[i] = journal[i], i \in handed' <=> i \in handed,
           ~journal[i].dispatched => effects'[i] = effects[i]
    PROVE  RecordHolds(i)'
<1>0. RecordHolds(i)
  BY DEF IInv
<1>1. CASE i \in DOMAIN asked
  <2>1. i \in DOMAIN asked' /\ asked'[i] = asked[i]
    BY <1>1, AskedKept
  <2>2. asked[i].from \in Places \cup {Nobody}
    BY <1>1, TypeFacts DEF IInv, Requests
  <2>3. asked[i].from # Nobody /\ Told(cleared, saved[asked[i].from], i) =>
           Told(cleared', saved'[asked[i].from], i)
    BY <2>2, FilesRetained
  <2>4. Ended(i) => Ended(i)'
    BY <1>1, StaysEnded
  <2>5. PhaseHolds(i, journal[i].phase) => PhaseHolds(i, journal[i].phase)'
    BY <1>1, PromisesStay DEF PhaseHolds
  <2> QED BY <1>0, <2>1, <2>3, <2>4, <2>5 DEF RecordHolds
<1>2. CASE i \notin DOMAIN asked
  BY <1>0, <1>2 DEF RecordHolds, NoRecord
<1> QED BY <1>1, <1>2

LEMMA OtherHolds ==
    ASSUME IInv, NEW t \in Terminals, Frame(t), NEW u \in Terminals, u # t
    PROVE  TerminalHolds(u)'
<1> DEFINE r == term[u]
<1>0. /\ TerminalHolds(u) /\ term'[u] = r /\ r \in Terms
      /\ r.at \in Places \cup {Nobody} /\ r.target \in Places \cup {Nobody}
      /\ r.id \in 0..Len(asked) /\ asked \in Seq(Requests) /\ StateTypeOK
      /\ Nobody \notin Terminals
  BY TypeFacts DEF IInv, TerminalHolds, RequestHolds, Frame, Terms, StateTypeOK
<1>1. r.id # 0 => /\ r.id \in DOMAIN asked /\ asked'[r.id] = asked[r.id] /\ r.id \in Ids
                  /\ r.id # term[t].id
  <2> SUFFICES ASSUME r.id # 0
               PROVE  /\ r.id \in DOMAIN asked /\ asked'[r.id] = asked[r.id] /\ r.id \in Ids
                      /\ r.id # term[t].id
    OBVIOUS
  <2>1. r.id \in DOMAIN asked
    BY <1>0, TypeFacts
  <2> QED BY <2>1, AskedKept DEF IInv
<1>2. r.id # 0 =>
        /\ journal'[r.id] = journal[r.id] /\ effects'[r.id] = effects[r.id]
        /\ r.id \in handed' <=> r.id \in handed
        /\ Request(u)' = Request(u) /\ Target(u)' = Target(u) /\ Target(u) \in Places
  <2> SUFFICES ASSUME r.id # 0
               PROVE  /\ journal'[r.id] = journal[r.id] /\ effects'[r.id] = effects[r.id]
                      /\ r.id \in handed' <=> r.id \in handed
                      /\ Request(u)' = Request(u) /\ Target(u)' = Target(u)
                      /\ Target(u) \in Places
    OBVIOUS
  <2>1. /\ journal'[r.id] = journal[r.id] /\ effects'[r.id] = effects[r.id]
        /\ r.id \in handed' <=> r.id \in handed
    BY <1>1 DEF Frame
  <2>2. Request(u)' = Request(u) /\ Target(u)' = Target(u) /\ Target(u) \in Places
    BY <1>0, <1>1, TypeFacts DEF Request, Target, Requests
  <2> QED BY <2>1, <2>2
<1>3. ASSUME NEW p \in Places
      PROVE  /\ owner'[p] = u <=> owner[p] = u
             /\ owner[p] = u => /\ saved'[p] = saved[p]
                                /\ p \in cleared.places => p \in cleared'.places
  <2>1. owner'[p] = u <=> owner[p] = u
    BY DEF Frame
  <2>2. OwnerHolds(t) /\ Nobody \notin Places
    BY TypeFacts DEF IInv, TerminalHolds
  <2>3. owner[p] = u => p # term[t].at /\ p # term[t].target
    BY <2>2 DEF OwnerHolds
  <2> QED BY <2>1, <2>3 DEF Frame
<1>4. r.step \notin Resting => r.id # 0
  BY <1>0 DEF TerminalHolds, RequestHolds
<1> HIDE DEF r
<1>5. OwnerHolds(u)'
  <2>1. OwnerHolds(u)
    BY <1>0 DEF TerminalHolds
  <2>2. \A p \in Places : owner'[p] = u <=> owner[p] = u
    BY <1>3
  <2>3. r.step \in Entering => Target(u)' = Target(u)
    BY <1>2, <1>4 DEF Entering, Resting
  <2> QED BY <1>0, <2>1, <2>2, <2>3 DEF OwnerHolds, r
<1>6. RequestHolds(u)'
  <2>1. RequestHolds(u)
    BY <1>0 DEF TerminalHolds
  <2>2. r.step \notin Resting => Request(u)' = Request(u)
    BY <1>2, <1>4
  <2>3. r.id <= Len(asked')
    BY <1>0 DEF Frame
  <2> QED BY <1>0, <2>1, <2>2, <2>3
          DEF RequestHolds, r, Resting, Announcing, Preparing, Entering
<1>7. HistoryHolds(u)'
  <2>1. HistoryHolds(u) /\ term'[u] = term[u]
    BY <1>0 DEF TerminalHolds, r
  <2> QED BY <2>1 DEF HistoryHolds
<1>8. CopiesHold(u)'
  <2>1. CopiesHold(u) /\ OwnerHolds(u)
    BY <1>0 DEF TerminalHolds
  <2>2. /\ r.at # Nobody => /\ saved'[r.at] = saved[r.at]
                            /\ r.at \in cleared.places => r.at \in cleared'.places
        /\ r.target # Nobody => /\ saved'[r.target] = saved[r.target]
                                /\ r.target \in cleared.places => r.target \in cleared'.places
    BY <1>0, <1>3, <2>1 DEF OwnerHolds, r
  <2>3. r.busy => r.at # Nobody
    BY <2>1 DEF OwnerHolds, r
  <2>4. cleared.choices \subseteq cleared'.choices
    BY DEF Frame
  <2>5. /\ r.at # Nobody => RetainsBut(cleared', r.at, saved'[r.at], r.app)
        /\ r.busy => /\ RetainsBut(cleared', r.at, saved'[r.at], r.bg)
                     /\ RetainsBut(cleared', r.at, r.bg, r.app)
        /\ r.target # Nobody => RetainsBut(cleared', r.target, saved'[r.target], r.next)
    BY <2>1, <2>2, <2>3, <2>4, RetainsLater DEF CopiesHold, r
  <2> QED BY <1>0, <2>5 DEF CopiesHold
<1>9. EntriesHold(u)'
  <2>1. EntriesHold(u)
    BY <1>0 DEF TerminalHolds
  <2>2. ASSUME NEW e \in r.app \cup r.next \cup r.bg PROVE TrueEntry(e)'
    <3>1. TrueEntry(e)
      BY <2>1, <2>2 DEF EntriesHold, r
    <3> QED BY <3>1, StaysTrue
  <2> QED BY <1>0, <2>2 DEF EntriesHold
<1>10. ShownHolds(u)'
  <2>1. ShownHolds(u) /\ term'[u] = term[u]
    BY <1>0 DEF TerminalHolds, r
  <2> QED BY <2>1 DEF ShownHolds
<1>11. StepHolds(u)'
  <2>1. StepHolds(u)
    BY <1>0 DEF TerminalHolds
  <2>2. CASE r.step \in Resting
    BY <1>0, <2>2 DEF StepHolds, Resting, Announcing, Preparing, Entering
  <2>3. CASE r.step \notin Resting
    <3> DEFINE i == r.id
    <3>1. /\ journal'[i] = journal[i] /\ effects'[i] = effects[i]
          /\ i \in handed' <=> i \in handed
          /\ Request(u)' = Request(u) /\ Target(u)' = Target(u) /\ Target(u) \in Places
      BY <1>2, <1>4, <2>3
    <3>2. /\ mission[Target(u)] => mission'[Target(u)]
          /\ r.step \in Entering => saved'[Target(u)] = saved[Target(u)]
      <4>1. r.step \in Entering => owner[Target(u)] = u
        BY <1>0, <3>1, SelectionAssumption DEF TerminalHolds, OwnerHolds, r
      <4> QED BY <1>3, <3>1, <4>1 DEF Frame
    <3>3. r.at # Nobody /\ Told(cleared, saved[r.at], i) => Told(cleared', saved'[r.at], i)
      BY <1>0, FilesRetained
    <3>4. /\ PhaseHolds(term[u].id, term[u].phase) => PhaseHolds(term[u].id, term[u].phase)'
          /\ PhaseHolds(term[u].id, RepositoryReady) => PhaseHolds(term[u].id, RepositoryReady)'
          /\ PhaseHolds(term[u].id, MissionReady) => PhaseHolds(term[u].id, MissionReady)'
      <4>1. i \in DOMAIN asked
        BY <1>1, <1>4, <2>3
      <4> QED BY <1>0, <4>1, PromisesStay DEF PhaseHolds, r
    <3>5. /\ term'[u].id = i /\ term'[u].step = r.step /\ term'[u].phase = r.phase
          /\ term'[u].at = r.at /\ term'[u].app = r.app /\ term'[u].next = r.next
      BY <1>0
    <3>6. /\ r.step = "saving" => Known(r.app, i)
          /\ r.step \in {"saving", "admit"} => journal'[i] = NoRecord
          /\ r.step = "begin" => journal'[i] = NewRecord
          /\ r.step \in Announcing => r.phase = Admitted
          /\ r.step \in {"admit", "begin"} /\ r.at # Nobody =>
               Told(cleared', saved'[r.at], i)
      BY <2>1, <3>1, <3>3 DEF StepHolds, r, i
    <3>7. /\ r.step \in Preparing \cup Entering \cup {"failing"} =>
               /\ journal'[i].dispatched /\ i \notin handed'
               /\ PhaseHolds(term[u].id, term[u].phase)'
               /\ r.phase \in Admitted..HandoffPrepared
          /\ r.step \in {"initialise", "repository-done"} /\ Request(u)'.create =>
               "repository" \in effects'[i]
          /\ r.step \in {"mission", "mission-done"} =>
               PhaseHolds(term[u].id, RepositoryReady)'
          /\ r.step = "mission-done" => mission'[Target(u)']
          /\ r.step = "open" \/ r.step \in Entering => PhaseHolds(term[u].id, MissionReady)'
          /\ r.step \in {"source", "target"} => Arrives(r.next)
          /\ r.step \in {"prepared", "handoff"} => Arrives(saved'[Target(u)'])
      <4>1. /\ r.step \in Preparing \cup Entering \cup {"failing"} =>
                 /\ journal[i].dispatched /\ i \notin handed
                 /\ PhaseHolds(term[u].id, term[u].phase)
                 /\ r.phase \in Admitted..HandoffPrepared
            /\ r.step \in {"initialise", "repository-done"} /\ Request(u).create =>
                 "repository" \in effects[i]
            /\ r.step \in {"mission", "mission-done"} =>
                 PhaseHolds(term[u].id, RepositoryReady)
            /\ r.step = "mission-done" => mission[Target(u)]
            /\ r.step = "open" \/ r.step \in Entering =>
                 PhaseHolds(term[u].id, MissionReady)
            /\ r.step \in {"source", "target"} => Arrives(r.next)
            /\ r.step \in {"prepared", "handoff"} => Arrives(saved[Target(u)])
        BY <2>1 DEF StepHolds, r, i
      <4>2. {"prepared", "handoff"} \subseteq Entering
        BY DEF Entering
      <4> QED BY <3>1, <3>2, <3>4, <4>1, <4>2
    <3> QED BY <3>5, <3>6, <3>7 DEF StepHolds, i, r
  <2> QED BY <2>2, <2>3
<1> QED BY <1>5, <1>6, <1>7, <1>8, <1>9, <1>10, <1>11 DEF TerminalHolds

LEMMA FileStays ==
    ASSUME IInv, NEW t \in Terminals, Frame(t), NEW p \in Places
    PROVE  FileHolds(p)'
<1>1. /\ FileHolds(p) /\ HistoryHolds(t) /\ EntriesHold(t)
  BY DEF IInv, TerminalHolds
<1>2. IsFiniteSet(saved'[p])
  BY <1>1 DEF Frame, FileHolds, HistoryHolds, BoundedHistory
<1>3. \A e \in saved'[p] : TrueEntry(e)
  BY <1>1 DEF Frame, FileHolds, EntriesHold
<1>4. \A e \in saved'[p] : TrueEntry(e)'
  BY <1>3, StaysTrue
<1> QED BY <1>2, <1>4 DEF FileHolds

LEMMA OneEach ==
    ASSUME IInv, NEW t \in Terminals, Frame(t), NEW u \in Terminals, NEW v \in Terminals,
           term'[u].id = term'[v].id, term'[u].id # 0
    PROVE  u = v
<1>1. /\ term[u].id \in 0..Len(asked) /\ term[v].id \in 0..Len(asked) /\ Len(asked) \in Nat
  BY TypeFacts DEF IInv, TerminalHolds, RequestHolds, Terms
<1>2. CASE u # t /\ v # t
  BY <1>2 DEF Frame, IInv
<1>3. CASE u = t /\ v # t
  <2>1. term'[v].id = term[v].id
    BY <1>3 DEF Frame
  <2> QED BY <1>1, <1>3, <2>1 DEF Frame, IInv
<1>4. CASE u # t /\ v = t
  <2>1. term'[u].id = term[u].id
    BY <1>4 DEF Frame
  <2> QED BY <1>1, <1>4, <2>1 DEF Frame, IInv
<1> QED BY <1>2, <1>3, <1>4


LEMMA Suffices ==
    ASSUME IInv, NEW t \in Terminals, Frame(t), TerminalHolds(t)',
           \A i \in Ids : i = term[t].id => RecordHolds(i)'
    PROVE  IInv'
<1>1. \A u \in Terminals : TerminalHolds(u)'
  BY OtherHolds
<1>2. \A i \in Ids : RecordHolds(i)'
  <2> SUFFICES ASSUME NEW i \in Ids, i # term[t].id PROVE RecordHolds(i)'
    OBVIOUS
  <2>1. /\ journal'[i] = journal[i] /\ effects'[i] = effects[i]
        /\ i \in handed' <=> i \in handed
    BY DEF Frame
  <2> QED BY <2>1, RecordStays
<1>3. \A p \in Places : FileHolds(p)'
  BY FileStays
<1>4. \A u, v \in Terminals : term'[u].id = term'[v].id /\ term'[u].id # 0 => u = v
  BY OneEach
<1> QED BY <1>1, <1>2, <1>3, <1>4 DEF IInv, Frame

-----------------------------------------------------------------------------
(* The parts of a step.  *)

Moves(t) ==
    /\ term' \in [Terminals -> Terms]
    /\ \A u \in Terminals : u # t => term'[u] = term[u]
    /\ term'[t].id \in {term[t].id, 0}
    /\ term[t].step = "settle" => term'[t].id = 0

Publishes(t) ==
    /\ journal' \in [Ids -> Records]
    /\ \A i \in Ids : i # term[t].id => journal'[i] = journal[i]

Saves(t) ==
    /\ saved' \in [Places -> SUBSET Entries]
    /\ \A p \in Places : \/ saved'[p] = saved[p]
                         \/ p = term[t].at /\ saved'[p] = term[t].app
                         \/ p = term[t].at /\ term[t].busy /\ saved'[p] = term[t].bg
                         \/ p = term[t].target /\ saved'[p] = term[t].next

Yields(t) ==
    /\ owner' \in [Places -> Terminals \cup {Nobody}]
    /\ \A p \in Places, u \in Terminals : u # t => (owner'[p] = u <=> owner[p] = u)

\* The target that is saved with an arrival was cleared before.
Clears(t) ==
    /\ cleared' \in [choices : SUBSET Ids, places : SUBSET Places]
    /\ cleared.choices \subseteq cleared'.choices
    /\ \A p \in cleared.places \ cleared'.places :
          p = term[t].target /\ saved'[p] = term[t].next /\ Arrives(term[t].next)

LEMMA FrameIs ==
    ASSUME IInv, NEW t \in Terminals, Moves(t), Publishes(t), Saves(t), Yields(t), Clears(t),
           repo' \in [Repos -> {"absent", "made", "init", "ready"}],
           mission' \in [Places -> BOOLEAN], \A p \in Places : mission[p] => mission'[p],
           asked' = asked, faults' \in Nat, effects' = effects, handed' = handed
    PROVE  Frame(t)
<1>1. StateTypeOK'
  BY DEF IInv, StateTypeOK, Moves, Publishes, Saves, Yields, Clears
<1> QED BY <1>1 DEF Frame, Moves, Publishes, Saves, Yields, Clears

\* The terminal's own request.
LEMMA Mine ==
    ASSUME IInv, NEW t \in Terminals
    PROVE  /\ StateTypeOK /\ TerminalHolds(t) /\ term[t] \in Terms
           /\ term[t].at \in Places \cup {Nobody} /\ term[t].target \in Places \cup {Nobody}
           /\ Nobody \notin Places /\ Nobody \notin Terminals
           /\ term[t].step \notin Resting =>
                /\ term[t].id # 0 /\ term[t].id \in DOMAIN asked /\ term[t].id \in Ids
                /\ RecordHolds(term[t].id) /\ Request(t) \in Requests /\ Target(t) \in Places
                /\ journal[term[t].id] \in Records
<1>1. /\ StateTypeOK /\ TerminalHolds(t) /\ term[t] \in Terms
      /\ term[t].at \in Places \cup {Nobody} /\ term[t].target \in Places \cup {Nobody}
      /\ Nobody \notin Places /\ Nobody \notin Terminals
  BY TypeFacts DEF IInv, Terms
<1>2. ASSUME term[t].step \notin Resting
      PROVE  /\ term[t].id # 0 /\ term[t].id \in DOMAIN asked /\ term[t].id \in Ids
             /\ RecordHolds(term[t].id) /\ Request(t) \in Requests /\ Target(t) \in Places
             /\ journal[term[t].id] \in Records
  <2>1. term[t].id # 0 /\ term[t].id <= Len(asked) /\ term[t].id \in 0..MaxRequests
    BY <1>1, <1>2 DEF TerminalHolds, RequestHolds, Terms
  <2>2. term[t].id \in DOMAIN asked /\ term[t].id \in Ids
    BY <1>1, <2>1, TypeFacts
  <2>3. Request(t) \in Requests /\ journal[term[t].id] \in Records
    BY <1>1, <2>2, TypeFacts DEF Request
  <2>4. Target(t) \in Places
    BY <2>3 DEF Target, Requests
  <2> QED BY <2>1, <2>2, <2>3, <2>4 DEF IInv
<1> QED BY <1>1, <1>2

LEMMA BecomesIs ==
    ASSUME StateTypeOK, NEW t \in Terminals, NEW r \in Terms, Become(t, r)
    PROVE  /\ term' \in [Terminals -> Terms] /\ term'[t] = r
           /\ \A u \in Terminals : u # t => term'[u] = term[u]
BY DEF Become, StateTypeOK

LEMMA CostsIs ==
    ASSUME StateTypeOK, NEW w, Costs(w)
    PROVE  faults' \in Nat
BY DEF Costs, StateTypeOK

LEMMA PublishIs ==
    ASSUME IInv, NEW t \in Terminals, term[t].id \in Ids, NEW w, NEW record \in Records,
           Publish(w, term[t].id, record)
    PROVE  /\ faults' \in Nat /\ Publishes(t)
           /\ journal'[term[t].id] = IF Takes(w) THEN record ELSE journal[term[t].id]
<1>1. StateTypeOK /\ journal \in [Ids -> Records]
  BY DEF IInv, StateTypeOK
<1>2. faults' \in Nat
  BY <1>1, CostsIs DEF Publish
<1> QED BY <1>1, <1>2 DEF Publish, Publishes

LEMMA SaveHereIs ==
    ASSUME IInv, NEW t \in Terminals, term[t].at # Nobody, NEW w, SaveHere(w, t)
    PROVE  /\ faults' \in Nat /\ Saves(t)
           /\ Takes(w) => saved'[term[t].at] = term[t].app
           /\ \A p \in Places : p # term[t].at => saved'[p] = saved[p]
<1>1. StateTypeOK /\ saved \in [Places -> SUBSET Entries] /\ term[t].at \in Places
      /\ term[t].app \in SUBSET Entries /\ term[t].bg \in SUBSET Entries
  BY Mine DEF StateTypeOK, Terms
<1>2. faults' \in Nat
  BY <1>1, CostsIs DEF SaveHere, SaveAt
<1>3. saved' = [saved EXCEPT ![term[t].at] =
                  IF Takes(w) THEN term[t].app
                  ELSE IF term[t].busy THEN term[t].bg ELSE saved[term[t].at]]
  BY DEF SaveHere, SaveAt
<1> QED BY <1>1, <1>2, <1>3 DEF Saves

LEMMA SaveThereIs ==
    ASSUME IInv, NEW t \in Terminals, term[t].target # Nobody, NEW w,
           SaveAt(w, term[t].target, term[t].next, saved[term[t].target])
    PROVE  /\ faults' \in Nat /\ Saves(t)
           /\ Takes(w) => saved'[term[t].target] = term[t].next
<1>1. StateTypeOK /\ saved \in [Places -> SUBSET Entries] /\ term[t].target \in Places
      /\ term[t].next \in SUBSET Entries
  BY Mine DEF StateTypeOK, Terms
<1>2. faults' \in Nat
  BY <1>1, CostsIs DEF SaveAt
<1>3. saved' = [saved EXCEPT ![term[t].target] =
                  IF Takes(w) THEN term[t].next ELSE saved[term[t].target]]
  BY DEF SaveAt
<1> QED BY <1>1, <1>2, <1>3 DEF Saves

LEMMA Stays ==
    ASSUME IInv, NEW t \in Terminals
    PROVE  /\ UNCHANGED journal => Publishes(t)
           /\ UNCHANGED saved => Saves(t)
           /\ UNCHANGED owner => Yields(t)
           /\ UNCHANGED repo => repo' \in [Repos -> {"absent", "made", "init", "ready"}]
           /\ UNCHANGED mission => /\ mission' \in [Places -> BOOLEAN]
                                   /\ \A p \in Places : mission[p] => mission'[p]
           /\ UNCHANGED faults => faults' \in Nat
           /\ UNCHANGED cleared => Clears(t)
BY DEF IInv, StateTypeOK, Publishes, Saves, Yields, Clears

LEMMA DroppedIs ==
    ASSUME IInv, NEW t \in Terminals, owner' = Dropped(t)
    PROVE  /\ Yields(t)
           /\ \A p \in Places : owner'[p] = t <=> owner[p] = t /\ p # term[t].target
<1>1. StateTypeOK /\ owner \in [Places -> Terminals \cup {Nobody}] /\ Nobody \notin Terminals
      /\ OwnerHolds(t)
  BY Mine DEF StateTypeOK, TerminalHolds
<1>2. term[t].target # Nobody => owner[term[t].target] = t
  BY <1>1 DEF OwnerHolds
<1>3. \A p \in Places : owner'[p] = IF p = term[t].target THEN Nobody ELSE owner[p]
  BY DEF Dropped
<1>4. owner' \in [Places -> Terminals \cup {Nobody}]
  BY <1>1 DEF Dropped
<1>5. Nobody \notin Places
  BY Mine
<1> QED BY <1>1, <1>2, <1>3, <1>4, <1>5 DEF Yields

LEMMA ReleasedIs ==
    ASSUME IInv, NEW t \in Terminals, owner' = Released(t)
    PROVE  /\ Yields(t)
           /\ \A p \in Places : owner'[p] # t
<1>1. owner \in [Places -> Terminals \cup {Nobody}] /\ Nobody \notin Terminals
  BY Mine DEF StateTypeOK
<1>2. \A p \in Places : owner'[p] = IF owner[p] = t THEN Nobody ELSE owner[p]
  BY DEF Released
<1>3. owner' \in [Places -> Terminals \cup {Nobody}]
  BY <1>1 DEF Released
<1> QED BY <1>1, <1>2, <1>3 DEF Yields

-----------------------------------------------------------------------------
(* The copies a terminal has. *)

LEMMA CopiesKept ==
    ASSUME IInv, NEW t \in Terminals, Frame(t)
    PROVE  LET r == term[t] IN
             /\ r.at # Nobody => RetainsBut(cleared', r.at, saved'[r.at], r.app)
             /\ r.target # Nobody => RetainsBut(cleared', r.target, saved'[r.target], r.next)
             /\ r.busy /\ UNCHANGED saved => /\ RetainsBut(cleared', r.at, saved'[r.at], r.bg)
                                             /\ RetainsBut(cleared', r.at, r.bg, r.app)
<1> DEFINE r == term[t]
<1>1. /\ CopiesHold(t) /\ OwnerHolds(t) /\ Nobody \notin Places
      /\ r.at \in Places \cup {Nobody} /\ r.target \in Places \cup {Nobody}
  BY Mine DEF TerminalHolds
<1>2. /\ r.target # Nobody => r.target # r.at
      /\ r.busy => r.at # Nobody
  BY <1>1 DEF OwnerHolds
<1>3. cleared.choices \subseteq cleared'.choices
  BY DEF Frame
<1>4. r.at # Nobody /\ r.at \in cleared.places => r.at \in cleared'.places
  BY <1>1, <1>2 DEF Frame
<1>5. r.at # Nobody => RetainsBut(cleared', r.at, saved[r.at], r.app)
  BY <1>1, <1>3, <1>4, RetainsLater DEF CopiesHold
<1>6. r.busy => /\ RetainsBut(cleared', r.at, saved[r.at], r.bg)
                /\ RetainsBut(cleared', r.at, r.bg, r.app)
  BY <1>1, <1>2, <1>3, <1>4, RetainsLater DEF CopiesHold
<1>7. r.at # Nobody => RetainsBut(cleared', r.at, saved'[r.at], r.app)
  <2>1. r.at # Nobody => \/ saved'[r.at] = saved[r.at] \/ saved'[r.at] = r.app
                         \/ r.busy /\ saved'[r.at] = r.bg
    BY <1>1, <1>2 DEF Frame
  <2> QED BY <1>5, <1>6, <2>1, RetainsSame, RetainsAll
<1>8. r.target # Nobody => RetainsBut(cleared', r.target, saved'[r.target], r.next)
  <2> SUFFICES ASSUME r.target # Nobody
               PROVE  RetainsBut(cleared', r.target, saved'[r.target], r.next)
    OBVIOUS
  <2>1. saved'[r.target] = saved[r.target] \/ saved'[r.target] = r.next
    BY <1>1, <1>2 DEF Frame
  <2>2. CASE saved'[r.target] = r.next
    BY <2>2, RetainsSame, RetainsAll
  <2>3. CASE saved'[r.target] # r.next
    <3>1. r.target \in cleared.places => r.target \in cleared'.places
      BY <2>3 DEF Frame
    <3> QED BY <1>1, <1>3, <2>1, <2>3, <3>1, RetainsLater DEF CopiesHold
  <2> QED BY <2>2, <2>3
<1> QED BY <1>6, <1>7, <1>8

LEMMA EntriesStay ==
    ASSUME IInv, NEW t \in Terminals, Frame(t),
           \A e \in term'[t].app \cup term'[t].next \cup term'[t].bg :
              e \in term[t].app \cup term[t].next \cup term[t].bg \/ TrueEntry(e)'
    PROVE  EntriesHold(t)'
<1>1. \A e \in term[t].app \cup term[t].next \cup term[t].bg : TrueEntry(e)
  BY Mine DEF TerminalHolds, EntriesHold
<1>2. \A e \in term[t].app \cup term[t].next \cup term[t].bg : TrueEntry(e)'
  BY <1>1, StaysTrue
<1> QED BY <1>2 DEF EntriesHold

-----------------------------------------------------------------------------
(* A terminal that stops, and one that settles.  *)

LEMMA OutIs ==
    \A step \in {"out", "picking"} :
        LET r == [Out EXCEPT !.step = step] IN
          /\ r \in Terms /\ r.step = step /\ r.at = Nobody /\ r.target = Nobody /\ r.id = 0
          /\ r.phase = Admitted /\ r.app = {} /\ r.next = {} /\ r.bg = {} /\ ~r.busy
<1>1. 0 \in 0..MaxRequests
  BY SelectionAssumption
<1>2. Fresh \in Picks
  BY DEF Fresh, Picks
<1>3. Admitted \in Phases
  BY DEF Phases, Admitted, AlreadyCurrent
<1> QED BY <1>1, <1>2, <1>3 DEF Out, Terms, Steps

LEMMA OutIsOut == Out \in Terms /\ Out = [Out EXCEPT !.step = "out"]
<1>1. 0 \in 0..MaxRequests
  BY SelectionAssumption
<1>2. Fresh \in Picks
  BY DEF Fresh, Picks
<1>3. Admitted \in Phases
  BY DEF Phases, Admitted, AlreadyCurrent
<1>4. Out \in Terms /\ Out.step = "out"
  BY <1>1, <1>2, <1>3 DEF Out, Terms, Steps
<1>5. Out = [Out EXCEPT !.step = "out"]
  BY <1>4 DEF Terms
<1> QED BY <1>4, <1>5

LEMMA OutHolds ==
    ASSUME IInv, NEW t \in Terminals, Frame(t), NEW step \in {"out", "picking"},
           term'[t] = [Out EXCEPT !.step = step], \A p \in Places : owner'[p] # t
    PROVE  TerminalHolds(t)'
<1> DEFINE r == [Out EXCEPT !.step = step]
<1>1. /\ term'[t] = r /\ r.step = step /\ r.at = Nobody /\ r.target = Nobody /\ r.id = 0
      /\ r.phase = Admitted /\ r.app = {} /\ r.next = {} /\ r.bg = {} /\ r.busy = FALSE
  BY OutIs
<1> HIDE DEF r
<1>2. OwnerHolds(t)'
  BY <1>1 DEF OwnerHolds, Entering, Leaving
<1>3. RequestHolds(t)'
  <2>1. 0 <= Len(asked')
    BY DEF Frame, StateTypeOK
  <2>2. /\ step \in Resting
        /\ step \notin Announcing \cup Preparing \cup Entering \cup {"failing"}
    BY DEF Resting, Announcing, Preparing, Entering
  <2> QED BY <1>1, <2>1, <2>2 DEF RequestHolds
<1>4. HistoryHolds(t)'
  <2>1. IsFiniteSet({}) /\ Cardinality({}) <= MaxHistory
    BY FS_EmptySet, SelectionAssumption
  <2>2. step \notin Entering
    BY DEF Entering
  <2> QED BY <1>1, <2>1, <2>2 DEF HistoryHolds, BoundedHistory
<1>5. CopiesHold(t)'
  BY <1>1 DEF CopiesHold
<1>6. EntriesHold(t)'
  BY <1>1 DEF EntriesHold
<1>7. ShownHolds(t)'
  BY <1>1 DEF ShownHolds, Entering
<1>8. StepHolds(t)'
  BY <1>1 DEF StepHolds, Announcing, Preparing, Entering
<1> QED BY <1>2, <1>3, <1>4, <1>5, <1>6, <1>7, <1>8 DEF TerminalHolds

\* What may be shown of a request when it is over.
TrueEnd(shown, i) ==
    /\ shown \in Shown /\ shown.kind # "pending"
    /\ shown.kind = "refused" => effects'[i] = {} /\ i \notin handed'
    /\ shown.kind = "at" =>
         /\ shown.failed => i \notin handed'
         /\ shown.phase = Selected => i \in handed'
         /\ ~shown.failed => shown.phase \in Final

Settles(t, shown) ==
    LET r == term[t]  s == term'[t] IN
      /\ s.step = "settle" /\ s.at = r.at /\ s.target = r.target /\ s.id = r.id
      /\ s.app = Mark(r.app, r.id, FALSE, shown) /\ s.next = r.next
      /\ s.bg \in {{}, r.bg} /\ s.busy = FALSE

LEMMA SettlesHold ==
    ASSUME IInv, NEW t \in Terminals, Frame(t), NEW shown, TrueEnd(shown, term[t].id),
           Settles(t, shown), term[t].at # Nobody,
           term[t].step \in Announcing \cup Preparing \cup {"failing"},
           \A p \in Places : owner'[p] = t <=> owner[p] = t
    PROVE  TerminalHolds(t)'
<1> DEFINE r == term[t]
           s == term'[t]
           M == Mark(r.app, r.id, FALSE, shown)
<1>1. /\ TerminalHolds(t) /\ r \in Terms /\ r.id # 0 /\ r.id \in DOMAIN asked
      /\ r.at \in Places /\ r.app \in SUBSET Entries
  BY Mine DEF Terms, Resting, Announcing, Preparing
<1>2. /\ s.step = "settle" /\ s.at = r.at /\ s.target = r.target /\ s.id = r.id
      /\ s.app = M /\ s.next = r.next /\ s.bg \in {{}, r.bg} /\ s.busy = FALSE
  BY DEF Settles
<1>3. Marked(r.app, M, r.id, FALSE, shown)
  BY <1>1, MarkIs DEF TrueEnd
<1>4. OwnerHolds(t) /\ r.target = Nobody
  BY <1>1 DEF TerminalHolds, OwnerHolds, Announcing, Preparing, Entering, Leaving
<1>5. r.id \in DOMAIN asked' /\ r.id \in Ids
  BY <1>1, AskedKept
<1>6. Ended(r.id)'
  <2> SUFFICES ASSUME NEW u \in Terminals, term'[u].id = r.id PROVE term'[u].step = "settle"
    BY <1>2 DEF Ended
  <2>1. u = t
    BY <1>1, <1>2, OneEach
  <2> QED BY <1>2, <2>1
<1> HIDE DEF r, s, M
<1>7. OwnerHolds(t)'
  BY <1>1, <1>2, <1>4 DEF OwnerHolds, Entering, Leaving, s, r
<1>8. RequestHolds(t)'
  <2>1. r.id <= Len(asked')
    BY <1>5, TypeFacts DEF Frame, StateTypeOK
  <2> QED BY <1>1, <1>2, <2>1
          DEF RequestHolds, Resting, Announcing, Preparing, Entering, s
<1>9. HistoryHolds(t)'
  <2>1. HistoryHolds(t)
    BY <1>1 DEF TerminalHolds
  <2>2. BoundedHistory(M) /\ IsFiniteSet(r.next) /\ IsFiniteSet(s.bg)
    BY <1>2, <1>3, <2>1, FS_EmptySet DEF Marked, HistoryHolds, r
  <2> QED BY <1>2, <2>2 DEF HistoryHolds, s, Entering, BoundedHistory
<1>10. CopiesHold(t)'
  <2>1. RetainsBut(cleared', r.at, saved'[r.at], r.app) /\ Retains(r.app, M)
    BY <1>1, <1>3, CopiesKept DEF Marked, r
  <2>2. RetainsBut(cleared', r.at, saved'[r.at], M)
    BY <2>1, RetainsAll, RetainsThrough
  <2> QED BY <1>2, <1>4, <2>2 DEF CopiesHold, s
<1>11. \A e \in M : \/ e \in r.app /\ ~(e.id = r.id /\ e.arrival = FALSE)
                    \/ TrueEntry(e)' /\ Settled(e)
  <2> SUFFICES ASSUME NEW e \in M, e \notin r.app \/ (e.id = r.id /\ e.arrival = FALSE)
               PROVE  TrueEntry(e)' /\ Settled(e)
    OBVIOUS
  <2>1. e.id = r.id /\ e.shown = shown /\ e \in Entries
    BY <1>3 DEF Marked
  <2>2. TrueEnd(shown, r.id)
    BY DEF r
  <2>3. Settled(e)
    BY <2>1, <2>2 DEF Settled, TrueEnd
  <2>4. e.id \in DOMAIN asked' /\ Ended(e.id)'
    BY <1>2, <1>5, <1>6, <2>1 DEF r, s, Ended
  <2>5. /\ e.shown.kind = "refused" => effects'[e.id] = {} /\ e.id \notin handed'
        /\ e.shown.kind = "at" => /\ e.shown.failed => e.id \notin handed'
                                  /\ e.shown.phase = Selected => e.id \in handed'
    BY <2>1, <2>2 DEF TrueEnd
  <2> QED BY <2>1, <2>3, <2>4, <2>5 DEF TrueEntry
<1>12. EntriesHold(t)'
  BY <1>2, <1>11, EntriesStay DEF s, r
<1>13. ShownHolds(t)'
  <2>1. \A e \in r.app : Settled(e) \/ (e.id = r.id /\ ~e.arrival)
    BY <1>1 DEF TerminalHolds, ShownHolds, r
  <2>2. \A e \in M : Settled(e)
    BY <1>11, <2>1
  <2> QED BY <1>2, <2>2 DEF ShownHolds, s, Entering
<1>14. StepHolds(t)'
  BY <1>2 DEF StepHolds, Announcing, Preparing, Entering, s
<1> QED BY <1>7, <1>8, <1>9, <1>10, <1>12, <1>13, <1>14 DEF TerminalHolds

-----------------------------------------------------------------------------
(* The announcement of a request.  *)

\* Nothing has come of a request that is being announced.
LEMMA NothingYet ==
    ASSUME IInv, NEW t \in Terminals, term[t].step \in Announcing
    PROVE  LET i == term[t].id IN
             /\ i # 0 /\ i \in DOMAIN asked /\ i \in Ids /\ RecordHolds(i)
             /\ ~journal[i].dispatched /\ effects[i] = {} /\ i \notin handed
             /\ term[t].target = Nobody /\ term[t].phase = Admitted
             /\ Request(t).from = term[t].at /\ Request(t) = asked[i]
<1>1. /\ term[t].id # 0 /\ term[t].id \in DOMAIN asked /\ term[t].id \in Ids
      /\ RecordHolds(term[t].id) /\ TerminalHolds(t)
  BY Mine DEF Announcing, Resting
<1>2. ~journal[term[t].id].dispatched /\ term[t].phase = Admitted
  BY <1>1 DEF TerminalHolds, StepHolds, NoRecord, NewRecord, Announcing
<1>3. term[t].target = Nobody /\ Request(t).from = term[t].at
  BY <1>1 DEF TerminalHolds, OwnerHolds, RequestHolds, Announcing, Entering, Leaving
<1> QED BY <1>1, <1>2, <1>3 DEF RecordHolds, Request

LEMMA RefusedIs ==
    ASSUME IInv, NEW t \in Terminals, term[t].step \in Announcing, Refused(t)
    PROVE  /\ Moves(t)
           /\ term[t].at = Nobody =>
                \E step \in {"out", "picking"} : term'[t] = [Out EXCEPT !.step = step]
           /\ term[t].at # Nobody => Settles(t, Says("refused"))
<1>0. StateTypeOK /\ term[t] \in Terms /\ term[t].app \in SUBSET Entries
  BY Mine DEF Terms
<1>1. CASE term[t].at = Nobody
  <2>1. PICK step \in {"out", "picking"} : Become(t, [Out EXCEPT !.step = step])
    BY <1>1 DEF Refused
  <2>2. [Out EXCEPT !.step = step] \in Terms /\ [Out EXCEPT !.step = step].id = 0
    BY OutIs
  <2>3. /\ term' \in [Terminals -> Terms] /\ term'[t] = [Out EXCEPT !.step = step]
        /\ \A u \in Terminals : u # t => term'[u] = term[u]
    BY <1>0, <2>1, <2>2, BecomesIs
  <2> QED BY <1>1, <2>2, <2>3 DEF Moves
<1>2. CASE term[t].at # Nobody
  <2> DEFINE M == Mark(term[t].app, term[t].id, FALSE, Says("refused"))
             s == [Joined(term[t]) EXCEPT !.step = "settle", !.app = M]
  <2>1. M \in SUBSET Entries
    BY <1>0, MarkIs, ShownIs DEF Marked
  <2>2. Joined(term[t]).app = term[t].app
    BY <1>0 DEF Joined, Terms
  <2>3. Become(t, s)
    BY <1>2, <2>2 DEF Refused
  <2> HIDE DEF M
  <2>4. /\ s \in Terms /\ s.step = "settle" /\ s.at = term[t].at /\ s.target = term[t].target
        /\ s.id = term[t].id /\ s.app = M /\ s.next = term[t].next /\ s.bg = {}
        /\ s.busy = FALSE
    BY <1>0, <2>1 DEF Joined, Terms, Steps
  <2> HIDE DEF s
  <2>5. /\ term' \in [Terminals -> Terms] /\ term'[t] = s
        /\ \A u \in Terminals : u # t => term'[u] = term[u]
    BY <1>0, <2>3, <2>4, BecomesIs
  <2> QED BY <1>2, <2>4, <2>5 DEF Moves, Settles, Announcing, M
<1> QED BY <1>1, <1>2

LEMMA RefusedHolds ==
    ASSUME IInv, NEW t \in Terminals, term[t].step \in Announcing, Refused(t), Frame(t),
           owner' = owner, effects' = effects, handed' = handed
    PROVE  TerminalHolds(t)'
<1>1. CASE term[t].at = Nobody
  <2>1. PICK step \in {"out", "picking"} : term'[t] = [Out EXCEPT !.step = step]
    BY <1>1, RefusedIs
  <2>2. \A p \in Places : owner[p] # t
    BY <1>1, Mine, NothingYet DEF TerminalHolds, OwnerHolds
  <2> QED BY <2>1, <2>2, OutHolds
<1>2. CASE term[t].at # Nobody
  <2>1. Settles(t, Says("refused"))
    BY <1>2, RefusedIs
  <2>2. TrueEnd(Says("refused"), term[t].id)
    BY NothingYet, ShownIs DEF TrueEnd
  <2> QED BY <1>2, <2>1, <2>2, SettlesHold
<1> QED BY <1>1, <1>2

\* A terminal that goes on with what it has.
Keeps(t) ==
    LET r == term[t]  s == term'[t] IN
      /\ s.at = r.at /\ s.target = r.target /\ s.id = r.id
      /\ s.app = r.app /\ s.next = r.next
      /\ \/ s.bg = r.bg /\ s.busy = r.busy /\ UNCHANGED saved
         \/ s.bg \in {{}, r.bg} /\ s.busy = FALSE

LEMMA KeepsHold ==
    ASSUME IInv, NEW t \in Terminals, Frame(t), Keeps(t),
           term'[t].step \in Entering \ {"loaded"} => term[t].step \in Entering \ {"loaded"}
    PROVE  HistoryHolds(t)' /\ CopiesHold(t)' /\ EntriesHold(t)'
<1>1. TerminalHolds(t)
  BY Mine
<1>2. HistoryHolds(t)'
  BY <1>1, FS_EmptySet DEF TerminalHolds, HistoryHolds, Keeps
<1>3. CopiesHold(t)'
  BY <1>1, CopiesKept DEF TerminalHolds, CopiesHold, Keeps
<1>4. EntriesHold(t)'
  BY EntriesStay DEF Keeps
<1> QED BY <1>2, <1>3, <1>4

LEMMA SaveIntentHolds ==
    ASSUME IInv, NEW t \in Terminals, SaveIntent(t)
    PROVE  IInv'
<1> DEFINE r == term[t]
           i == term[t].id
<1>1. /\ r.step = "saving"
      /\ UNCHANGED <<repo, mission, owner, journal, asked, effects, handed, cleared>>
  BY DEF SaveIntent
<1>2. PICK w \in Writes :
        /\ SaveHere(w, t)
        /\ IF w = "ok" THEN Become(t, [Joined(term[t]) EXCEPT !.step = "admit"]) ELSE Refused(t)
  BY DEF SaveIntent
<1>3. /\ TerminalHolds(t) /\ StateTypeOK /\ r \in Terms /\ r.at # Nobody /\ r.at \in Places
  BY <1>1, Mine DEF TerminalHolds, OwnerHolds
<1>4. /\ faults' \in Nat /\ Saves(t)
      /\ Takes(w) => saved'[r.at] = r.app
  BY <1>2, <1>3, SaveHereIs
<1>5. r.step \in Announcing
  BY <1>1 DEF Announcing
<1>6. CASE w = "ok"
  <2> DEFINE s == [Joined(term[t]) EXCEPT !.step = "admit"]
  <2>1. /\ s \in Terms /\ s.step = "admit" /\ s.at = r.at /\ s.target = r.target /\ s.id = i
        /\ s.app = r.app /\ s.next = r.next /\ s.bg = {} /\ s.busy = FALSE /\ s.phase = r.phase
    BY <1>3 DEF Joined, Terms, Steps
  <2>2. Become(t, s)
    BY <1>2, <1>6
  <2> HIDE DEF s
  <2>3. /\ term' \in [Terminals -> Terms] /\ term'[t] = s
        /\ \A u \in Terminals : u # t => term'[u] = term[u]
    BY <1>3, <2>1, <2>2, BecomesIs
  <2>4. Moves(t)
    BY <1>1, <2>1, <2>3 DEF Moves
  <2>5. Frame(t)
    BY <1>1, <1>4, <2>4, Stays, FrameIs
  <2>6. HistoryHolds(t)' /\ CopiesHold(t)' /\ EntriesHold(t)'
    BY <2>1, <2>3, <2>5, KeepsHold DEF Keeps, Entering
  <2>7. OwnerHolds(t)'
    BY <1>1, <1>3, <2>1, <2>3 DEF TerminalHolds, OwnerHolds, Entering, Leaving
  <2>8. RequestHolds(t)'
    BY <1>1, <1>3, <2>1, <2>3
    DEF TerminalHolds, RequestHolds, Resting, Announcing, Preparing, Entering, Request
  <2>9. ShownHolds(t)'
    BY <1>1, <1>3, <2>1, <2>3 DEF TerminalHolds, ShownHolds, Resting, Leaving, Entering
  <2>10. StepHolds(t)'
    <3>1. saved'[r.at] = r.app
      BY <1>4, <1>6 DEF Takes
    <3>2. Told(cleared', saved'[r.at], i)
      BY <1>1, <1>3, <3>1 DEF TerminalHolds, StepHolds, Told
    <3> QED BY <1>1, <1>3, <2>1, <2>3, <3>2
            DEF TerminalHolds, StepHolds, Announcing, Preparing, Entering
  <2>11. TerminalHolds(t)'
    BY <2>6, <2>7, <2>8, <2>9, <2>10 DEF TerminalHolds
  <2>12. \A j \in Ids : j = i => RecordHolds(j)'
    BY <1>1, <2>5, RecordStays
  <2> QED BY <2>5, <2>11, <2>12, Suffices
<1>7. CASE w # "ok"
  <2>1. Refused(t)
    BY <1>2, <1>7
  <2>2. Frame(t)
    BY <1>1, <1>4, <1>5, <2>1, RefusedIs, Stays, FrameIs
  <2>3. TerminalHolds(t)'
    BY <1>1, <1>5, <2>1, <2>2, RefusedHolds
  <2>4. \A j \in Ids : j = i => RecordHolds(j)'
    BY <1>1, <2>2, RecordStays
  <2> QED BY <2>2, <2>3, <2>4, Suffices
<1> QED BY <1>6, <1>7

\* What a record that was written says.
LEMMA Written ==
    ASSUME IInv, NEW t \in Terminals, Frame(t), NEW i \in Ids, i \in DOMAIN asked,
           NEW record \in Records, journal'[i] = record, record.dispatched,
           asked[i].from # Nobody => Told(cleared, saved[asked[i].from], i),
           record.failed => /\ i \notin handed'
                            /\ \A u \in Terminals : term'[u].id = i => term'[u].step = "settle",
           record.phase = Selected => i \in handed',
           record.phase \in RepositoryReady..Selected /\ asked[i].create =>
              "repository" \in effects'[i],
           record.phase \in MissionReady..Selected => mission'[asked[i].to],
           record.phase \in {HandoffPrepared, Selected} =>
              Entered(cleared', asked[i].to, saved'[asked[i].to])
    PROVE  RecordHolds(i)'
<1>1. i \in DOMAIN asked' /\ asked'[i] = asked[i]
  BY AskedKept
<1>2. asked[i].from \in Places \cup {Nobody}
  BY TypeFacts DEF IInv, Requests
<1>3. asked[i].from # Nobody => Told(cleared', saved'[asked[i].from], i)
  BY <1>2, FilesRetained
<1>4. record.failed => i \notin handed' /\ Ended(i)'
  BY DEF Ended
<1>5. journal'[i].phase = record.phase
  OBVIOUS
<1>6. PhaseHolds(i, journal[i].phase)'
  BY <1>1, <1>5 DEF PhaseHolds
<1> QED BY <1>1, <1>3, <1>4, <1>6 DEF RecordHolds

\* A phase that was recorded of a request that was dispatched.
LEMMA WrittenLater ==
    ASSUME IInv, NEW t \in Terminals, Frame(t), NEW i \in Ids, journal[i].dispatched
    PROVE  /\ i \in DOMAIN asked /\ i # 0
           /\ asked[i].from # Nobody => Told(cleared, saved[asked[i].from], i)
           /\ journal'[i] = journal[i] /\ (i \in handed' <=> i \in handed) => RecordHolds(i)'
<1>1. RecordHolds(i)
  BY DEF IInv
<1>2. journal'[i] = journal[i] /\ (i \in handed' <=> i \in handed) => RecordHolds(i)'
  BY RecordStays
<1> QED BY <1>1, <1>2, AskedKept DEF RecordHolds

LEMMA GoesIs ==
    ASSUME IInv, NEW t \in Terminals, NEW step \in Steps, Goes(t, step), term[t].step # "settle"
    PROVE  LET r == term[t]  s == term'[t] IN
             /\ Moves(t) /\ s.step = step /\ s.at = r.at /\ s.target = r.target /\ s.id = r.id
             /\ s.app = r.app /\ s.next = r.next /\ s.bg = r.bg /\ s.busy = r.busy
             /\ s.phase = r.phase
<1> DEFINE s == [term[t] EXCEPT !.step = step]
<1>1. term[t] \in Terms /\ StateTypeOK
  BY Mine
<1>2. /\ s \in Terms /\ s.step = step /\ s.at = term[t].at /\ s.target = term[t].target
      /\ s.id = term[t].id /\ s.app = term[t].app /\ s.next = term[t].next
      /\ s.bg = term[t].bg /\ s.busy = term[t].busy /\ s.phase = term[t].phase
  BY <1>1 DEF Terms
<1>3. Become(t, s)
  BY DEF Goes
<1> HIDE DEF s
<1>4. /\ term' \in [Terminals -> Terms] /\ term'[t] = s
      /\ \A u \in Terminals : u # t => term'[u] = term[u]
  BY <1>1, <1>2, <1>3, BecomesIs
<1> QED BY <1>2, <1>4 DEF Moves

LEMMA AdmitHolds ==
    ASSUME IInv, NEW t \in Terminals, Admit(t)
    PROVE  IInv'
<1> DEFINE r == term[t]
           i == term[t].id
<1>1. /\ r.step = "admit"
      /\ UNCHANGED <<repo, mission, owner, saved, asked, effects, handed, cleared>>
  BY DEF Admit
<1>2. PICK w \in Writes :
        /\ Publish(w, i, NewRecord)
        /\ IF w = "ok" THEN Goes(t, "begin") ELSE Refused(t)
  BY DEF Admit, NewRecord
<1>3. /\ TerminalHolds(t) /\ StateTypeOK /\ r \in Terms /\ r.step \in Announcing /\ i \in Ids
      /\ NewRecord \in Records
  BY <1>1, Mine, NothingYet DEF Announcing, NewRecord, Records, Phases, Admitted, AlreadyCurrent
<1>4. /\ faults' \in Nat /\ Publishes(t)
      /\ journal'[i] = IF Takes(w) THEN NewRecord ELSE journal[i]
  BY <1>2, <1>3, PublishIs
<1>5. ASSUME Frame(t), NEW j \in Ids, j = i PROVE RecordHolds(j)'
  <2>1. /\ j \in DOMAIN asked' /\ ~journal[j].dispatched /\ RecordHolds(j)
        /\ effects'[j] = {} /\ j \notin handed'
    BY <1>1, <1>3, <1>5, NothingYet
  <2>2. journal'[j] \in {NoRecord, NewRecord} /\ ~journal'[j].dispatched
    <3>1. journal[j] \in {NoRecord, NewRecord}
      BY <2>1 DEF RecordHolds
    <3>2. ~NoRecord.dispatched /\ ~NewRecord.dispatched
      BY DEF NoRecord, NewRecord
    <3>3. journal'[j] \in {NoRecord, NewRecord}
      BY <1>4, <1>5, <3>1
    <3> QED BY <3>2, <3>3
  <2> QED BY <2>1, <2>2 DEF RecordHolds
<1>6. CASE w = "ok"
  <2>1. /\ Moves(t) /\ term'[t].step = "begin" /\ term'[t].at = r.at
        /\ term'[t].target = r.target /\ term'[t].id = i /\ term'[t].app = r.app
        /\ term'[t].next = r.next /\ term'[t].bg = r.bg /\ term'[t].busy = r.busy
        /\ term'[t].phase = r.phase
    BY <1>1, <1>2, <1>6, GoesIs DEF Steps
  <2>2. Frame(t)
    BY <1>1, <1>4, <2>1, Stays, FrameIs
  <2>3. HistoryHolds(t)' /\ CopiesHold(t)' /\ EntriesHold(t)'
    BY <1>1, <2>1, <2>2, KeepsHold DEF Keeps, Entering
  <2>4. OwnerHolds(t)'
    BY <1>1, <1>3, <2>1 DEF TerminalHolds, OwnerHolds, Entering, Leaving
  <2>5. RequestHolds(t)'
    BY <1>1, <1>3, <2>1
    DEF TerminalHolds, RequestHolds, Resting, Announcing, Preparing, Entering, Request
  <2>6. ShownHolds(t)'
    BY <1>1, <1>3, <2>1 DEF TerminalHolds, ShownHolds, Resting, Leaving, Entering
  <2>7. StepHolds(t)'
    <3>1. journal'[i] = NewRecord
      BY <1>4, <1>6 DEF Takes
    <3> QED BY <1>1, <1>3, <2>1, <3>1
            DEF TerminalHolds, StepHolds, Announcing, Preparing, Entering
  <2>8. TerminalHolds(t)'
    BY <2>3, <2>4, <2>5, <2>6, <2>7 DEF TerminalHolds
  <2> QED BY <1>5, <2>2, <2>8, Suffices
<1>7. CASE w # "ok"
  <2>1. Refused(t)
    BY <1>2, <1>7
  <2>2. Frame(t)
    BY <1>1, <1>3, <1>4, <2>1, RefusedIs, Stays, FrameIs
  <2>3. TerminalHolds(t)'
    BY <1>1, <1>3, <2>1, <2>2, RefusedHolds
  <2> QED BY <1>5, <2>2, <2>3, Suffices
<1> QED BY <1>6, <1>7

LEMMA BeginHolds ==
    ASSUME IInv, NEW t \in Terminals, Begin(t)
    PROVE  IInv'
<1> DEFINE r == term[t]
           i == term[t].id
           record == [journal[i] EXCEPT !.dispatched = TRUE]
           step == IF Here(Request(t)) THEN "current" ELSE "repository"
<1>1. /\ r.step = "begin"
      /\ UNCHANGED <<repo, mission, owner, saved, asked, effects, handed, cleared>>
  BY DEF Begin
<1>2. PICK w \in Writes :
        /\ Publish(w, i, record)
        /\ IF w = "ok" THEN Goes(t, step) ELSE Refused(t)
  BY DEF Begin
<1>3. /\ TerminalHolds(t) /\ StateTypeOK /\ r \in Terms /\ r.step \in Announcing /\ i \in Ids
      /\ i \in DOMAIN asked /\ effects[i] = {} /\ i \notin handed /\ journal[i] = NewRecord
      /\ Request(t).from = r.at /\ Request(t) = asked[i] /\ r.phase = Admitted
      /\ r.target = Nobody
  BY <1>1, Mine, NothingYet DEF Announcing, TerminalHolds, StepHolds
<1>4. /\ record \in Records /\ record.phase = Admitted /\ record.failed = FALSE
      /\ record.dispatched
  <2>1. record = [NewRecord EXCEPT !.dispatched = TRUE]
    BY <1>3
  <2> HIDE DEF record
  <2>2. record = [phase |-> Admitted, failed |-> FALSE, dispatched |-> TRUE]
    BY <2>1 DEF NewRecord
  <2>3. Admitted \in Phases
    BY DEF Phases, Admitted, AlreadyCurrent
  <2> QED BY <2>2, <2>3 DEF Records
<1> HIDE DEF record, step
<1>5. /\ faults' \in Nat /\ Publishes(t)
      /\ journal'[i] = IF Takes(w) THEN record ELSE journal[i]
  BY <1>2, <1>3, <1>4, PublishIs
<1>6. asked[i].from # Nobody => Told(cleared, saved[asked[i].from], i)
  BY <1>1, <1>3 DEF TerminalHolds, StepHolds
<1>7. ASSUME Frame(t), NEW j \in Ids, j = i PROVE RecordHolds(j)'
  <2>1. CASE Takes(w)
    <3>1. journal'[j] = record
      BY <1>5, <1>7, <2>1
    <3>2. /\ record.phase # Selected /\ record.phase \notin RepositoryReady..Selected
          /\ record.phase \notin MissionReady..Selected
          /\ record.phase \notin {HandoffPrepared, Selected}
      BY <1>4 DEF Admitted, RepositoryReady, MissionReady, HandoffPrepared, Selected
    <3> QED BY <1>3, <1>4, <1>6, <1>7, <3>1, <3>2, Written
  <2>2. CASE ~Takes(w)
    BY <1>1, <1>5, <1>7, <2>2, RecordStays
  <2> QED BY <2>1, <2>2
<1>8. CASE w = "ok"
  <2>0. step \in {"current", "repository"} /\ step \in Steps
    BY DEF step, Steps
  <2>1. /\ Moves(t) /\ term'[t].step = step /\ term'[t].at = r.at
        /\ term'[t].target = r.target /\ term'[t].id = i /\ term'[t].app = r.app
        /\ term'[t].next = r.next /\ term'[t].bg = r.bg /\ term'[t].busy = r.busy
        /\ term'[t].phase = r.phase
    BY <1>1, <1>2, <1>8, <2>0, GoesIs
  <2>2. Frame(t)
    BY <1>1, <1>5, <2>1, Stays, FrameIs
  <2>3. HistoryHolds(t)' /\ CopiesHold(t)' /\ EntriesHold(t)'
    BY <1>1, <2>0, <2>1, <2>2, KeepsHold DEF Keeps, Entering
  <2>4. OwnerHolds(t)'
    <3>1. step = "current" => r.at # Nobody
      <4>1. Request(t).to \in Places /\ Nobody \notin Places
        BY <1>3, Mine, TypeFacts DEF Requests
      <4> QED BY <1>3, <4>1 DEF step, Here
    <3> QED BY <1>1, <1>3, <2>0, <2>1, <3>1 DEF TerminalHolds, OwnerHolds, Entering, Leaving
  <2>5. RequestHolds(t)'
    BY <1>1, <1>3, <2>0, <2>1
    DEF TerminalHolds, RequestHolds, Resting, Announcing, Preparing, Entering, Request
  <2>6. ShownHolds(t)'
    BY <1>1, <1>3, <2>0, <2>1 DEF TerminalHolds, ShownHolds, Resting, Leaving, Entering
  <2>7. StepHolds(t)'
    <3>1. journal'[i].dispatched
      BY <1>4, <1>5, <1>8 DEF Takes
    <3>2. PhaseHolds(term[t].id, term[t].phase)'
      BY <1>3, <2>1 DEF PhaseHolds, Admitted, RepositoryReady, MissionReady, HandoffPrepared,
                        Selected
    <3>3. r.phase \in Admitted..HandoffPrepared
      BY <1>3 DEF Admitted, HandoffPrepared
    <3> QED BY <1>1, <1>3, <2>0, <2>1, <3>1, <3>2, <3>3
            DEF StepHolds, Announcing, Preparing, Entering
  <2>8. TerminalHolds(t)'
    BY <2>3, <2>4, <2>5, <2>6, <2>7 DEF TerminalHolds
  <2> QED BY <1>7, <2>2, <2>8, Suffices
<1>9. CASE w # "ok"
  <2>1. Refused(t)
    BY <1>2, <1>9
  <2>2. Frame(t)
    BY <1>1, <1>3, <1>5, <2>1, RefusedIs, Stays, FrameIs
  <2>3. TerminalHolds(t)'
    BY <1>1, <1>3, <2>1, <2>2, RefusedHolds
  <2> QED BY <1>7, <2>2, <2>3, Suffices
<1> QED BY <1>8, <1>9

-----------------------------------------------------------------------------
(* A request under way.  *)

LEMMA UnderWay ==
    ASSUME IInv, NEW t \in Terminals,
           term[t].step \in Preparing \cup Entering \cup {"failing"}
    PROVE  LET r == term[t]  i == term[t].id IN
             /\ TerminalHolds(t) /\ StateTypeOK /\ r \in Terms /\ r.app \in SUBSET Entries
             /\ r.at \in Places \cup {Nobody} /\ Nobody \notin Places
             /\ i # 0 /\ i \in DOMAIN asked /\ i \in Ids /\ journal[i] \in Records
             /\ journal[i].dispatched /\ ~journal[i].failed /\ i \notin handed
             /\ r.phase \in Admitted..HandoffPrepared /\ PhaseHolds(i, r.phase)
             /\ Request(t) = asked[i] /\ Target(t) = asked[i].to /\ Target(t) \in Places
             /\ Request(t).from = r.at /\ r.busy = FALSE
             /\ r.step \notin Entering => r.target = Nobody
             /\ r.step \in Entering =>
                  r.target = Target(t) /\ r.target \in Places /\ r.target # r.at
<1>1. /\ TerminalHolds(t) /\ StateTypeOK /\ term[t] \in Terms /\ term[t].app \in SUBSET Entries
      /\ term[t].at \in Places \cup {Nobody} /\ Nobody \notin Places
      /\ term[t].id # 0 /\ term[t].id \in DOMAIN asked /\ term[t].id \in Ids
      /\ RecordHolds(term[t].id) /\ Target(t) \in Places /\ journal[term[t].id] \in Records
  BY Mine DEF Preparing, Entering, Resting, Terms
<1>2. /\ journal[term[t].id].dispatched /\ term[t].id \notin handed
      /\ term[t].phase \in Admitted..HandoffPrepared /\ PhaseHolds(term[t].id, term[t].phase)
  BY <1>1 DEF TerminalHolds, StepHolds
<1>3. ~journal[term[t].id].failed
  BY <1>1, <1>2 DEF RecordHolds, Ended, Preparing, Entering
<1>4. Request(t).from = term[t].at
  BY <1>1 DEF TerminalHolds, RequestHolds
<1>5. /\ term[t].busy = FALSE
      /\ term[t].step \notin Entering => term[t].target = Nobody
      /\ term[t].step \in Entering => /\ term[t].target = Target(t)
                                      /\ term[t].target # Nobody => term[t].target # term[t].at
  BY <1>1 DEF TerminalHolds, OwnerHolds, Preparing, Entering, Leaving, Terms
<1> QED BY <1>1, <1>2, <1>3, <1>4, <1>5 DEF Request, Target

\* What a phase promises once the step was taken.
Promised(t, phase) ==
    /\ phase \in RepositoryReady..Selected /\ Request(t).create =>
         "repository" \in effects'[term[t].id]
    /\ phase \in MissionReady..Selected => mission'[Target(t)]
    /\ phase \in {HandoffPrepared, Selected} =>
         Entered(cleared', Target(t), saved'[Target(t)])

LEMMA PromiseIs ==
    ASSUME IInv, NEW t \in Terminals, Frame(t),
           term[t].step \in Preparing \cup Entering \cup {"failing"}
    PROVE  /\ \A phase : PhaseHolds(term[t].id, phase) => Promised(t, phase)
           /\ term'[t].id = term[t].id =>
                /\ Request(t)' = Request(t) /\ Target(t)' = Target(t)
                /\ Promised(t, term'[t].phase) => PhaseHolds(term[t].id, term[t].phase)'
                /\ Promised(t, RepositoryReady) => PhaseHolds(term[t].id, RepositoryReady)'
                /\ Promised(t, MissionReady) => PhaseHolds(term[t].id, MissionReady)'
<1> DEFINE i == term[t].id
<1>1. /\ i \in DOMAIN asked /\ Request(t) = asked[i] /\ Target(t) = asked[i].to
  BY UnderWay
<1>2. /\ asked'[i] = asked[i]
      /\ "repository" \in effects[i] => "repository" \in effects'[i]
      /\ mission[asked[i].to] => mission'[asked[i].to]
      /\ Entered(cleared, asked[i].to, saved[asked[i].to]) =>
           Entered(cleared', asked[i].to, saved'[asked[i].to])
  BY <1>1, PromisesStay
<1>3. \A phase : PhaseHolds(i, phase) => Promised(t, phase)
  BY <1>1, <1>2 DEF PhaseHolds, Promised
<1>4. ASSUME term'[t].id = term[t].id
      PROVE  /\ Request(t)' = Request(t) /\ Target(t)' = Target(t)
             /\ Promised(t, term'[t].phase) => PhaseHolds(term[t].id, term[t].phase)'
             /\ Promised(t, RepositoryReady) => PhaseHolds(term[t].id, RepositoryReady)'
             /\ Promised(t, MissionReady) => PhaseHolds(term[t].id, MissionReady)'
  <2>1. Request(t)' = Request(t) /\ Target(t)' = Target(t)
    BY <1>1, <1>2, <1>4 DEF Request, Target
  <2>2. Promised(t, term'[t].phase) => PhaseHolds(term[t].id, term[t].phase)'
    BY <1>1, <1>2, <1>4 DEF PhaseHolds, Promised
  <2>3. Promised(t, RepositoryReady) => PhaseHolds(term[t].id, RepositoryReady)'
    BY <1>1, <1>2, <1>4 DEF PhaseHolds, Promised
  <2>4. Promised(t, MissionReady) => PhaseHolds(term[t].id, MissionReady)'
    BY <1>1, <1>2, <1>4 DEF PhaseHolds, Promised
  <2> QED BY <2>1, <2>2, <2>3, <2>4
<1> QED BY <1>3, <1>4

LEMMA IdKept ==
    ASSUME IInv, NEW t \in Terminals, Frame(t), NEW i \in DOMAIN asked
    PROVE  i <= Len(asked')
<1>1. i \in DOMAIN asked'
  BY AskedKept
<1>2. asked' \in Seq(Requests)
  BY DEF Frame, StateTypeOK
<1> QED BY <1>1, <1>2

LEMMA ConstantsAre ==
    /\ \A phase \in Phases, failed \in BOOLEAN :
         [phase |-> phase, failed |-> failed, dispatched |-> TRUE] \in Records
    /\ Phases = 0..6 /\ Admitted..HandoffPrepared = 0..4
    /\ RepositoryReady..Selected = 1..5 /\ MissionReady..Selected = 2..5
    /\ Admitted = 0 /\ RepositoryReady = 1 /\ MissionReady = 2 /\ TargetLoaded = 3
    /\ HandoffPrepared = 4 /\ Selected = 5 /\ AlreadyCurrent = 6
    /\ Selected \in Phases /\ AlreadyCurrent \in Phases /\ TargetLoaded \in Phases
    /\ HandoffPrepared \in Phases
BY DEF Records, Phases, Admitted, RepositoryReady, MissionReady, TargetLoaded,
       HandoffPrepared, Selected, AlreadyCurrent

\* A phase is recorded, or not.
LEMMA PhaseRecorded ==
    ASSUME IInv, NEW t \in Terminals, Frame(t),
           term[t].step \in Preparing \cup Entering \cup {"failing"},
           NEW phase \in Phases, NEW failed \in BOOLEAN, phase # Selected, Promised(t, phase),
           journal'[term[t].id] \in
             {journal[term[t].id], [phase |-> phase, failed |-> failed, dispatched |-> TRUE]},
           handed' = handed, failed => term'[t].id = 0 \/ term'[t].step = "settle",
           NEW j \in Ids, j = term[t].id
    PROVE  RecordHolds(j)'
<1> DEFINE record == [phase |-> phase, failed |-> failed, dispatched |-> TRUE]
<1>1. /\ j # 0 /\ j \in DOMAIN asked /\ journal[j].dispatched /\ j \notin handed
      /\ Request(t) = asked[j] /\ Target(t) = asked[j].to
  BY UnderWay
<1>2. CASE journal'[j] = journal[j]
  BY <1>1, <1>2, WrittenLater
<1>3. CASE journal'[j] = record
  <2>1. /\ record \in Records /\ record.phase = phase /\ record.failed = failed
        /\ record.dispatched
    BY ConstantsAre
  <2> HIDE DEF record
  <2>2. asked[j].from # Nobody => Told(cleared, saved[asked[j].from], j)
    BY <1>1, WrittenLater
  <2>3. record.failed => \A u \in Terminals : term'[u].id = j => term'[u].step = "settle"
    <3> SUFFICES ASSUME record.failed, NEW u \in Terminals, term'[u].id = j
                 PROVE  term'[u].step = "settle"
      OBVIOUS
    <3>1. u = t
      <4>1. u # t => term[u].id = j
        BY DEF Frame
      <4> QED BY <1>1, <4>1 DEF IInv
    <3> QED BY <1>1, <2>1, <3>1
  <2>4. /\ phase \in RepositoryReady..Selected /\ asked[j].create =>
             "repository" \in effects'[j]
        /\ phase \in MissionReady..Selected => mission'[asked[j].to]
        /\ phase \in {HandoffPrepared, Selected} =>
             Entered(cleared', asked[j].to, saved'[asked[j].to])
    BY <1>1 DEF Promised
  <2> QED BY <1>1, <1>3, <2>1, <2>2, <2>3, <2>4, Written
<1> QED BY <1>2, <1>3

Failed(t, phase) ==
    LET r == term[t]  s == term'[t] IN
      /\ s.step = "failing" /\ s.phase = phase /\ s.at = r.at /\ s.target = Nobody
      /\ s.id = r.id /\ s.app = r.app /\ s.next = {} /\ s.bg = r.bg /\ s.busy = r.busy

LEMMA FailsIs ==
    ASSUME IInv, NEW t \in Terminals, term[t].step \in Preparing \cup Entering,
           NEW r \in Terms, Fails(t, r), r.at = term[t].at, r.id = term[t].id,
           r.app = term[t].app, r.bg = term[t].bg, r.busy = term[t].busy
    PROVE  Moves(t) /\ Yields(t) /\ owner' = Dropped(t) /\ Failed(t, r.phase)
<1> DEFINE s == [r EXCEPT !.step = "failing", !.target = Nobody, !.next = {}]
<1>1. /\ s \in Terms /\ s.step = "failing" /\ s.phase = r.phase /\ s.at = r.at
      /\ s.target = Nobody /\ s.id = r.id /\ s.app = r.app /\ s.next = {} /\ s.bg = r.bg
      /\ s.busy = r.busy
  BY DEF Terms, Steps
<1>2. Become(t, s) /\ owner' = Dropped(t)
  BY DEF Fails
<1> HIDE DEF s
<1>3. /\ term' \in [Terminals -> Terms] /\ term'[t] = s
      /\ \A u \in Terminals : u # t => term'[u] = term[u]
  BY <1>1, <1>2, Mine, BecomesIs
<1>4. Moves(t)
  BY <1>1, <1>3 DEF Moves, Preparing, Entering
<1> QED BY <1>1, <1>2, <1>3, <1>4, DroppedIs DEF Failed

LEMMA FailedHolds ==
    ASSUME IInv, NEW t \in Terminals, Frame(t), term[t].step \in Preparing \cup Entering,
           NEW phase \in Admitted..HandoffPrepared, Failed(t, phase), owner' = Dropped(t),
           Promised(t, phase), journal'[term[t].id].dispatched, handed' = handed
    PROVE  TerminalHolds(t)'
<1> DEFINE r == term[t]
           s == term'[t]
<1>1. /\ TerminalHolds(t) /\ r.busy = FALSE /\ r.id # 0 /\ r.id \notin handed
      /\ Request(t).from = r.at /\ r.at \in Places \cup {Nobody}
      /\ Nobody \notin Places
  BY UnderWay
<1>2. /\ s.step = "failing" /\ s.phase = phase /\ s.at = r.at /\ s.target = Nobody
      /\ s.id = r.id /\ s.app = r.app /\ s.next = {} /\ s.bg = r.bg /\ s.busy = r.busy
  BY DEF Failed
<1>3. /\ Request(t)' = Request(t)
      /\ PhaseHolds(term[t].id, term[t].phase)'
  BY <1>2, PromiseIs
<1>4. \A p \in Places : owner'[p] = t <=> owner[p] = t /\ p # r.target
  BY DroppedIs
<1>5. OwnerHolds(t)'
  BY <1>1, <1>2, <1>4 DEF TerminalHolds, OwnerHolds, Entering, Leaving
<1>6. RequestHolds(t)'
  <2>1. r.id <= Len(asked')
    BY UnderWay, IdKept
  <2> QED BY <1>1, <1>2, <1>3, <2>1 DEF RequestHolds, Resting, Announcing, Preparing, Entering
<1>7. HistoryHolds(t)'
  BY <1>1, <1>2, FS_EmptySet DEF TerminalHolds, HistoryHolds, Entering
<1>8. CopiesHold(t)'
  BY <1>1, <1>2, CopiesKept DEF CopiesHold
<1>9. EntriesHold(t)'
  BY <1>2, EntriesStay
<1>10. ShownHolds(t)'
  BY <1>1, <1>2 DEF TerminalHolds, ShownHolds, Resting, Leaving, Entering
<1>11. StepHolds(t)'
  BY <1>1, <1>2, <1>3 DEF StepHolds, Announcing, Preparing, Entering
<1> QED BY <1>5, <1>6, <1>7, <1>8, <1>9, <1>10, <1>11 DEF TerminalHolds

LEMMA FailsHold ==
    ASSUME IInv, NEW t \in Terminals, Frame(t), term[t].step \in Preparing \cup Entering,
           NEW phase \in Admitted..HandoffPrepared, Failed(t, phase), owner' = Dropped(t),
           Promised(t, phase), handed' = handed,
           journal'[term[t].id] \in
             {journal[term[t].id], [phase |-> phase, failed |-> FALSE, dispatched |-> TRUE]}
    PROVE  IInv'
<1>1. journal[term[t].id].dispatched
  BY UnderWay
<1>2. journal'[term[t].id].dispatched
  BY <1>1
<1>3. TerminalHolds(t)'
  BY <1>2, FailedHolds
<1>4. phase \in Phases /\ phase # Selected
  BY ConstantsAre
<1>5. \A j \in Ids : j = term[t].id => RecordHolds(j)'
  BY <1>4, PhaseRecorded
<1> QED BY <1>3, <1>5, Suffices

\* It fails where it is.
LEMMA FailsHere ==
    ASSUME IInv, NEW t \in Terminals, term[t].step \in Preparing \cup Entering,
           Fails(t, term[t]), handed' = handed, journal' = journal,
           Moves(t) /\ Yields(t) => Frame(t)
    PROVE  IInv'
<1>1. Moves(t) /\ Yields(t) /\ owner' = Dropped(t) /\ Failed(t, term[t].phase)
  BY UnderWay, FailsIs
<1>2. Frame(t)
  BY <1>1
<1>3. term[t].phase \in Admitted..HandoffPrepared /\ PhaseHolds(term[t].id, term[t].phase)
  BY UnderWay
<1>4. Promised(t, term[t].phase)
  BY <1>2, <1>3, PromiseIs
<1> QED BY <1>1, <1>2, <1>3, <1>4, FailsHold

LEMMA WithPhase ==
    ASSUME IInv, NEW t \in Terminals, NEW phase \in Admitted..HandoffPrepared
    PROVE  LET r == term[t]  s == [term[t] EXCEPT !.phase = phase] IN
             /\ s \in Terms /\ s.at = r.at /\ s.id = r.id /\ s.app = r.app /\ s.bg = r.bg
             /\ s.busy = r.busy /\ s.next = r.next /\ s.phase = phase /\ s.step = r.step
             /\ s.target = r.target
<1>1. term[t] \in Terms /\ phase \in Phases
  BY Mine, ConstantsAre
<1> QED BY <1>1 DEF Terms

\* The record of a phase fails.
LEMMA RecordFails ==
    ASSUME IInv, NEW t \in Terminals, term[t].step \in Preparing \cup Entering,
           NEW phase \in Admitted..HandoffPrepared, NEW w,
           Publish(w, term[t].id, [phase |-> phase, failed |-> FALSE, dispatched |-> TRUE]),
           Fails(t, [term[t] EXCEPT !.phase = phase]),
           UNCHANGED <<repo, mission, saved, asked, effects, handed, cleared>>,
           Frame(t) => Promised(t, phase)
    PROVE  IInv'
<1> DEFINE record == [phase |-> phase, failed |-> FALSE, dispatched |-> TRUE]
           r == [term[t] EXCEPT !.phase = phase]
<1>1. term[t].id \in Ids /\ record \in Records
  <2>1. phase \in Phases
    BY ConstantsAre
  <2> QED BY <2>1, UnderWay, ConstantsAre
<1>2. /\ r \in Terms /\ r.at = term[t].at /\ r.id = term[t].id /\ r.app = term[t].app
      /\ r.bg = term[t].bg /\ r.busy = term[t].busy /\ r.phase = phase
  BY WithPhase
<1> HIDE DEF r
<1>3. Moves(t) /\ Yields(t) /\ owner' = Dropped(t) /\ Failed(t, phase)
  <2>1. Fails(t, r)
    BY DEF r
  <2> QED BY <1>2, <2>1, FailsIs
<1> HIDE DEF record
<1>4. /\ faults' \in Nat /\ Publishes(t)
      /\ journal'[term[t].id] = IF Takes(w) THEN record ELSE journal[term[t].id]
  <2>1. Publish(w, term[t].id, record)
    BY DEF record
  <2> QED BY <1>1, <2>1, PublishIs
<1>5. Frame(t)
  BY <1>3, <1>4, Stays, FrameIs
<1>6. journal'[term[t].id] \in {journal[term[t].id], record}
  BY <1>4
<1> QED BY <1>3, <1>5, <1>6, FailsHold DEF record

\* A preparation goes on.
LEMMA PreparesHold ==
    ASSUME IInv, NEW t \in Terminals, Frame(t), term[t].step \in Preparing, Keeps(t),
           NEW step \in Preparing \ {"current"}, term'[t].step = step,
           NEW phase \in Admitted..HandoffPrepared, term'[t].phase = phase, Promised(t, phase),
           UNCHANGED <<owner, handed>>, journal'[term[t].id].dispatched,
           step \in {"initialise", "repository-done"} /\ Request(t).create =>
              "repository" \in effects'[term[t].id],
           step \in {"mission", "mission-done"} => Promised(t, RepositoryReady),
           step = "mission-done" => mission'[Target(t)],
           step = "open" => Promised(t, MissionReady)
    PROVE  TerminalHolds(t)'
<1> DEFINE r == term[t]
           s == term'[t]
<1>1. /\ TerminalHolds(t) /\ r.busy = FALSE /\ r.id # 0 /\ r.id \notin handed
      /\ Request(t).from = r.at /\ r.target = Nobody
      /\ r.id \in DOMAIN asked
  BY UnderWay DEF Preparing, Entering
<1>2. /\ s.at = r.at /\ s.target = r.target /\ s.id = r.id /\ s.app = r.app
      /\ s.next = r.next /\ s.busy = FALSE
  BY <1>1 DEF Keeps
<1>3. /\ Request(t)' = Request(t) /\ Target(t)' = Target(t)
      /\ PhaseHolds(term[t].id, term[t].phase)'
      /\ Promised(t, RepositoryReady) => PhaseHolds(term[t].id, RepositoryReady)'
      /\ Promised(t, MissionReady) => PhaseHolds(term[t].id, MissionReady)'
  BY <1>2, PromiseIs
<1>4. step \in Preparing /\ step # "current"
  OBVIOUS
<1>5. OwnerHolds(t)'
  BY <1>1, <1>2, <1>4 DEF TerminalHolds, OwnerHolds, Preparing, Entering, Leaving
<1>6. RequestHolds(t)'
  <2>1. r.id <= Len(asked')
    BY <1>1, IdKept
  <2> QED BY <1>1, <1>2, <1>3, <1>4, <2>1
          DEF RequestHolds, Resting, Announcing, Preparing, Entering
<1>7. HistoryHolds(t)' /\ CopiesHold(t)' /\ EntriesHold(t)'
  BY <1>4, KeepsHold DEF Preparing, Entering
<1>8. ShownHolds(t)'
  BY <1>1, <1>2, <1>4 DEF TerminalHolds, ShownHolds, Resting, Leaving, Entering, Preparing
<1>9. StepHolds(t)'
  BY <1>1, <1>2, <1>3, <1>4 DEF StepHolds, Announcing, Preparing, Entering
<1> QED BY <1>5, <1>6, <1>7, <1>8, <1>9 DEF TerminalHolds

-----------------------------------------------------------------------------
(* The preparation.  *)

LEMMA CurrentHolds ==
    ASSUME IInv, NEW t \in Terminals, Current(t)
    PROVE  IInv'
<1> DEFINE r == term[t]
           i == term[t].id
           record == [phase |-> AlreadyCurrent, failed |-> FALSE, dispatched |-> TRUE]
<1>1. /\ r.step = "current"
      /\ UNCHANGED <<repo, mission, owner, saved, asked, effects, handed, cleared>>
  BY DEF Current
<1>2. PICK w \in Writes :
        /\ Publish(w, i, record)
        /\ Become(t, [term[t] EXCEPT
             !.step = "settle",
             !.app = Mark(@, term[t].id, FALSE, Observed(w, AlreadyCurrent, FALSE))])
  BY DEF Current
<1>3. /\ TerminalHolds(t) /\ StateTypeOK /\ r \in Terms /\ i \in Ids /\ r.app \in SUBSET Entries
      /\ r.at # Nobody /\ r.busy = FALSE
  BY <1>1, UnderWay DEF Preparing, TerminalHolds, OwnerHolds
<1>4. record \in Records
  BY ConstantsAre
<1> HIDE DEF record
<1>5. /\ faults' \in Nat /\ Publishes(t)
      /\ journal'[i] = IF Takes(w) THEN record ELSE journal[i]
  BY <1>2, <1>3, <1>4, PublishIs
<1> DEFINE shown == Observed(w, AlreadyCurrent, FALSE)
           M == Mark(r.app, i, FALSE, shown)
           s == [term[t] EXCEPT !.step = "settle", !.app = M]
<1>6. TrueEnd(shown, i)
  <2>1. AlreadyCurrent \in Phases /\ AlreadyCurrent # Selected
    BY ConstantsAre
  <2>2. shown \in {At(AlreadyCurrent, FALSE), Says("unknown")}
    BY DEF Observed
  <2> HIDE DEF shown
  <2> QED BY <2>1, <2>2, ShownIs DEF TrueEnd, Final
<1>7. M \in SUBSET Entries
  <2>1. shown \in Shown
    BY <1>6 DEF TrueEnd
  <2> HIDE DEF shown
  <2> QED BY <1>3, <2>1, MarkIs DEF Marked
<1>8. Become(t, s)
  BY <1>2
<1> HIDE DEF shown, M
<1>9. /\ s \in Terms /\ s.step = "settle" /\ s.at = r.at /\ s.target = r.target /\ s.id = i
      /\ s.app = M /\ s.next = r.next /\ s.bg = r.bg /\ s.busy = r.busy
  BY <1>3, <1>7 DEF Terms, Steps
<1> HIDE DEF s
<1>10. /\ term' \in [Terminals -> Terms] /\ term'[t] = s
       /\ \A u \in Terminals : u # t => term'[u] = term[u]
  BY <1>3, <1>8, <1>9, BecomesIs
<1>11. Moves(t) /\ Settles(t, shown)
  BY <1>1, <1>3, <1>9, <1>10 DEF Moves, Settles, M
<1>12. Frame(t)
  BY <1>1, <1>5, <1>11, Stays, FrameIs
<1>13. TerminalHolds(t)'
  BY <1>1, <1>3, <1>6, <1>11, <1>12, SettlesHold DEF Preparing
<1>14. \A j \in Ids : j = i => RecordHolds(j)'
  <2>1. Promised(t, AlreadyCurrent) /\ AlreadyCurrent \in Phases /\ AlreadyCurrent # Selected
    BY ConstantsAre DEF Promised
  <2>2. journal'[i] \in {journal[i], record}
    BY <1>5
  <2> QED BY <1>1, <1>12, <2>1, <2>2, PhaseRecorded DEF record, Preparing
<1> QED BY <1>12, <1>13, <1>14, Suffices

\* As FrameIs, of an action that creates something.
Effects(t) ==
    /\ effects' \in [Ids -> SUBSET {"repository", "mission"}]
    /\ \A i \in Ids : /\ i # term[t].id => effects'[i] = effects[i]
                      /\ effects[i] \subseteq effects'[i]

LEMMA CreatesIs ==
    ASSUME IInv, NEW t \in Terminals, term[t].id \in Ids,
           NEW what \in {"repository", "mission"}, Creates(t, what)
    PROVE  Effects(t) /\ what \in effects'[term[t].id]
BY DEF IInv, StateTypeOK, Creates, Effects

LEMMA NothingCreated ==
    ASSUME IInv, NEW t \in Terminals, effects' = effects
    PROVE  Effects(t)
BY DEF IInv, StateTypeOK, Effects

LEMMA CreatingFrame ==
    ASSUME IInv, NEW t \in Terminals, Moves(t), Publishes(t), Saves(t), Yields(t), Effects(t),
           Clears(t),
           repo' \in [Repos -> {"absent", "made", "init", "ready"}],
           mission' \in [Places -> BOOLEAN], \A p \in Places : mission[p] => mission'[p],
           asked' = asked, faults' \in Nat, handed' = handed, term[t].step # "settle"
    PROVE  Frame(t)
<1>1. StateTypeOK'
  BY DEF IInv, StateTypeOK, Moves, Publishes, Saves, Yields, Effects, Clears
<1> QED BY <1>1 DEF Frame, Moves, Publishes, Saves, Yields, Effects, Clears

\* A step of the preparation after which nothing else has to be shown.
LEMMA GoesOn ==
    ASSUME IInv, NEW t \in Terminals, Frame(t), term[t].step \in Preparing,
           NEW step \in Preparing \ {"current"}, Goes(t, step),
           UNCHANGED <<owner, journal, handed, saved>>,
           step \in {"initialise", "repository-done"} /\ Request(t).create =>
              "repository" \in effects'[term[t].id],
           step \in {"mission", "mission-done"} => Promised(t, RepositoryReady),
           step = "mission-done" => mission'[Target(t)],
           step # "open"
    PROVE  IInv'
<1>1. step \in Steps /\ term[t].step # "settle"
  BY DEF Preparing, Steps
<1>2. Keeps(t) /\ term'[t].step = step /\ term'[t].phase = term[t].phase
  BY <1>1, GoesIs DEF Keeps
<1>3. /\ term[t].phase \in Admitted..HandoffPrepared /\ PhaseHolds(term[t].id, term[t].phase)
      /\ journal[term[t].id].dispatched /\ term[t].id \in Ids
  BY UnderWay
<1>4. Promised(t, term[t].phase)
  BY <1>3, PromiseIs
<1>5. TerminalHolds(t)'
  BY <1>2, <1>3, <1>4, PreparesHold
<1>6. \A j \in Ids : j = term[t].id => RecordHolds(j)'
  BY <1>3, WrittenLater
<1> QED BY <1>5, <1>6, Suffices

LEMMA PrepareHolds ==
    ASSUME IInv, NEW t \in Terminals, Prepare(t)
    PROVE  IInv'
<1> DEFINE q == Request(t)
           d == RepoOf[Request(t).to]
<1>1. /\ term[t].step = "repository" /\ term[t].step \in Preparing
      /\ term[t].step # "settle"
      /\ UNCHANGED <<mission, saved, journal, asked, faults, handed, cleared>>
  BY DEF Prepare, Preparing
<1>2. term[t].id \in Ids
  BY <1>1, UnderWay
<1>3. CASE ~Valid(d, q.create)
  <2>1. Fails(t, term[t]) /\ UNCHANGED <<repo, effects>>
    BY <1>3 DEF Prepare
  <2>2. Moves(t) /\ Yields(t) => Frame(t)
    BY <1>1, <2>1, Stays, FrameIs
  <2> QED BY <1>1, <2>1, <2>2, FailsHere
<1>4. CASE Valid(d, q.create) /\ q.create
  <2>1. /\ repo' = [repo EXCEPT ![d] = "made"] /\ Creates(t, "repository")
        /\ Goes(t, "initialise") /\ UNCHANGED owner
    BY <1>4 DEF Prepare
  <2>2. repo' \in [Repos -> {"absent", "made", "init", "ready"}]
    BY <2>1, Mine DEF StateTypeOK
  <2>3. Effects(t) /\ "repository" \in effects'[term[t].id]
    BY <1>2, <2>1, CreatesIs
  <2>4. Moves(t)
    BY <1>1, <2>1, GoesIs DEF Steps
  <2>5. Frame(t)
    BY <1>1, <2>1, <2>2, <2>3, <2>4, Stays, CreatingFrame
  <2>6. /\ "initialise" \in Preparing \ {"current"}
        /\ "initialise" \notin {"mission", "mission-done", "open"}
    BY DEF Preparing
  <2> QED BY <1>1, <2>1, <2>3, <2>5, <2>6, GoesOn
<1>5. CASE Valid(d, q.create) /\ ~q.create
  <2>1. Goes(t, "repository-done") /\ UNCHANGED <<repo, effects, owner>>
    BY <1>5 DEF Prepare
  <2>2. Moves(t)
    BY <1>1, <2>1, GoesIs DEF Steps
  <2>3. Frame(t)
    BY <1>1, <2>1, <2>2, Stays, FrameIs
  <2>4. /\ "repository-done" \in Preparing \ {"current"}
        /\ "repository-done" \notin {"mission", "mission-done", "open"}
    BY DEF Preparing
  <2> QED BY <1>1, <1>5, <2>1, <2>3, <2>4, GoesOn
<1> QED BY <1>3, <1>4, <1>5

LEMMA InitialiseHolds ==
    ASSUME IInv, NEW t \in Terminals, Initialise(t)
    PROVE  IInv'
<1>1. /\ term[t].step = "initialise" /\ term[t].step \in Preparing
      /\ term[t].step # "settle"
      /\ UNCHANGED <<mission, saved, journal, asked, faults, effects, handed, cleared>>
  BY DEF Initialise, Preparing
<1>2. PICK end \in {"made", "init", "ready"} :
        /\ repo' = [repo EXCEPT ![RepoOf[Target(t)]] = end]
        /\ IF end = "ready" THEN Goes(t, "repository-done") /\ UNCHANGED owner
           ELSE Fails(t, term[t])
  BY DEF Initialise
<1>3. repo' \in [Repos -> {"absent", "made", "init", "ready"}]
  BY <1>2, Mine DEF StateTypeOK
<1>4. CASE end = "ready"
  <2>1. Goes(t, "repository-done") /\ UNCHANGED owner
    BY <1>2, <1>4
  <2>2. Moves(t)
    BY <1>1, <2>1, GoesIs DEF Steps
  <2>3. Frame(t)
    BY <1>1, <1>3, <2>1, <2>2, Stays, FrameIs
  <2>4. /\ "repository-done" \in Preparing \ {"current"}
        /\ "repository-done" \notin {"mission", "mission-done", "open"}
    BY DEF Preparing
  <2>5. Request(t).create => "repository" \in effects'[term[t].id]
    BY <1>1, Mine DEF TerminalHolds, StepHolds
  <2> QED BY <1>1, <2>1, <2>3, <2>4, <2>5, GoesOn
<1>5. CASE end # "ready"
  <2>1. Fails(t, term[t])
    BY <1>2, <1>5
  <2>2. Moves(t) /\ Yields(t) => Frame(t)
    BY <1>1, <1>3, Stays, FrameIs
  <2> QED BY <1>1, <2>1, <2>2, FailsHere
<1> QED BY <1>4, <1>5

LEMMA AdvancesIs ==
    ASSUME IInv, NEW t \in Terminals, NEW step \in Steps, NEW phase \in Phases,
           Become(t, [term[t] EXCEPT !.step = step, !.phase = phase]), term[t].step # "settle"
    PROVE  LET r == term[t]  s == term'[t] IN
             /\ Moves(t) /\ s.step = step /\ s.at = r.at /\ s.target = r.target /\ s.id = r.id
             /\ s.app = r.app /\ s.next = r.next /\ s.bg = r.bg /\ s.busy = r.busy
             /\ s.phase = phase
<1> DEFINE s == [term[t] EXCEPT !.step = step, !.phase = phase]
<1>1. term[t] \in Terms /\ StateTypeOK
  BY Mine
<1>2. /\ s \in Terms /\ s.step = step /\ s.at = term[t].at /\ s.target = term[t].target
      /\ s.id = term[t].id /\ s.app = term[t].app /\ s.next = term[t].next
      /\ s.bg = term[t].bg /\ s.busy = term[t].busy /\ s.phase = phase
  BY <1>1 DEF Terms
<1> HIDE DEF s
<1>3. /\ term' \in [Terminals -> Terms] /\ term'[t] = s
      /\ \A u \in Terminals : u # t => term'[u] = term[u]
  <2>1. Become(t, s)
    BY DEF s
  <2> QED BY <1>1, <1>2, <2>1, BecomesIs
<1> QED BY <1>2, <1>3 DEF Moves

\* The record of a phase that was reached, and the step after it.
LEMMA PhaseReached ==
    ASSUME IInv, NEW t \in Terminals, term[t].step \in Preparing,
           NEW phase \in {RepositoryReady, MissionReady},
           NEW step \in {"mission", "open"}, step = "mission" <=> phase = RepositoryReady, NEW w,
           Publish(w, term[t].id, [phase |-> phase, failed |-> FALSE, dispatched |-> TRUE]),
           UNCHANGED <<repo, mission, saved, asked, effects, handed, cleared>>,
           Frame(t) => Promised(t, phase),
           \/ Fails(t, [term[t] EXCEPT !.phase = phase])
           \/ /\ Become(t, [term[t] EXCEPT !.step = step, !.phase = phase])
              /\ UNCHANGED owner
    PROVE  IInv'
<1> DEFINE record == [phase |-> phase, failed |-> FALSE, dispatched |-> TRUE]
<1>1. /\ phase \in Phases /\ phase \in Admitted..HandoffPrepared /\ phase # Selected
      /\ step \in Steps /\ step \in Preparing \ {"current"} /\ term[t].step # "settle"
  <2>1. /\ phase \in Phases /\ phase \in Admitted..HandoffPrepared /\ phase # Selected
    BY ConstantsAre
  <2>2. /\ step \in Steps /\ step \in Preparing \ {"current"} /\ term[t].step # "settle"
    BY DEF Steps, Preparing
  <2> QED BY <2>1, <2>2
<1>2. CASE Fails(t, [term[t] EXCEPT !.phase = phase])
  BY <1>1, <1>2, RecordFails
<1>3. CASE Become(t, [term[t] EXCEPT !.step = step, !.phase = phase]) /\ UNCHANGED owner
  <2>1. /\ Moves(t) /\ Keeps(t) /\ term'[t].step = step /\ term'[t].phase = phase
    BY <1>1, <1>3, AdvancesIs DEF Keeps
  <2>2. record \in Records /\ record.dispatched /\ term[t].id \in Ids
        /\ journal[term[t].id].dispatched
    BY <1>1, ConstantsAre, UnderWay
  <2>3. /\ faults' \in Nat /\ Publishes(t)
        /\ journal'[term[t].id] = IF Takes(w) THEN record ELSE journal[term[t].id]
    BY <2>2, PublishIs
  <2> HIDE DEF record
  <2>4. Frame(t)
    BY <1>3, <2>1, <2>3, Stays, FrameIs
  <2>5. Promised(t, phase)
    BY <2>4
  <2>6. journal'[term[t].id].dispatched
    BY <2>2, <2>3
  <2>7. /\ step = "mission" => Promised(t, RepositoryReady)
        /\ step = "open" => Promised(t, MissionReady)
        /\ step \notin {"initialise", "repository-done", "mission-done"}
    BY <2>5
  <2>8. TerminalHolds(t)'
    BY <1>1, <1>3, <2>1, <2>4, <2>5, <2>6, <2>7, PreparesHold
  <2>9. journal'[term[t].id] \in {journal[term[t].id], record}
    BY <2>3
  <2>10. \A j \in Ids : j = term[t].id => RecordHolds(j)'
    BY <1>1, <2>4, <2>5, <2>9, PhaseRecorded DEF record
  <2> QED BY <2>4, <2>8, <2>10, Suffices
<1> QED BY <1>2, <1>3

LEMMA RepositoryDoneHolds ==
    ASSUME IInv, NEW t \in Terminals, RepositoryDone(t)
    PROVE  IInv'
<1>1. /\ term[t].step = "repository-done" /\ term[t].step \in Preparing
      /\ UNCHANGED <<repo, mission, saved, asked, effects, handed, cleared>>
  BY DEF RepositoryDone, Preparing
<1>2. RepositoryReady \in Admitted..HandoffPrepared
  BY ConstantsAre
<1>3. PICK w \in Writes :
        /\ Publish(w, term[t].id,
                   [phase |-> RepositoryReady, failed |-> FALSE, dispatched |-> TRUE])
        /\ \/ Fails(t, [term[t] EXCEPT !.phase = RepositoryReady])
           \/ /\ Become(t, [term[t] EXCEPT !.step = "mission", !.phase = RepositoryReady])
              /\ UNCHANGED owner
  BY <1>2, WithPhase DEF RepositoryDone, Advance
<1>4. Request(t).create => "repository" \in effects[term[t].id]
  BY <1>1, UnderWay DEF TerminalHolds, StepHolds
<1>5. Promised(t, RepositoryReady)
  BY <1>1, <1>4, ConstantsAre DEF Promised
<1> QED BY <1>1, <1>3, <1>5, PhaseReached

LEMMA MissionDoneHolds ==
    ASSUME IInv, NEW t \in Terminals, MissionDone(t)
    PROVE  IInv'
<1>1. /\ term[t].step = "mission-done" /\ term[t].step \in Preparing
      /\ UNCHANGED <<repo, mission, saved, asked, effects, handed, cleared>>
  BY DEF MissionDone, Preparing
<1>2. MissionReady \in Admitted..HandoffPrepared
  BY ConstantsAre
<1>3. PICK w \in Writes :
        /\ Publish(w, term[t].id,
                   [phase |-> MissionReady, failed |-> FALSE, dispatched |-> TRUE])
        /\ \/ Fails(t, [term[t] EXCEPT !.phase = MissionReady])
           \/ /\ Become(t, [term[t] EXCEPT !.step = "open", !.phase = MissionReady])
              /\ UNCHANGED owner
  BY <1>2, WithPhase DEF MissionDone, Advance
<1>4. PhaseHolds(term[t].id, RepositoryReady) /\ mission[Target(t)]
  BY <1>1, UnderWay DEF TerminalHolds, StepHolds
<1>5. Request(t).create => "repository" \in effects[term[t].id]
  <2>1. RepositoryReady \in RepositoryReady..Selected
    BY ConstantsAre
  <2> QED BY <1>1, <1>4, <2>1, UnderWay DEF PhaseHolds
<1>6. Promised(t, MissionReady)
  BY <1>1, <1>4, <1>5, ConstantsAre DEF Promised
<1>7. MissionReady # RepositoryReady
  BY ConstantsAre
<1> QED BY <1>1, <1>3, <1>6, <1>7, PhaseReached

LEMMA SelectMissionHolds ==
    ASSUME IInv, NEW t \in Terminals, SelectMission(t)
    PROVE  IInv'
<1> DEFINE q == Request(t)
<1>1. /\ term[t].step = "mission" /\ term[t].step \in Preparing /\ term[t].step # "settle"
      /\ UNCHANGED <<repo, saved, journal, asked, handed, cleared>>
  BY DEF SelectMission, Preparing
<1>2. /\ term[t].id \in Ids /\ Target(t) \in Places /\ mission \in [Places -> BOOLEAN]
      /\ PhaseHolds(term[t].id, RepositoryReady) /\ Target(t) = q.to
  BY <1>1, UnderWay DEF TerminalHolds, StepHolds, StateTypeOK, Target
<1>3. ASSUME Frame(t), Goes(t, "mission-done"), UNCHANGED owner, mission'[Target(t)]
      PROVE  IInv'
  <2>1. "mission-done" \in Preparing \ {"current"}
    BY DEF Preparing
  <2>2. Promised(t, RepositoryReady)
    BY <1>1, <1>2, <1>3, PromiseIs
  <2> QED BY <1>1, <1>3, <2>1, <2>2, GoesOn
<1>4. CASE q.new = mission[q.to]
  <2>1. Fails(t, term[t]) /\ UNCHANGED <<mission, effects, faults>>
    BY <1>4 DEF SelectMission
  <2>2. Moves(t) /\ Yields(t) => Frame(t)
    BY <1>1, <2>1, Stays, FrameIs
  <2> QED BY <1>1, <2>1, <2>2, FailsHere
<1>5. CASE q.new # mission[q.to] /\ ~q.new
  <2>1. Goes(t, "mission-done") /\ UNCHANGED <<mission, effects, faults, owner>>
    BY <1>5 DEF SelectMission
  <2>2. mission'[Target(t)]
    <3>1. q.new \in BOOLEAN
      BY <1>1, Mine DEF Requests, Preparing, Resting
    <3> QED BY <1>2, <1>5, <2>1, <3>1, Zenon
  <2>3. Moves(t)
    BY <1>1, <2>1, GoesIs DEF Steps
  <2>4. Frame(t)
    BY <1>1, <2>1, <2>3, Stays, FrameIs
  <2> QED BY <1>3, <2>1, <2>2, <2>4
<1>6. CASE q.new # mission[q.to] /\ q.new
  <2>1. PICK w \in Writes :
          /\ Costs(w)
          /\ IF Takes(w)
             THEN mission' = [mission EXCEPT ![q.to] = TRUE] /\ Creates(t, "mission")
             ELSE UNCHANGED <<mission, effects>>
          /\ IF w = "ok" THEN Goes(t, "mission-done") /\ UNCHANGED owner
             ELSE Fails(t, term[t])
    BY <1>6 DEF SelectMission
  <2>2. faults' \in Nat
    BY <2>1, Mine, CostsIs
  <2>3. Effects(t)
    BY <1>2, <2>1, CreatesIs, NothingCreated
  <2>4. /\ mission' \in [Places -> BOOLEAN]
        /\ \A p \in Places : mission[p] => mission'[p]
    BY <1>2, <2>1
  <2>5. CASE w = "ok"
    <3>1. /\ mission' = [mission EXCEPT ![q.to] = TRUE]
          /\ Goes(t, "mission-done") /\ UNCHANGED owner
      BY <2>1, <2>5 DEF Takes
    <3>2. mission'[Target(t)]
      BY <1>2, <3>1
    <3>3. Moves(t)
      BY <1>1, <3>1, GoesIs DEF Steps
    <3>4. Frame(t)
      BY <1>1, <2>2, <2>3, <2>4, <3>1, <3>3, Stays, CreatingFrame
    <3> QED BY <1>3, <3>1, <3>2, <3>4
  <2>6. CASE w # "ok"
    <3>1. Fails(t, term[t])
      BY <2>1, <2>6
    <3>2. Moves(t) /\ Yields(t) => Frame(t)
      BY <1>1, <2>2, <2>3, <2>4, Stays, CreatingFrame
    <3> QED BY <1>1, <3>1, <3>2, FailsHere
  <2> QED BY <2>5, <2>6
<1> QED BY <1>4, <1>5, <1>6

-----------------------------------------------------------------------------
(* The target.  *)

LEMMA RestoredIsTrue ==
    ASSUME IInv, NEW p \in Places, NEW T, Restored(saved[p], T)
    PROVE  \A e \in T : TrueEntry(e) /\ Settled(e)
<1> SUFFICES ASSUME NEW e \in T PROVE TrueEntry(e) /\ Settled(e)
  OBVIOUS
<1>1. e \in Entries /\ e.id \in DOMAIN asked /\ e.id \in Ids
  <2>1. PICK d \in saved[p] : d.id = e.id
    BY DEF Restored
  <2>2. d.id \in DOMAIN asked
    BY DEF IInv, FileHolds, TrueEntry
  <2> QED BY <2>1, <2>2, TypeFacts DEF IInv, Restored
<1>2. CASE e.shown = Says("unknown")
  <2>1. e.shown.kind = "unknown"
    BY <1>2, ShownIs
  <2> QED BY <1>1, <2>1 DEF TrueEntry, Settled
<1>3. CASE e.shown # Says("unknown")
  <2> DEFINE record == journal[e.id]
  <2>1. /\ record # NoRecord /\ (record.failed \/ record.phase \in Final)
        /\ e.shown = At(record.phase, record.failed)
    BY <1>3 DEF Restored
  <2>2. record.phase \in Phases /\ record.failed \in BOOLEAN
    BY <1>1, TypeFacts DEF IInv, Records
  <2>3. /\ e.shown.kind = "at" /\ e.shown.phase = record.phase
        /\ e.shown.failed = record.failed
    BY <2>1, <2>2, ShownIs
  <2>4. RecordHolds(e.id)
    BY <1>1 DEF IInv
  <2>5. record.dispatched
    <3>1. /\ NewRecord.failed = FALSE /\ NewRecord.phase \notin Final
      BY DEF NewRecord, Final, Admitted, Selected, AlreadyCurrent
    <3> QED BY <2>1, <2>4, <3>1 DEF RecordHolds
  <2> HIDE DEF record
  <2> QED BY <1>1, <2>1, <2>3, <2>4, <2>5 DEF RecordHolds, TrueEntry, Settled, record
<1> QED BY <1>2, <1>3

LEMMA OpenHolds ==
    ASSUME IInv, NEW t \in Terminals, Open(t)
    PROVE  IInv'
<1> DEFINE r == term[t]
           p == Target(t)
<1>1. /\ r.step = "open" /\ r.step \in Preparing /\ r.step # "settle"
      /\ UNCHANGED <<repo, mission, saved, journal, asked, effects, handed, cleared>>
  BY DEF Open, Preparing
<1>2. CASE Fails(t, term[t]) /\ UNCHANGED faults
  <2>1. Moves(t) /\ Yields(t) => Frame(t)
    BY <1>1, <1>2, Stays, FrameIs
  <2> QED BY <1>1, <1>2, <2>1, FailsHere
<1>3. ASSUME owner[p] = Nobody, NEW w \in {"ok", "failed"}, Costs(w),
             Become(t, [term[t] EXCEPT !.step = "loaded", !.target = p,
                          !.next = {Reconciled(e, w = "ok") : e \in saved[p]}]),
             owner' = [owner EXCEPT ![p] = t]
      PROVE  IInv'
  <2> DEFINE N == {Reconciled(e, w = "ok") : e \in saved[p]}
             s == [term[t] EXCEPT !.step = "loaded", !.target = p, !.next = N]
  <2>1. /\ TerminalHolds(t) /\ StateTypeOK /\ r \in Terms /\ p \in Places
        /\ r.at \in Places \cup {Nobody} /\ Nobody \notin Places /\ r.target = Nobody
        /\ r.id # 0 /\ r.id \in DOMAIN asked /\ r.id \in Ids /\ journal[r.id].dispatched
        /\ r.id \notin handed /\ r.phase \in Admitted..HandoffPrepared
        /\ Request(t).from = r.at /\ r.busy = FALSE /\ PhaseHolds(r.id, r.phase)
        /\ PhaseHolds(r.id, MissionReady)
    BY <1>1, UnderWay DEF TerminalHolds, StepHolds, Preparing, Entering
  <2>2. Restored(saved[p], N)
    <3>1. saved[p] \in SUBSET Entries /\ (w = "ok") \in BOOLEAN
      BY <2>1, TypeFacts
    <3> QED BY <2>1, <3>1, ReconciledIs
  <2>3. N \in SUBSET Entries /\ Retains(saved[p], N) /\ IsFiniteSet(N)
        /\ \A e \in N : TrueEntry(e) /\ Settled(e)
    <3>1. IsFiniteSet(saved[p])
      BY <2>1 DEF IInv, FileHolds
    <3> QED BY <2>1, <2>2, <3>1, RestoredIsTrue DEF Restored
  <2> HIDE DEF N
  <2>4. /\ s \in Terms /\ s.step = "loaded" /\ s.at = r.at /\ s.target = p /\ s.id = r.id
        /\ s.app = r.app /\ s.next = N /\ s.bg = r.bg /\ s.busy = r.busy
        /\ s.phase = r.phase
    BY <2>1, <2>3 DEF Terms, Steps
  <2> HIDE DEF s
  <2>5. /\ term' \in [Terminals -> Terms] /\ term'[t] = s
        /\ \A u \in Terminals : u # t => term'[u] = term[u]
    <3>1. Become(t, s)
      BY <1>3 DEF s, N
    <3> QED BY <2>1, <2>4, <3>1, BecomesIs
  <2>6. Moves(t)
    BY <1>1, <2>4, <2>5 DEF Moves
  <2>7. /\ owner \in [Places -> Terminals \cup {Nobody}] /\ Nobody \notin Terminals
        /\ \A x \in Places : owner'[x] = IF x = p THEN t ELSE owner[x]
        /\ owner' \in [Places -> Terminals \cup {Nobody}]
    BY <1>3, <2>1, Mine DEF StateTypeOK
  <2>8. Yields(t)
    BY <1>3, <2>1, <2>7 DEF Yields
  <2>9. faults' \in Nat
    BY <1>3, <2>1, CostsIs
  <2>10. Frame(t)
    BY <1>1, <2>6, <2>8, <2>9, Stays, FrameIs
  <2>11. /\ Request(t)' = Request(t) /\ Target(t)' = p
         /\ PhaseHolds(term[t].id, term[t].phase)'
         /\ PhaseHolds(term[t].id, MissionReady)'
    <3>1. Promised(t, term[t].phase) /\ Promised(t, MissionReady)
      BY <1>1, <2>1, <2>10, PromiseIs
    <3> QED BY <1>1, <2>4, <2>5, <2>10, <3>1, PromiseIs
  <2> HIDE DEF p, r
  <2>12. OwnerHolds(t)'
    <3>1. r.at # Nobody => owner[r.at] = t /\ r.at # p
      BY <1>3, <2>1, <2>7 DEF TerminalHolds, OwnerHolds, r
    <3>2. \A x \in Places : owner[x] # t \/ x = r.at
      BY <2>1 DEF TerminalHolds, OwnerHolds, r
    <3> QED BY <2>1, <2>4, <2>5, <2>7, <2>11, <3>1, <3>2
            DEF OwnerHolds, Entering, Leaving
  <2>13. RequestHolds(t)'
    <3>1. r.id <= Len(asked')
      BY <2>1, <2>10, IdKept
    <3> QED BY <2>1, <2>4, <2>5, <2>11, <3>1
            DEF RequestHolds, Resting, Announcing, Preparing, Entering
  <2>14. HistoryHolds(t)'
    BY <2>1, <2>3, <2>4, <2>5 DEF TerminalHolds, HistoryHolds, r
  <2>15. CopiesHold(t)'
    <3>1. r.at # Nobody => RetainsBut(cleared', r.at, saved'[r.at], r.app)
      BY <2>10, CopiesKept DEF r
    <3>2. RetainsBut(cleared', p, saved'[p], N)
      BY <1>1, <2>3, RetainsAll
    <3> QED BY <1>1, <2>1, <2>4, <2>5, <3>1, <3>2 DEF CopiesHold
  <2>16. EntriesHold(t)'
    <3>1. \A e \in N : TrueEntry(e)'
      BY <2>3, <2>10, StaysTrue
    <3> QED BY <2>4, <2>5, <2>10, <3>1, EntriesStay DEF r
  <2>17. ShownHolds(t)'
    <3>1. \A e \in r.app : Settled(e) \/ (e.id = r.id /\ ~e.arrival)
      BY <2>1 DEF TerminalHolds, ShownHolds, r
    <3> QED BY <2>3, <2>4, <2>5, <3>1 DEF ShownHolds, Resting, Leaving, Entering
  <2>18. StepHolds(t)'
    BY <1>1, <2>1, <2>4, <2>5, <2>11 DEF StepHolds, Announcing, Preparing, Entering
  <2>19. TerminalHolds(t)'
    BY <2>12, <2>13, <2>14, <2>15, <2>16, <2>17, <2>18 DEF TerminalHolds
  <2>20. \A j \in Ids : j = r.id => RecordHolds(j)'
    BY <1>1, <2>1, <2>10, WrittenLater
  <2> QED BY <2>10, <2>19, <2>20, Suffices DEF r
<1> QED BY <1>2, <1>3 DEF Open

LEMMA EntersHold ==
    ASSUME IInv, NEW t \in Terminals, Frame(t), term[t].step \in Entering, Keeps(t),
           NEW step \in Entering \ {"loaded", "source"}, term'[t].step = step,
           term[t].step # "loaded",
           NEW phase \in Admitted..HandoffPrepared, term'[t].phase = phase, Promised(t, phase),
           UNCHANGED <<owner, handed>>, journal'[term[t].id].dispatched,
           step = "target" => Arrives(term[t].next),
           step \in {"prepared", "handoff"} => Arrives(saved'[Target(t)])
    PROVE  TerminalHolds(t)'
<1> DEFINE r == term[t]
           s == term'[t]
<1>1. /\ TerminalHolds(t) /\ r.busy = FALSE /\ r.id # 0 /\ r.id \notin handed
      /\ Request(t).from = r.at /\ r.target = Target(t) /\ r.target # r.at
      /\ r.target \in Places /\ Nobody \notin Places
      /\ r.id \in DOMAIN asked
  BY UnderWay
<1>2. /\ s.at = r.at /\ s.target = r.target /\ s.id = r.id /\ s.app = r.app
      /\ s.next = r.next /\ s.busy = FALSE
  BY <1>1 DEF Keeps
<1>3. /\ Request(t)' = Request(t) /\ Target(t)' = Target(t)
      /\ PhaseHolds(term[t].id, term[t].phase)'
      /\ PhaseHolds(term[t].id, MissionReady)'
  <2>1. PhaseHolds(term[t].id, MissionReady)
    BY <1>1 DEF TerminalHolds, StepHolds
  <2>2. Promised(t, MissionReady)
    BY <2>1, PromiseIs
  <2> QED BY <1>2, <2>2, PromiseIs
<1>4. step \in Entering /\ step # "loaded" /\ step # "source"
  OBVIOUS
<1>5. OwnerHolds(t)'
  BY <1>1, <1>2, <1>3, <1>4 DEF TerminalHolds, OwnerHolds, Entering, Leaving
<1>6. RequestHolds(t)'
  <2>1. r.id <= Len(asked')
    BY <1>1, IdKept
  <2> QED BY <1>1, <1>2, <1>3, <1>4, <2>1
          DEF RequestHolds, Resting, Announcing, Preparing, Entering
<1>7. HistoryHolds(t)' /\ CopiesHold(t)' /\ EntriesHold(t)'
  BY <1>4, KeepsHold
<1>8. ShownHolds(t)'
  BY <1>1, <1>2, <1>4 DEF TerminalHolds, ShownHolds, Resting, Leaving, Entering
<1>9. StepHolds(t)'
  BY <1>1, <1>2, <1>3, <1>4 DEF StepHolds, Announcing, Preparing, Entering
<1> QED BY <1>5, <1>6, <1>7, <1>8, <1>9 DEF TerminalHolds

\* Nothing is recorded of a step that saves a conversation.
LEMMA SavedGoesOn ==
    ASSUME IInv, NEW t \in Terminals, term[t].step \in Entering \ {"loaded"},
           UNCHANGED <<repo, mission, journal, asked, effects, handed>>, faults' \in Nat,
           Saves(t), Clears(t), NEW step \in {"target", "prepared"},
           \/ Fails(t, term[t])
           \/ /\ Goes(t, step) /\ UNCHANGED owner
              /\ step = "target" => Arrives(term[t].next)
              /\ step = "prepared" => Arrives(saved'[Target(t)])
    PROVE  IInv'
<1>1. /\ step \in Steps /\ step \in Entering \ {"loaded", "source"} /\ term[t].step # "settle"
      /\ step # "handoff"
  BY DEF Steps, Entering
<1>2. CASE Fails(t, term[t])
  <2>1. Moves(t) /\ Yields(t) => Frame(t)
    BY Stays, FrameIs
  <2> QED BY <1>2, <2>1, FailsHere
<1>3. CASE /\ Goes(t, step) /\ UNCHANGED owner
           /\ step = "target" => Arrives(term[t].next)
           /\ step = "prepared" => Arrives(saved'[Target(t)])
  <2>1. /\ journal[term[t].id].dispatched /\ term[t].phase \in Admitted..HandoffPrepared
        /\ PhaseHolds(term[t].id, term[t].phase) /\ term[t].id \in Ids /\ term[t].busy = FALSE
    BY UnderWay
  <2>2. Moves(t) /\ Keeps(t) /\ term'[t].step = step /\ term'[t].phase = term[t].phase
    BY <1>1, <1>3, <2>1, GoesIs DEF Keeps
  <2>3. Frame(t)
    BY <1>3, <2>2, Stays, FrameIs
  <2>4. Promised(t, term[t].phase)
    BY <2>1, <2>3, PromiseIs
  <2>5. TerminalHolds(t)'
    BY <1>1, <1>3, <2>1, <2>2, <2>3, <2>4, EntersHold
  <2>6. \A j \in Ids : j = term[t].id => RecordHolds(j)'
    BY <2>1, <2>3, WrittenLater
  <2> QED BY <2>3, <2>5, <2>6, Suffices
<1> QED BY <1>2, <1>3

LEMMA SaveSourceHolds ==
    ASSUME IInv, NEW t \in Terminals, SaveSource(t)
    PROVE  IInv'
<1>1. /\ term[t].step = "source" /\ term[t].step \in Entering \ {"loaded"}
      /\ UNCHANGED <<repo, mission, journal, asked, effects, handed, cleared>>
  BY DEF SaveSource, Entering
<1>2. PICK w \in Writes :
        /\ SaveHere(w, t)
        /\ IF w = "ok" THEN Goes(t, "target") /\ UNCHANGED owner ELSE Fails(t, term[t])
  BY DEF SaveSource
<1>3. term[t].at # Nobody /\ Arrives(term[t].next)
  BY <1>1, Mine DEF TerminalHolds, OwnerHolds, StepHolds
<1>4. faults' \in Nat /\ Saves(t) /\ Clears(t)
  BY <1>1, <1>2, <1>3, SaveHereIs, Stays
<1> QED BY <1>1, <1>2, <1>3, <1>4, SavedGoesOn

LEMMA SaveTargetHolds ==
    ASSUME IInv, NEW t \in Terminals, SaveTarget(t)
    PROVE  IInv'
<1>1. /\ term[t].step = "target" /\ term[t].step \in Entering \ {"loaded"}
      /\ UNCHANGED <<repo, mission, journal, asked, effects, handed>>
  BY DEF SaveTarget, Entering
<1>2. PICK w \in Writes :
        /\ SaveAt(w, term[t].target, term[t].next, saved[term[t].target])
        /\ cleared' = IF Takes(w) THEN [cleared EXCEPT !.places = @ \ {term[t].target}]
                      ELSE cleared
        /\ IF w = "ok" THEN Goes(t, "prepared") /\ UNCHANGED owner ELSE Fails(t, term[t])
  BY DEF SaveTarget
<1>3. term[t].target # Nobody /\ Arrives(term[t].next) /\ term[t].target = Target(t)
  BY <1>1, UnderWay DEF TerminalHolds, StepHolds
<1>4. /\ faults' \in Nat /\ Saves(t)
      /\ Takes(w) => saved'[term[t].target] = term[t].next
  BY <1>2, <1>3, SaveThereIs
<1>5. w = "ok" => Arrives(saved'[Target(t)])
  BY <1>3, <1>4 DEF Takes
<1>6. Clears(t)
  <2>1. cleared \in [choices : SUBSET Ids, places : SUBSET Places]
    BY Mine DEF StateTypeOK
  <2>2. CASE Takes(w)
    BY <1>2, <1>3, <1>4, <2>1, <2>2 DEF Clears
  <2>3. CASE ~Takes(w)
    BY <1>2, <2>3, Stays
  <2> QED BY <2>2, <2>3
<1> QED BY <1>1, <1>2, <1>3, <1>4, <1>5, <1>6, SavedGoesOn

LEMMA PreparedHolds ==
    ASSUME IInv, NEW t \in Terminals, Prepared(t)
    PROVE  IInv'
<1> DEFINE record == [phase |-> HandoffPrepared, failed |-> FALSE, dispatched |-> TRUE]
<1>1. /\ term[t].step = "prepared" /\ term[t].step \in Entering /\ term[t].step # "loaded"
      /\ term[t].step # "settle"
      /\ UNCHANGED <<repo, mission, saved, asked, effects, handed, cleared>>
  BY DEF Prepared, Entering
<1>2. HandoffPrepared \in Admitted..HandoffPrepared /\ HandoffPrepared \in Phases
  BY ConstantsAre
<1>3. PICK w \in Writes :
        /\ Publish(w, term[t].id, record)
        /\ \/ Fails(t, [term[t] EXCEPT !.phase = HandoffPrepared])
           \/ /\ Become(t, [term[t] EXCEPT !.step = "handoff", !.phase = HandoffPrepared])
              /\ UNCHANGED owner
  BY <1>2, WithPhase DEF Prepared, Advance
<1>4. /\ PhaseHolds(term[t].id, MissionReady) /\ Arrives(saved[Target(t)])
      /\ journal[term[t].id].dispatched /\ term[t].id \in Ids
  BY <1>1, UnderWay DEF TerminalHolds, StepHolds
<1>5. Frame(t) => Promised(t, HandoffPrepared)
  <2> SUFFICES ASSUME Frame(t) PROVE Promised(t, HandoffPrepared)
    OBVIOUS
  <2>1. Promised(t, MissionReady)
    BY <1>1, <1>4, PromiseIs
  <2>2. /\ MissionReady \in RepositoryReady..Selected
        /\ MissionReady \in MissionReady..Selected
    BY ConstantsAre
  <2>3. Entered(cleared', Target(t), saved'[Target(t)])
    BY <1>1, <1>4 DEF Entered
  <2> QED BY <2>1, <2>2, <2>3 DEF Promised
<1>6. CASE Fails(t, [term[t] EXCEPT !.phase = HandoffPrepared])
  BY <1>1, <1>2, <1>3, <1>5, <1>6, RecordFails
<1>7. CASE /\ Become(t, [term[t] EXCEPT !.step = "handoff", !.phase = HandoffPrepared])
           /\ UNCHANGED owner
  <2>1. Moves(t) /\ Keeps(t) /\ term'[t].step = "handoff" /\ term'[t].phase = HandoffPrepared
    BY <1>1, <1>2, <1>7, AdvancesIs DEF Keeps, Steps
  <2>2. record \in Records /\ record.dispatched
    BY <1>2, ConstantsAre
  <2>3. /\ faults' \in Nat /\ Publishes(t)
        /\ journal'[term[t].id] = IF Takes(w) THEN record ELSE journal[term[t].id]
    BY <1>3, <1>4, <2>2, PublishIs
  <2> HIDE DEF record
  <2>4. Frame(t)
    BY <1>1, <1>7, <2>1, <2>3, Stays, FrameIs
  <2>5. Promised(t, HandoffPrepared) /\ HandoffPrepared # Selected
    BY <1>5, <2>4, ConstantsAre
  <2>6. journal'[term[t].id].dispatched
    BY <1>4, <2>2, <2>3
  <2>7. TerminalHolds(t)'
    <3>1. "handoff" \in Entering \ {"loaded", "source"} /\ "handoff" # "target"
      BY DEF Entering
    <3> QED BY <1>1, <1>2, <1>4, <1>7, <2>1, <2>4, <2>5, <2>6, <3>1, EntersHold
  <2>8. journal'[term[t].id] \in {journal[term[t].id], record}
    BY <2>3
  <2>9. \A j \in Ids : j = term[t].id => RecordHolds(j)'
    BY <1>1, <1>2, <2>4, <2>5, <2>8, PhaseRecorded DEF record
  <2> QED BY <2>4, <2>7, <2>9, Suffices
<1> QED BY <1>3, <1>6, <1>7

\* The history of the target with the new arrival.
Arriving(N, A, i) ==
    /\ A \in SUBSET Entries /\ Arrives(A) /\ Retains(N, A) /\ (IsFiniteSet(N) => IsFiniteSet(A))
    /\ \A e \in A : \/ e \in N /\ ~e.arrival
                    \/ e.id = i /\ e.arrival /\ e.shown = At(HandoffPrepared, FALSE)

LEMMA ArrivedIs ==
    ASSUME NEW t \in Terminals, term[t].next \in SUBSET Entries, term[t].id \in Ids
    PROVE  Arriving(term[t].next, Arrived(t), term[t].id)
<1> DEFINE N == term[t].next
           a == [id |-> term[t].id, arrival |-> TRUE, shown |-> At(HandoffPrepared, FALSE)]
           K == {e \in N : ~e.arrival}
<1>1. Arrived(t) = K \cup {a}
  BY DEF Arrived
<1>2. /\ a \in Entries /\ a.id = term[t].id /\ a.arrival = TRUE
      /\ a.shown = At(HandoffPrepared, FALSE)
  <2>1. At(HandoffPrepared, FALSE) \in Shown
    BY ConstantsAre, ShownIs
  <2> QED BY <2>1 DEF Entries
<1>3. K \in SUBSET N /\ \A e \in N : e \in K <=> ~e.arrival
  OBVIOUS
<1> HIDE DEF a, K
<1>4. IsFiniteSet(N) => IsFiniteSet(Arrived(t))
  BY <1>1, <1>3, FS_Subset, FS_AddElement
<1>5. Retains(N, Arrived(t)) /\ Arrives(Arrived(t))
  BY <1>1, <1>2, <1>3 DEF Retains, Known, Arrives
<1>6. \A e \in Arrived(t) : \/ e \in N /\ ~e.arrival
                            \/ /\ e.id = term[t].id /\ e.arrival
                               /\ e.shown = At(HandoffPrepared, FALSE)
  BY <1>1, <1>2, <1>3
<1> QED BY <1>1, <1>2, <1>3, <1>4, <1>5, <1>6 DEF Arriving

LEMMA LoadedHolds ==
    ASSUME IInv, NEW t \in Terminals, Loaded(t)
    PROVE  IInv'
<1> DEFINE r == term[t]
           record == [phase |-> TargetLoaded, failed |-> FALSE, dispatched |-> TRUE]
           A == Arrived(t)
           M == Mark(r.app, r.id, FALSE, At(TargetLoaded, FALSE))
           step == IF r.at = Nobody THEN "target" ELSE "source"
           s == [[term[t] EXCEPT !.phase = TargetLoaded] EXCEPT
                   !.step = step, !.next = A, !.app = M]
<1>1. /\ term[t].step = "loaded" /\ term[t].step \in Entering /\ term[t].step # "settle"
      /\ UNCHANGED <<repo, mission, saved, asked, effects, handed, cleared>>
  BY DEF Loaded, Entering
<1>2. /\ TargetLoaded \in Admitted..HandoffPrepared /\ TargetLoaded \in Phases
      /\ TargetLoaded # Selected
  BY ConstantsAre
<1>3. PICK w \in Writes :
        /\ Publish(w, term[t].id, record)
        /\ \/ Fails(t, [term[t] EXCEPT !.phase = TargetLoaded])
           \/ /\ Become(t, s) /\ ~(Cardinality(A) > MaxHistory)
              /\ UNCHANGED owner
  BY <1>2, WithPhase DEF Loaded, Advance
<1>4. /\ TerminalHolds(t) /\ StateTypeOK /\ r \in Terms /\ r.app \in SUBSET Entries
      /\ r.at \in Places \cup {Nobody} /\ Nobody \notin Places
      /\ r.id # 0 /\ r.id \in DOMAIN asked /\ r.id \in Ids /\ journal[r.id].dispatched
      /\ r.id \notin handed /\ Request(t).from = r.at /\ r.busy = FALSE
      /\ r.target = Target(t) /\ r.target \in Places /\ r.target # r.at
      /\ PhaseHolds(r.id, MissionReady) /\ r.next \in SUBSET Entries
  BY <1>1, UnderWay DEF TerminalHolds, StepHolds, Terms
<1>5. Frame(t) => Promised(t, TargetLoaded) /\ Promised(t, MissionReady)
  <2> SUFFICES ASSUME Frame(t) PROVE Promised(t, TargetLoaded) /\ Promised(t, MissionReady)
    OBVIOUS
  <2>1. Promised(t, MissionReady)
    BY <1>1, <1>4, PromiseIs
  <2>2. /\ MissionReady \in RepositoryReady..Selected
        /\ MissionReady \in MissionReady..Selected
        /\ TargetLoaded \notin {HandoffPrepared, Selected}
    BY ConstantsAre
  <2> QED BY <2>1, <2>2 DEF Promised
<1>6. CASE Fails(t, [term[t] EXCEPT !.phase = TargetLoaded])
  BY <1>1, <1>2, <1>3, <1>5, <1>6, RecordFails
<1>7. CASE Become(t, s) /\ ~(Cardinality(A) > MaxHistory) /\ UNCHANGED owner
  <2>1. /\ At(TargetLoaded, FALSE) \in Shown /\ At(TargetLoaded, FALSE).kind = "at"
        /\ At(TargetLoaded, FALSE).phase = TargetLoaded
        /\ At(TargetLoaded, FALSE).failed = FALSE
        /\ At(HandoffPrepared, FALSE).kind = "at"
        /\ At(HandoffPrepared, FALSE).phase = HandoffPrepared
        /\ At(HandoffPrepared, FALSE).failed = FALSE
        /\ HandoffPrepared # Selected
    <3>1. TargetLoaded \in Phases /\ HandoffPrepared \in Phases /\ HandoffPrepared # Selected
      BY ConstantsAre
    <3> QED BY <3>1, ShownIs
  <2>2. Marked(r.app, M, r.id, FALSE, At(TargetLoaded, FALSE))
    BY <1>4, <2>1, MarkIs
  <2>3. Arriving(r.next, A, r.id)
    BY <1>4, ArrivedIs
  <2>4. /\ M \in SUBSET Entries /\ Retains(r.app, M) /\ BoundedHistory(M)
        /\ A \in SUBSET Entries /\ Retains(r.next, A) /\ Arrives(A)
        /\ BoundedHistory(A)
    <3>1. HistoryHolds(t)
      BY <1>4 DEF TerminalHolds
    <3>2. BoundedHistory(M) /\ IsFiniteSet(A)
      BY <2>2, <2>3, <3>1 DEF HistoryHolds, Marked, Arriving
    <3>3. BoundedHistory(A)
      <4>1. Cardinality(A) \in Nat /\ MaxHistory \in Nat
        BY <3>2, FS_CardinalityType, SelectionAssumption
      <4> QED BY <1>7, <3>2, <4>1 DEF BoundedHistory
    <3> QED BY <2>2, <2>3, <3>2, <3>3 DEF Marked, Arriving
  <2>5. record \in Records /\ record.dispatched
    BY <1>2, ConstantsAre
  <2>6. step \in {"source", "target"} /\ step \in Steps /\ (step = "source" => r.at # Nobody)
    BY DEF Steps
  <2> HIDE DEF A, M, step, record
  <2>7. /\ s \in Terms /\ s.step = step /\ s.at = r.at /\ s.target = r.target /\ s.id = r.id
        /\ s.app = M /\ s.next = A /\ s.bg = r.bg /\ s.busy = r.busy
        /\ s.phase = TargetLoaded
    BY <1>2, <1>4, <2>4, <2>6 DEF Terms
  <2>8. /\ faults' \in Nat /\ Publishes(t)
        /\ journal'[r.id] = IF Takes(w) THEN record ELSE journal[r.id]
    BY <1>3, <1>4, <2>5, PublishIs
  <2> HIDE DEF s
  <2>9. /\ term' \in [Terminals -> Terms] /\ term'[t] = s
        /\ \A u \in Terminals : u # t => term'[u] = term[u]
    BY <1>4, <1>7, <2>7, BecomesIs
  <2>10. Moves(t)
    BY <1>1, <2>7, <2>9 DEF Moves
  <2>11. Frame(t)
    BY <1>1, <1>7, <2>8, <2>10, Stays, FrameIs
  <2>12. /\ Request(t)' = Request(t) /\ Target(t)' = Target(t)
         /\ PhaseHolds(term[t].id, term[t].phase)'
         /\ PhaseHolds(term[t].id, MissionReady)'
    <3>1. Promised(t, term'[t].phase) /\ Promised(t, MissionReady)
      BY <1>5, <2>7, <2>9, <2>11
    <3> QED BY <1>1, <2>7, <2>9, <2>11, <3>1, PromiseIs
  <2> HIDE DEF r
  <2>13. OwnerHolds(t)'
    BY <1>1, <1>4, <1>7, <2>6, <2>7, <2>9, <2>12
    DEF TerminalHolds, OwnerHolds, Entering, Leaving, r
  <2>14. RequestHolds(t)'
    <3>1. r.id <= Len(asked')
      BY <1>4, <2>11, IdKept
    <3> QED BY <1>4, <2>6, <2>7, <2>9, <2>12, <3>1
            DEF RequestHolds, Resting, Announcing, Preparing, Entering
  <2>15. HistoryHolds(t)'
    BY <1>4, <2>4, <2>7, <2>9 DEF TerminalHolds, HistoryHolds, BoundedHistory, r
  <2>16. CopiesHold(t)'
    <3>1. /\ r.at # Nobody => RetainsBut(cleared', r.at, saved'[r.at], r.app)
          /\ RetainsBut(cleared', r.target, saved'[r.target], r.next)
      BY <1>4, <2>11, CopiesKept DEF r
    <3>2. /\ r.at # Nobody => RetainsBut(cleared', r.at, saved'[r.at], M)
          /\ RetainsBut(cleared', r.target, saved'[r.target], A)
      BY <2>4, <3>1, RetainsAll, RetainsThrough
    <3> QED BY <1>4, <2>7, <2>9, <3>2 DEF CopiesHold
  <2>17. r.id \in DOMAIN asked'
    BY <1>4, <2>11, AskedKept
  <2>18. EntriesHold(t)'
    <3>1. ASSUME NEW e \in M PROVE e \in r.app \/ TrueEntry(e)'
      BY <2>1, <2>2, <2>4, <2>17, <3>1, <1>2 DEF Marked, TrueEntry
    <3>2. ASSUME NEW e \in A PROVE e \in r.next \/ TrueEntry(e)'
      BY <2>1, <2>3, <2>4, <2>17, <3>2 DEF Arriving, TrueEntry
    <3> QED BY <2>7, <2>9, <2>11, <3>1, <3>2, EntriesStay DEF r
  <2>19. ShownHolds(t)'
    <3>1. \A e \in r.app : Settled(e) \/ (e.id = r.id /\ ~e.arrival)
      BY <1>4 DEF TerminalHolds, ShownHolds, r
    <3>2. \A e \in r.next : Settled(e) \/ (e.id = r.id /\ e.arrival)
      BY <1>1, <1>4 DEF TerminalHolds, ShownHolds, r
    <3>3. \A e \in M : Settled(e) \/ (e.id = r.id /\ ~e.arrival)
      BY <2>2, <3>1 DEF Marked
    <3>4. \A e \in A : Settled(e) \/ (e.id = r.id /\ e.arrival)
      BY <2>3, <3>2 DEF Arriving
    <3> QED BY <2>6, <2>7, <2>9, <3>3, <3>4 DEF ShownHolds, Resting, Leaving
  <2>20. StepHolds(t)'
    <3>1. journal'[r.id].dispatched
      BY <1>4, <2>5, <2>8
    <3>2. r.id \notin handed'
      BY <1>1, <1>4
    <3> QED BY <1>2, <2>4, <2>6, <2>7, <2>9, <2>12, <3>1, <3>2
            DEF StepHolds, Announcing, Preparing, Entering
  <2>21. TerminalHolds(t)'
    BY <2>13, <2>14, <2>15, <2>16, <2>18, <2>19, <2>20 DEF TerminalHolds
  <2>22. \A j \in Ids : j = r.id => RecordHolds(j)'
    <3>1. journal'[r.id] \in {journal[r.id], record}
      BY <2>8
    <3> QED BY <1>1, <1>2, <1>5, <2>11, <3>1, PhaseRecorded DEF record, r
  <2> QED BY <2>11, <2>21, <2>22, Suffices DEF r
<1> QED BY <1>3, <1>6, <1>7

-----------------------------------------------------------------------------
(* The end of a request.  *)

LEMMA HandoffHolds ==
    ASSUME IInv, NEW t \in Terminals, Handoff(t)
    PROVE  IInv'
<1> DEFINE r == term[t]
           record == [phase |-> Selected, failed |-> FALSE, dispatched |-> TRUE]
           step == IF r.at = Nobody THEN "arrive" ELSE "leave"
<1>1. /\ r.step = "handoff" /\ r.step \in Entering /\ r.step # "settle"
      /\ handed' = handed \cup {r.id}
      /\ UNCHANGED <<repo, mission, owner, saved, asked, effects, cleared>>
  BY DEF Handoff, Entering
<1>2. PICK w \in Writes :
        /\ Publish(w, r.id, record)
        /\ Become(t, [r EXCEPT
             !.step = step, !.phase = Selected, !.at = r.target, !.target = r.at,
             !.app = Mark(r.next, r.id, TRUE, Observed(w, Selected, FALSE)),
             !.next = Mark(r.app, r.id, FALSE, Observed(w, Selected, FALSE))])
  BY DEF Handoff
<1> DEFINE shown == Observed(w, Selected, FALSE)
           A == Mark(r.next, r.id, TRUE, shown)
           N == Mark(r.app, r.id, FALSE, shown)
           s == [r EXCEPT !.step = step, !.phase = Selected, !.at = r.target,
                          !.target = r.at, !.app = A, !.next = N]
<1>3. /\ TerminalHolds(t) /\ StateTypeOK /\ r \in Terms /\ r.app \in SUBSET Entries
      /\ r.at \in Places \cup {Nobody} /\ Nobody \notin Places
      /\ r.id # 0 /\ r.id \in DOMAIN asked /\ r.id \in Ids /\ journal[r.id].dispatched
      /\ ~journal[r.id].failed /\ r.id \notin handed /\ r.busy = FALSE
      /\ r.target = Target(t) /\ r.target \in Places /\ r.target # r.at
      /\ r.next \in SUBSET Entries
      /\ Request(t) = asked[r.id] /\ Target(t) = asked[r.id].to
      /\ PhaseHolds(r.id, MissionReady) /\ Arrives(saved[Target(t)])
      /\ journal[r.id] \in Records
  BY <1>1, UnderWay DEF TerminalHolds, StepHolds, Terms
<1>4. /\ shown \in Shown /\ shown.kind \in {"at", "unknown"}
      /\ shown.kind = "at" => shown.phase = Selected /\ shown.failed = FALSE
      /\ Selected \in Phases
  <2>1. Selected \in Phases
    BY ConstantsAre
  <2>2. shown \in {At(Selected, FALSE), Says("unknown")}
    BY DEF Observed
  <2> HIDE DEF shown
  <2> QED BY <2>1, <2>2, ShownIs
<1> HIDE DEF shown
<1>5. Marked(r.next, A, r.id, TRUE, shown) /\ Marked(r.app, N, r.id, FALSE, shown)
  BY <1>3, <1>4, MarkIs
<1>6. /\ A \in SUBSET Entries /\ Retains(r.next, A) /\ BoundedHistory(A)
      /\ N \in SUBSET Entries /\ Retains(r.app, N) /\ IsFiniteSet(N)
  BY <1>1, <1>3, <1>5
  DEF Marked, TerminalHolds, HistoryHolds, BoundedHistory
<1>7. record \in Records /\ record.dispatched /\ record.phase = Selected /\ ~record.failed
  BY <1>4, ConstantsAre
<1>8. Become(t, s)
  BY <1>2 DEF shown
<1>9. step \in {"arrive", "leave"} /\ step \in Steps /\ (step = "leave" => r.at # Nobody)
  BY DEF Steps
<1> HIDE DEF A, N, step, record
<1>10. /\ s \in Terms /\ s.step = step /\ s.at = r.target /\ s.target = r.at /\ s.id = r.id
       /\ s.app = A /\ s.next = N /\ s.bg = r.bg /\ s.busy = r.busy
  BY <1>3, <1>4, <1>6, <1>9 DEF Terms
<1>11. /\ faults' \in Nat /\ Publishes(t)
       /\ journal'[r.id] = IF Takes(w) THEN record ELSE journal[r.id]
  BY <1>2, <1>3, <1>7, PublishIs
<1> HIDE DEF s
<1>12. /\ term' \in [Terminals -> Terms] /\ term'[t] = s
       /\ \A u \in Terminals : u # t => term'[u] = term[u]
  BY <1>3, <1>8, <1>10, BecomesIs
<1>13. Moves(t)
  BY <1>1, <1>10, <1>12 DEF Moves
<1>14. Frame(t)
  <2>1. Saves(t) /\ Yields(t)
    BY <1>1, Stays
  <2>2. handed' \subseteq Ids
    BY <1>1, <1>3 DEF StateTypeOK
  <2>3. StateTypeOK'
    BY <1>1, <1>3, <1>11, <1>13, <2>1, <2>2
    DEF StateTypeOK, Moves, Publishes, Saves, Yields
  <2> QED BY <1>1, <1>11, <1>13, <2>1, <2>3 DEF Frame, Moves, Publishes, Saves, Yields
<1>15. r.id \in DOMAIN asked' /\ r.id \in handed'
  BY <1>1, <1>3, <1>14, AskedKept
<1> HIDE DEF r
<1>16. OwnerHolds(t)'
  BY <1>1, <1>3, <1>9, <1>10, <1>12 DEF TerminalHolds, OwnerHolds, Entering, Leaving, r
<1>17. RequestHolds(t)'
  <2>1. r.id <= Len(asked')
    BY <1>3, <1>14, IdKept
  <2> QED BY <1>3, <1>9, <1>10, <1>12, <2>1
          DEF RequestHolds, Resting, Announcing, Preparing, Entering
<1>18. HistoryHolds(t)'
  BY <1>3, <1>6, <1>9, <1>10, <1>12 DEF TerminalHolds, HistoryHolds, BoundedHistory, r, Entering
<1>19. CopiesHold(t)'
  <2>1. /\ r.at # Nobody => RetainsBut(cleared', r.at, saved'[r.at], r.app)
        /\ RetainsBut(cleared', r.target, saved'[r.target], r.next)
    BY <1>3, <1>14, CopiesKept DEF r
  <2>2. /\ r.at # Nobody => RetainsBut(cleared', r.at, saved'[r.at], N)
        /\ RetainsBut(cleared', r.target, saved'[r.target], A)
    BY <1>6, <2>1, RetainsAll, RetainsThrough
  <2> QED BY <1>3, <1>10, <1>12, <2>2 DEF CopiesHold
<1>20. ASSUME NEW e \in Entries, e.id = r.id, e.shown = shown
       PROVE  TrueEntry(e)' /\ Settled(e)
  BY <1>4, <1>15, <1>20 DEF TrueEntry, Settled, Final
<1>21. EntriesHold(t)'
  <2>1. ASSUME NEW e \in A PROVE e \in r.next \/ TrueEntry(e)'
    BY <1>5, <1>6, <1>20, <2>1 DEF Marked
  <2>2. ASSUME NEW e \in N PROVE e \in r.app \/ TrueEntry(e)'
    BY <1>5, <1>6, <1>20, <2>2 DEF Marked
  <2> QED BY <1>10, <1>12, <1>14, <2>1, <2>2, EntriesStay DEF r
<1>22. ShownHolds(t)'
  <2>1. \A e \in r.next : Settled(e) \/ (e.id = r.id /\ e.arrival)
    BY <1>1, <1>3 DEF TerminalHolds, ShownHolds, r
  <2>2. \A e \in r.next : e \in Entries
    BY <1>3
  <2>3. ASSUME NEW e \in A PROVE Settled(e)
    <3>1. CASE e \in r.next /\ ~(e.id = r.id /\ e.arrival = TRUE)
      BY <2>1, <2>2, <3>1 DEF Entries
    <3>2. CASE e.id = r.id /\ e.shown = shown
      BY <1>6, <1>20, <2>3, <3>2
    <3> QED BY <1>5, <2>3, <3>1, <3>2 DEF Marked
  <2> QED BY <1>9, <1>10, <1>12, <2>3 DEF ShownHolds, Entering
<1>23. StepHolds(t)'
  BY <1>9, <1>10, <1>12 DEF StepHolds, Announcing, Preparing, Entering
<1>24. TerminalHolds(t)'
  BY <1>16, <1>17, <1>18, <1>19, <1>21, <1>22, <1>23 DEF TerminalHolds
<1>25. ASSUME NEW j \in Ids, j = r.id PROVE RecordHolds(j)'
  <2>1. CASE journal'[j] = record
    <3>1. /\ asked[j].create => "repository" \in effects'[j]
          /\ mission'[asked[j].to] /\ Entered(cleared', asked[j].to, saved'[asked[j].to])
      <4>1. /\ MissionReady \in RepositoryReady..Selected
            /\ MissionReady \in MissionReady..Selected
        BY ConstantsAre
      <4> QED BY <1>1, <1>3, <1>25, <4>1 DEF PhaseHolds, Entered
    <3>2. asked[j].from # Nobody => Told(cleared, saved[asked[j].from], j)
      BY <1>3, <1>14, <1>25, WrittenLater
    <3> QED BY <1>3, <1>7, <1>14, <1>15, <1>25, <2>1, <3>1, <3>2, Written
  <2>2. CASE journal'[j] = journal[j]
    <3> DEFINE old == journal[j]
    <3>1. RecordHolds(j) /\ j \in DOMAIN asked /\ old.dispatched /\ ~old.failed
          /\ old \in Records
      BY <1>3, <1>25 DEF IInv
    <3>2. /\ old.phase \in RepositoryReady..Selected /\ asked[j].create =>
               "repository" \in effects'[j]
          /\ old.phase \in MissionReady..Selected => mission'[asked[j].to]
          /\ old.phase \in {HandoffPrepared, Selected} =>
               Entered(cleared', asked[j].to, saved'[asked[j].to])
      BY <1>1, <3>1 DEF RecordHolds, PhaseHolds
    <3>3. asked[j].from # Nobody => Told(cleared, saved[asked[j].from], j)
      BY <1>14, <3>1, WrittenLater
    <3>4. journal'[j] = old /\ j \in handed'
      BY <1>15, <1>25, <2>2
    <3> HIDE DEF old
    <3> QED BY <1>14, <3>1, <3>2, <3>3, <3>4, Written
  <2> QED BY <1>11, <1>25, <2>1, <2>2
<1> QED BY <1>14, <1>24, <1>25, Suffices DEF r

LEMMA LeaveHolds ==
    ASSUME IInv, NEW t \in Terminals, Leave(t)
    PROVE  IInv'
<1> DEFINE r == term[t]
<1>1. /\ r.step = "leave" /\ r.step # "settle" /\ Goes(t, "arrive")
      /\ UNCHANGED <<repo, mission, owner, journal, asked, effects, handed, cleared>>
  BY DEF Leave
<1>2. PICK w \in Writes : SaveAt(w, r.target, r.next, saved[r.target])
  BY DEF Leave
<1>3. /\ TerminalHolds(t) /\ r.target # Nobody /\ r.at # Nobody /\ r.busy = FALSE
      /\ r.id # 0 /\ r.id \in DOMAIN asked /\ r.id \in Ids
  BY <1>1, Mine DEF TerminalHolds, OwnerHolds, Resting, Leaving, Terms
<1>4. faults' \in Nat /\ Saves(t)
  BY <1>2, <1>3, SaveThereIs
<1>5. /\ Moves(t) /\ Keeps(t) /\ term'[t].step = "arrive" /\ term'[t].at = r.at
      /\ term'[t].target = r.target /\ term'[t].id = r.id /\ term'[t].app = r.app
      /\ term'[t].next = r.next /\ term'[t].busy = FALSE
  BY <1>1, <1>3, GoesIs DEF Steps, Keeps
<1>6. Frame(t)
  BY <1>1, <1>4, <1>5, Stays, FrameIs
<1>7. HistoryHolds(t)' /\ CopiesHold(t)' /\ EntriesHold(t)'
  BY <1>5, <1>6, KeepsHold DEF Entering
<1>8. OwnerHolds(t)'
  BY <1>1, <1>3, <1>5 DEF TerminalHolds, OwnerHolds, Entering, Leaving
<1>9. RequestHolds(t)'
  <2>1. r.id <= Len(asked')
    BY <1>3, <1>6, IdKept
  <2> QED BY <1>3, <1>5, <2>1 DEF RequestHolds, Resting, Announcing, Preparing, Entering
<1>10. ShownHolds(t)'
  BY <1>1, <1>3, <1>5 DEF TerminalHolds, ShownHolds, Entering, Leaving
<1>11. StepHolds(t)'
  BY <1>5 DEF StepHolds, Announcing, Preparing, Entering
<1>12. TerminalHolds(t)'
  BY <1>7, <1>8, <1>9, <1>10, <1>11 DEF TerminalHolds
<1>13. \A j \in Ids : j = r.id => RecordHolds(j)'
  BY <1>1, <1>6, RecordStays
<1> QED BY <1>6, <1>12, <1>13, Suffices

\* A terminal is idle again.
Idles(t) ==
    LET r == term[t]  s == term'[t] IN
      /\ s.step = "idle" /\ s.at = r.at /\ s.target = Nobody /\ s.id = 0
      /\ s.app = r.app /\ s.next = {} /\ s.bg \in {{}, r.bg} /\ s.busy = FALSE

LEMMA IdleHolds ==
    ASSUME IInv, NEW t \in Terminals, term[t].step \in {"arrive", "settle"}, Idles(t),
           Moves(t), Saves(t), Yields(t), faults' \in Nat,
           UNCHANGED <<repo, mission, journal, asked, effects, handed, cleared>>,
           \A p \in Places : owner'[p] = t <=> owner[p] = t /\ p # term[t].target
    PROVE  IInv'
<1> DEFINE r == term[t]
           s == term'[t]
<1>1. /\ s.step = "idle" /\ s.at = r.at /\ s.target = Nobody /\ s.id = 0
      /\ s.app = r.app /\ s.next = {} /\ s.bg \in {{}, r.bg} /\ s.busy = FALSE
  BY DEF Idles
<1>2. TerminalHolds(t) /\ r.at # Nobody /\ r.at \in Places /\ Nobody \notin Places
  BY Mine DEF TerminalHolds, OwnerHolds, Leaving
<1>3. Frame(t)
  BY Stays, FrameIs
<1>4. OwnerHolds(t)'
  BY <1>1, <1>2 DEF TerminalHolds, OwnerHolds, Entering, Leaving
<1>5. RequestHolds(t)'
  <2>1. Len(asked') \in Nat
    BY TypeFacts DEF IInv
  <2> QED BY <1>1, <2>1 DEF RequestHolds, Resting, Announcing, Preparing, Entering
<1>6. HistoryHolds(t)'
  BY <1>1, <1>2, FS_EmptySet DEF TerminalHolds, HistoryHolds, Entering
<1>7. CopiesHold(t)'
  BY <1>1, <1>2, <1>3, CopiesKept DEF CopiesHold
<1>8. EntriesHold(t)'
  BY <1>1, <1>3, EntriesStay
<1>9. ShownHolds(t)'
  BY <1>1, <1>2 DEF TerminalHolds, ShownHolds, Entering, Leaving
<1>10. StepHolds(t)'
  BY <1>1 DEF StepHolds, Announcing, Preparing, Entering
<1>11. TerminalHolds(t)'
  BY <1>4, <1>5, <1>6, <1>7, <1>8, <1>9, <1>10 DEF TerminalHolds
<1>12. \A j \in Ids : j = r.id => RecordHolds(j)'
  BY <1>3, RecordStays
<1> QED BY <1>3, <1>11, <1>12, Suffices

LEMMA IdleIs ==
    ASSUME IInv, NEW t \in Terminals, NEW r \in Terms, Idle(t, r), r.at = term[t].at,
           r.app = term[t].app, r.bg \in {{}, term[t].bg}, r.busy = FALSE
    PROVE  Moves(t) /\ Idles(t)
<1> DEFINE s == [r EXCEPT !.step = "idle", !.id = 0, !.phase = Admitted,
                          !.target = Nobody, !.next = {}]
<1>1. Admitted \in Phases /\ 0 \in 0..MaxRequests
  BY ConstantsAre, SelectionAssumption
<1>2. /\ s \in Terms /\ s.step = "idle" /\ s.at = r.at /\ s.target = Nobody /\ s.id = 0
      /\ s.app = r.app /\ s.next = {} /\ s.bg = r.bg /\ s.busy = r.busy
  BY <1>1 DEF Terms, Steps
<1>3. Become(t, s)
  BY DEF Idle
<1> HIDE DEF s
<1>4. /\ term' \in [Terminals -> Terms] /\ term'[t] = s
      /\ \A u \in Terminals : u # t => term'[u] = term[u]
  BY <1>2, <1>3, Mine, BecomesIs
<1> QED BY <1>2, <1>4 DEF Moves, Idles

LEMMA ArriveHolds ==
    ASSUME IInv, NEW t \in Terminals, Arrive(t)
    PROVE  IInv'
<1>1. /\ term[t].step = "arrive" /\ owner' = Dropped(t) /\ Idle(t, term[t])
      /\ UNCHANGED <<repo, mission, journal, asked, effects, handed, cleared>>
  BY DEF Arrive
<1>2. PICK w \in Writes : SaveHere(w, t)
  BY DEF Arrive
<1>3. term[t].at # Nobody /\ term[t].busy = FALSE /\ term[t] \in Terms
  BY <1>1, Mine DEF TerminalHolds, OwnerHolds, Leaving, Terms
<1>4. faults' \in Nat /\ Saves(t)
  BY <1>2, <1>3, SaveHereIs
<1>5. Moves(t) /\ Idles(t)
  BY <1>1, <1>3, IdleIs
<1>6. /\ Yields(t)
      /\ \A p \in Places : owner'[p] = t <=> owner[p] = t /\ p # term[t].target
  BY <1>1, DroppedIs
<1> QED BY <1>1, <1>4, <1>5, <1>6, IdleHolds

LEMMA JoinedIs ==
    ASSUME NEW r \in Terms
    PROVE  LET s == Joined(r) IN
             /\ s \in Terms /\ s.step = r.step /\ s.at = r.at /\ s.target = r.target
             /\ s.id = r.id /\ s.app = r.app /\ s.next = r.next /\ s.bg = {}
             /\ s.busy = FALSE /\ s.phase = r.phase /\ s.pick = r.pick
BY DEF Joined, Terms

LEMMA SettleHolds ==
    ASSUME IInv, NEW t \in Terminals, Settle(t)
    PROVE  IInv'
<1>1. /\ term[t].step = "settle" /\ Idle(t, Joined(term[t]))
      /\ UNCHANGED <<repo, mission, owner, journal, asked, effects, handed, cleared>>
  BY DEF Settle
<1>2. PICK w \in Writes : SaveHere(w, t)
  BY DEF Settle
<1>3. /\ term[t].at # Nobody /\ term[t].target = Nobody /\ term[t] \in Terms
      /\ Nobody \notin Places
  BY <1>1, Mine DEF TerminalHolds, OwnerHolds, Leaving, Entering
<1>4. faults' \in Nat /\ Saves(t)
  BY <1>2, <1>3, SaveHereIs
<1>5. Moves(t) /\ Idles(t)
  BY <1>1, <1>3, IdleIs, JoinedIs
<1>6. /\ Yields(t)
      /\ \A p \in Places : owner'[p] = t <=> owner[p] = t /\ p # term[t].target
  BY <1>1, <1>3, Stays
<1> QED BY <1>1, <1>4, <1>5, <1>6, IdleHolds

LEMMA FailingHolds ==
    ASSUME IInv, NEW t \in Terminals, Failing(t)
    PROVE  IInv'
<1> DEFINE r == term[t]
           record == [phase |-> r.phase, failed |-> TRUE, dispatched |-> TRUE]
<1>1. /\ r.step = "failing" /\ r.step # "settle"
      /\ UNCHANGED <<repo, mission, owner, saved, asked, effects, handed, cleared>>
  BY DEF Failing
<1>2. PICK w \in Writes :
        /\ Publish(w, r.id, record)
        /\ IF r.at = Nobody
           THEN \E step \in {"out", "picking"} : Become(t, [Out EXCEPT !.step = step])
           ELSE Become(t, [r EXCEPT
                  !.step = "settle",
                  !.app = Mark(@, r.id, FALSE, Observed(w, r.phase, TRUE))])
  BY DEF Failing
<1>3. /\ TerminalHolds(t) /\ StateTypeOK /\ r \in Terms /\ r.id \in Ids
      /\ r.app \in SUBSET Entries /\ r.busy = FALSE /\ r.target = Nobody
      /\ r.phase \in Admitted..HandoffPrepared /\ PhaseHolds(r.id, r.phase)
      /\ r.id \notin handed /\ Nobody \notin Places
  BY <1>1, UnderWay DEF Entering
<1>4. r.phase \in Phases /\ r.phase # Selected
  BY <1>3, ConstantsAre
<1>5. record \in Records
  BY <1>4, ConstantsAre
<1> HIDE DEF record
<1>6. /\ faults' \in Nat /\ Publishes(t)
      /\ journal'[r.id] = IF Takes(w) THEN record ELSE journal[r.id]
  BY <1>2, <1>3, <1>5, PublishIs
<1>7. ASSUME Frame(t), term'[t].id = 0 \/ term'[t].step = "settle"
      PROVE  \A j \in Ids : j = r.id => RecordHolds(j)'
  <2>1. Promised(t, r.phase)
    BY <1>1, <1>3, <1>7, PromiseIs
  <2>2. journal'[r.id] \in {journal[r.id], record}
    BY <1>6
  <2> QED BY <1>1, <1>4, <1>7, <2>1, <2>2, PhaseRecorded DEF record
<1>8. CASE r.at = Nobody
  <2>1. PICK step \in {"out", "picking"} : Become(t, [Out EXCEPT !.step = step])
    BY <1>2, <1>8
  <2> DEFINE s == [Out EXCEPT !.step = step]
  <2>2. s \in Terms /\ s.id = 0
    BY OutIs
  <2> HIDE DEF s
  <2>3. /\ term' \in [Terminals -> Terms] /\ term'[t] = s
        /\ \A u \in Terminals : u # t => term'[u] = term[u]
    BY <1>3, <2>1, <2>2, BecomesIs DEF s
  <2>4. Moves(t) /\ term'[t].id = 0
    BY <2>2, <2>3 DEF Moves
  <2>5. Frame(t)
    BY <1>1, <1>6, <2>4, Stays, FrameIs
  <2>6. \A p \in Places : owner'[p] # t
    BY <1>1, <1>3, <1>8 DEF TerminalHolds, OwnerHolds
  <2>7. TerminalHolds(t)'
    BY <2>3, <2>5, <2>6, OutHolds DEF s
  <2> QED BY <1>7, <2>4, <2>5, <2>7, Suffices
<1>9. CASE r.at # Nobody
  <2> DEFINE shown == Observed(w, r.phase, TRUE)
             M == Mark(r.app, r.id, FALSE, shown)
             s == [term[t] EXCEPT !.step = "settle", !.app = M]
  <2>1. TrueEnd(shown, r.id)
    <3>1. shown \in {At(r.phase, TRUE), Says("unknown")}
      BY DEF Observed
    <3>2. r.id \notin handed'
      BY <1>1, <1>3
    <3> HIDE DEF shown
    <3> QED BY <1>4, <3>1, <3>2, ShownIs DEF TrueEnd
  <2>2. shown \in Shown
    BY <2>1 DEF TrueEnd
  <2>3. Become(t, s)
    BY <1>2, <1>9
  <2> HIDE DEF shown
  <2>4. M \in SUBSET Entries
    BY <1>3, <2>2, MarkIs DEF Marked
  <2> HIDE DEF M
  <2>5. /\ s \in Terms /\ s.step = "settle" /\ s.at = r.at /\ s.target = r.target
        /\ s.id = r.id /\ s.app = M /\ s.next = r.next /\ s.bg = r.bg /\ s.busy = r.busy
    BY <1>3, <2>4 DEF Terms, Steps
  <2> HIDE DEF s
  <2>6. /\ term' \in [Terminals -> Terms] /\ term'[t] = s
        /\ \A u \in Terminals : u # t => term'[u] = term[u]
    BY <1>3, <2>3, <2>5, BecomesIs
  <2>7. Moves(t) /\ Settles(t, shown) /\ term'[t].step = "settle"
    BY <1>1, <1>3, <2>5, <2>6 DEF Moves, Settles, M
  <2>8. Frame(t)
    BY <1>1, <1>6, <2>7, Stays, FrameIs
  <2>9. TerminalHolds(t)'
    BY <1>1, <1>9, <2>1, <2>7, <2>8, SettlesHold
  <2> QED BY <1>7, <2>7, <2>8, <2>9, Suffices
<1> QED BY <1>8, <1>9

-----------------------------------------------------------------------------
(* Between selections.  *)

LEMMA RestHolds ==
    ASSUME IInv, NEW t \in Terminals, Frame(t), term[t].step \in Resting,
           term'[t].step \in Resting, term'[t].at = term[t].at,
           term'[t].target = term[t].target, term'[t].id = term[t].id,
           term'[t].app \subseteq term[t].app, term'[t].next = term[t].next,
           term'[t].busy => term[t].at # Nobody /\ term'[t].step # "out",
           term'[t].step = "out" => term[t].at = Nobody,
           term'[t].step = "idle" => term[t].at # Nobody,
           HistoryHolds(t)' /\ CopiesHold(t)' /\ EntriesHold(t)',
           UNCHANGED <<owner, journal, asked, effects, handed>>
    PROVE  IInv'
<1> DEFINE r == term[t]
           s == term'[t]
<1>1. /\ TerminalHolds(t) /\ r.id = 0 /\ r.target = Nobody
  BY Mine DEF TerminalHolds, OwnerHolds, RequestHolds, Resting, Entering, Leaving
<1>2. OwnerHolds(t)'
  BY <1>1 DEF TerminalHolds, OwnerHolds, Resting, Entering, Leaving
<1>3. RequestHolds(t)'
  <2>1. Len(asked') \in Nat
    BY TypeFacts DEF IInv
  <2> QED BY <1>1, <2>1 DEF RequestHolds, Resting, Announcing, Preparing, Entering
<1>4. ShownHolds(t)'
  BY <1>1 DEF TerminalHolds, ShownHolds, Resting, Entering, Leaving
<1>5. StepHolds(t)'
  BY DEF StepHolds, Resting, Announcing, Preparing, Entering
<1>6. TerminalHolds(t)'
  BY <1>2, <1>3, <1>4, <1>5 DEF TerminalHolds
<1>7. \A j \in Ids : j = r.id => RecordHolds(j)'
  BY <1>1 DEF Ids
<1> QED BY <1>6, <1>7, Suffices

LEMMA FreshIs == Fresh \in Picks
BY DEF Fresh, Picks

LEMMA SelectorHolds ==
    ASSUME IInv, NEW t \in Terminals, NEW step \in Resting, NEW pick \in Picks,
           term[t].step \in Resting,
           Become(t, [term[t] EXCEPT !.step = step, !.pick = pick]),
           step = "out" => term[t].at = Nobody, step = "idle" => term[t].at # Nobody,
           UNCHANGED <<disk, asked, faults, effects, handed, cleared>>
    PROVE  IInv'
<1> DEFINE r == term[t]
           s == [term[t] EXCEPT !.step = step, !.pick = pick]
<1>1. /\ TerminalHolds(t) /\ StateTypeOK /\ r \in Terms /\ r.step # "settle" /\ step \in Steps
  BY Mine DEF Resting, Steps
<1>2. /\ s \in Terms /\ s.step = step /\ s.at = r.at /\ s.target = r.target /\ s.id = r.id
      /\ s.app = r.app /\ s.next = r.next /\ s.bg = r.bg /\ s.busy = r.busy
  BY <1>1 DEF Terms
<1> HIDE DEF s
<1>3. /\ term' \in [Terminals -> Terms] /\ term'[t] = s
      /\ \A u \in Terminals : u # t => term'[u] = term[u]
  <2>1. Become(t, s)
    BY DEF s
  <2> QED BY <1>1, <1>2, <2>1, BecomesIs
<1>4. Moves(t) /\ Keeps(t)
  BY <1>1, <1>2, <1>3 DEF Moves, Keeps, disk
<1>5. Frame(t)
  BY <1>4, Stays, FrameIs DEF disk
<1>6. HistoryHolds(t)' /\ CopiesHold(t)' /\ EntriesHold(t)'
  BY <1>2, <1>3, <1>4, <1>5, KeepsHold DEF Resting, Entering
<1>7. r.busy => r.at # Nobody
  BY <1>1 DEF TerminalHolds, OwnerHolds
<1>8. UNCHANGED <<owner, journal, asked, effects, handed, cleared>>
  BY DEF disk
<1> QED BY <1>2, <1>3, <1>5, <1>6, <1>7, <1>8, RestHolds

LEMMA SelectorSteps ==
    ASSUME IInv, NEW t \in Terminals, OpenSelector(t) \/ Accept(t) \/ Escape(t)
    PROVE  IInv'
<1>0. term[t] \in Terms
  BY Mine
<1>1. CASE OpenSelector(t)
  BY <1>1, FreshIs, SelectorHolds DEF OpenSelector, Resting
<1>2. CASE Accept(t)
  <2>1. PICK d \in Repos, create \in BOOLEAN :
          Become(t, [term[t] EXCEPT !.pick = [repo |-> d, create |-> create]])
    BY <1>2 DEF Accept
  <2> DEFINE pick == [repo |-> d, create |-> create]
  <2>2. pick \in Picks
    BY DEF Picks
  <2> HIDE DEF pick
  <2>3. /\ [term[t] EXCEPT !.pick = pick] = [term[t] EXCEPT !.step = "picking", !.pick = pick]
        /\ UNCHANGED <<disk, asked, faults, effects, handed, cleared>>
        /\ term[t].step = "picking" /\ "picking" \in Resting
    BY <1>0, <1>2 DEF Accept, Terms, Resting
  <2>4. Become(t, [term[t] EXCEPT !.step = "picking", !.pick = pick])
    BY <2>1, <2>3 DEF pick
  <2> QED BY <2>2, <2>3, <2>4, SelectorHolds
<1>3. CASE Escape(t)
  <2> DEFINE step == IF term[t].at = Nobody THEN "out" ELSE "idle"
  <2>1. /\ term[t].step = "picking" /\ step \in Resting /\ term[t].step \in Resting
        /\ Become(t, [term[t] EXCEPT !.step = step, !.pick = Fresh])
        /\ UNCHANGED <<disk, asked, faults, effects, handed, cleared>>
        /\ step = "out" => term[t].at = Nobody
        /\ step = "idle" => term[t].at # Nobody
    BY <1>3 DEF Escape, Resting
  <2> HIDE DEF step
  <2> QED BY <2>1, FreshIs, SelectorHolds
<1> QED BY <1>1, <1>2, <1>3

LEMMA ClearHolds ==
    ASSUME IInv, NEW t \in Terminals, Clear(t)
    PROVE  IInv'
<1> DEFINE r == term[t]
           s == [term[t] EXCEPT !.app = {}]
<1>1. /\ r.step = "idle" /\ r.step \in Resting /\ Become(t, s)
      /\ cleared' = [choices |-> cleared.choices \cup {e.id : e \in {d \in r.app : ~d.arrival}},
                     places |-> cleared.places \cup {r.at}]
      /\ UNCHANGED <<repo, mission, owner, saved, journal, asked, faults, effects, handed>>
  BY DEF Clear, disk, Resting
<1>2. /\ TerminalHolds(t) /\ StateTypeOK /\ r \in Terms /\ r.at \in Places /\ r.target = Nobody
      /\ r.at # Nobody /\ r.app \in SUBSET Entries
  BY <1>1, Mine DEF TerminalHolds, OwnerHolds, Entering, Leaving, Terms
<1>3. /\ s \in Terms /\ s.step = "idle" /\ s.at = r.at /\ s.target = r.target /\ s.id = r.id
      /\ s.app = {} /\ s.next = r.next /\ s.bg = r.bg /\ s.busy = r.busy
  BY <1>1, <1>2 DEF Terms
<1> HIDE DEF s
<1>4. /\ term' \in [Terminals -> Terms] /\ term'[t] = s
      /\ \A u \in Terminals : u # t => term'[u] = term[u]
  BY <1>1, <1>2, <1>3, BecomesIs
<1>5. Moves(t)
  BY <1>1, <1>3, <1>4 DEF Moves
<1>6. /\ cleared'.choices = cleared.choices \cup {e.id : e \in {d \in r.app : ~d.arrival}}
      /\ cleared'.places = cleared.places \cup {r.at}
  BY <1>1
<1>7. Clears(t)
  <2>1. /\ cleared.choices \subseteq Ids /\ cleared.places \subseteq Places
        /\ \A e \in r.app : e.id \in Ids
    BY <1>2 DEF StateTypeOK, Entries
  <2> QED BY <1>1, <1>2, <1>6, <2>1 DEF Clears
<1>8. Frame(t)
  BY <1>1, <1>5, <1>7, Stays, FrameIs
<1>9. HistoryHolds(t)'
  <2>1. IsFiniteSet({}) /\ Cardinality({}) <= MaxHistory
    BY FS_EmptySet, SelectionAssumption
  <2>2. HistoryHolds(t)
    BY <1>2 DEF TerminalHolds
  <2> QED BY <1>3, <1>4, <2>1, <2>2 DEF HistoryHolds, BoundedHistory, Entering
<1>10. CopiesHold(t)'
  <2>1. CopiesHold(t)
    BY <1>2 DEF TerminalHolds
  <2>2. ASSUME NEW S, RetainsBut(cleared, r.at, S, r.app)
        PROVE  RetainsBut(cleared', r.at, S, {})
    BY <1>6, <2>2 DEF RetainsBut, Told, Known, Entered
  <2>3. ASSUME NEW S, NEW T, RetainsBut(cleared, r.at, S, T)
        PROVE  RetainsBut(cleared', r.at, S, T)
    BY <1>6, <2>3, RetainsLater
  <2>4. /\ RetainsBut(cleared', r.at, saved[r.at], {})
        /\ r.busy => /\ RetainsBut(cleared', r.at, saved[r.at], r.bg)
                     /\ RetainsBut(cleared', r.at, r.bg, {})
    BY <1>2, <2>1, <2>2, <2>3 DEF CopiesHold
  <2> HIDE DEF r
  <2> QED BY <1>1, <1>2, <1>3, <1>4, <2>4 DEF CopiesHold
<1>11. EntriesHold(t)'
  BY <1>3, <1>4, <1>8, EntriesStay
<1> QED BY <1>1, <1>2, <1>3, <1>4, <1>8, <1>9, <1>10, <1>11, RestHolds

LEMMA CheckpointHolds ==
    ASSUME IInv, NEW t \in Terminals, Checkpoint(t)
    PROVE  IInv'
<1> DEFINE r == term[t]
           s == [term[t] EXCEPT !.busy = TRUE, !.bg = r.app]
<1>1. /\ r.step = "idle" /\ r.step \in Resting /\ Become(t, s)
      /\ UNCHANGED <<repo, mission, owner, saved, journal, asked, faults, effects, handed,
                     cleared>>
  BY DEF Checkpoint, disk, Resting
<1>2. /\ TerminalHolds(t) /\ StateTypeOK /\ r \in Terms /\ r.at # Nobody /\ r.target = Nobody
  BY <1>1, Mine DEF TerminalHolds, OwnerHolds, Entering, Leaving
<1>3. /\ s \in Terms /\ s.step = "idle" /\ s.at = r.at /\ s.target = r.target /\ s.id = r.id
      /\ s.app = r.app /\ s.next = r.next /\ s.bg = r.app
  BY <1>1, <1>2 DEF Terms
<1> HIDE DEF s
<1>4. /\ term' \in [Terminals -> Terms] /\ term'[t] = s
      /\ \A u \in Terminals : u # t => term'[u] = term[u]
  BY <1>1, <1>2, <1>3, BecomesIs
<1>5. Moves(t)
  BY <1>1, <1>3, <1>4 DEF Moves
<1>6. Frame(t)
  BY <1>1, <1>5, Stays, FrameIs
<1>7. HistoryHolds(t)'
  BY <1>2, <1>3, <1>4 DEF TerminalHolds, HistoryHolds, BoundedHistory, Entering
<1>8. CopiesHold(t)'
  BY <1>1, <1>2, <1>3, <1>4, RetainsSame, RetainsAll DEF TerminalHolds, CopiesHold
<1>9. EntriesHold(t)'
  BY <1>3, <1>4, <1>6, EntriesStay
<1> QED BY <1>1, <1>2, <1>3, <1>4, <1>6, <1>7, <1>8, <1>9, RestHolds

LEMMA CheckpointedHolds ==
    ASSUME IInv, NEW t \in Terminals, Checkpointed(t)
    PROVE  IInv'
<1> DEFINE r == term[t]
           s == Joined(term[t])
<1>1. /\ r.busy /\ Become(t, s)
      /\ UNCHANGED <<repo, mission, owner, journal, asked, effects, handed, cleared>>
  BY DEF Checkpointed
<1>2. PICK w \in {"ok", "failed"} : SaveAt(w, r.at, r.bg, saved[r.at])
  BY DEF Checkpointed
<1>3. /\ TerminalHolds(t) /\ StateTypeOK /\ r \in Terms /\ r.at # Nobody /\ r.at \in Places
      /\ r.target = Nobody /\ r.step \in {"idle", "picking", "saving"}
      /\ r.bg \in SUBSET Entries /\ r.step # "settle"
  BY <1>1, Mine DEF TerminalHolds, OwnerHolds, Entering, Leaving, Terms
<1>4. /\ s \in Terms /\ s.step = r.step /\ s.at = r.at /\ s.target = r.target
      /\ s.id = r.id /\ s.app = r.app /\ s.next = r.next /\ s.bg = {}
      /\ s.busy = FALSE /\ s.phase = r.phase
  BY <1>3, JoinedIs
<1> HIDE DEF s
<1>5. /\ term' \in [Terminals -> Terms] /\ term'[t] = s
      /\ \A u \in Terminals : u # t => term'[u] = term[u]
  BY <1>1, <1>3, <1>4, BecomesIs
<1>6. Moves(t) /\ Keeps(t)
  BY <1>3, <1>4, <1>5 DEF Moves, Keeps
<1>7. faults' \in Nat /\ Saves(t)
  <2>1. saved \in [Places -> SUBSET Entries]
    BY <1>3 DEF StateTypeOK
  <2>2. saved' = [saved EXCEPT ![r.at] = IF Takes(w) THEN r.bg ELSE saved[r.at]]
    BY <1>2 DEF SaveAt
  <2>3. Saves(t)
    BY <1>1, <1>3, <2>1, <2>2 DEF Saves
  <2> QED BY <1>2, <1>3, <2>3, CostsIs DEF SaveAt
<1>8. Frame(t)
  BY <1>1, <1>6, <1>7, Stays, FrameIs
<1>9. HistoryHolds(t)' /\ CopiesHold(t)' /\ EntriesHold(t)'
  BY <1>3, <1>4, <1>5, <1>6, <1>8, KeepsHold DEF Entering
<1>10. CASE r.step # "saving"
  BY <1>1, <1>3, <1>4, <1>5, <1>8, <1>9, <1>10, RestHolds DEF Resting, TerminalHolds, OwnerHolds
<1>11. CASE r.step = "saving"
  <2>1. OwnerHolds(t)'
    BY <1>1, <1>3, <1>4, <1>5, <1>11 DEF TerminalHolds, OwnerHolds, Entering, Leaving
  <2>2. RequestHolds(t)'
    BY <1>1, <1>3, <1>4, <1>5 DEF TerminalHolds, RequestHolds, Request
  <2>3. ShownHolds(t)'
    BY <1>3, <1>4, <1>5 DEF TerminalHolds, ShownHolds
  <2>4. StepHolds(t)'
    BY <1>1, <1>3, <1>4, <1>5, <1>11
    DEF TerminalHolds, StepHolds, Announcing, Preparing, Entering
  <2>5. TerminalHolds(t)'
    BY <1>9, <2>1, <2>2, <2>3, <2>4 DEF TerminalHolds
  <2>6. \A j \in Ids : j = r.id => RecordHolds(j)'
    BY <1>1, <1>8, RecordStays
  <2> QED BY <1>8, <2>5, <2>6, Suffices
<1> QED BY <1>10, <1>11

LEMMA AskHolds ==
    ASSUME IInv, NEW t \in Terminals, term[t].step \in {"picking", "out"},
           NEW q \in Requests, q.from = term[t].at, Ask(t, q),
           UNCHANGED <<repo, mission, owner, saved, journal, faults, effects, handed, cleared>>
    PROVE  IInv'
<1> DEFINE r == term[t]
           n == Len(asked) + 1
<1>1. /\ TerminalHolds(t) /\ StateTypeOK /\ r \in Terms /\ r.id = 0 /\ r.target = Nobody
      /\ r.at \in Places \cup {Nobody} /\ Nobody \notin Places
      /\ asked \in Seq(Requests) /\ Len(asked) \in Nat
      /\ r.step # "settle" /\ r.step \in Resting /\ r.app \in SUBSET Entries
  BY Mine, TypeFacts
  DEF TerminalHolds, OwnerHolds, RequestHolds, Resting, Entering, Leaving, StateTypeOK, Terms
<1>2. CASE r.at # Nobody /\ Cardinality(r.app) = MaxHistory
  <2>1. /\ Become(t, [term[t] EXCEPT !.step = "idle", !.pick = Fresh]) /\ UNCHANGED asked
        /\ "idle" \in Resting
    BY <1>2 DEF Ask, Resting
  <2>2. UNCHANGED <<disk, asked, faults, effects, handed, cleared>>
    BY <2>1 DEF disk
  <2> QED BY <1>1, <1>2, <2>1, <2>2, FreshIs, SelectorHolds
<1>3. CASE ~(r.at # Nobody /\ Cardinality(r.app) = MaxHistory)
  <2>0. PICK a : a = [id |-> n, arrival |-> FALSE, shown |-> Says("pending")]
    OBVIOUS
  <2> DEFINE app == IF r.at = Nobody THEN {} ELSE r.app \cup {a}
             step == IF r.at = Nobody THEN "admit" ELSE "saving"
             s == [term[t] EXCEPT !.id = n, !.phase = Admitted, !.pick = Fresh,
                                  !.step = step, !.app = app]
  <2>1. /\ Len(asked) < MaxRequests /\ asked' = Append(asked, q)
        /\ Become(t, [r EXCEPT
             !.id = Len(asked'), !.phase = Admitted, !.pick = Fresh, !.step = step,
             !.app = IF r.at = Nobody THEN {}
                     ELSE @ \cup {[id |-> Len(asked'), arrival |-> FALSE,
                                   shown |-> Says("pending")]}])
    BY <1>3 DEF Ask
  <2>2. /\ asked' \in Seq(Requests) /\ Len(asked') = n /\ DOMAIN asked' = 1..n
        /\ asked'[n] = q /\ n \in DOMAIN asked' /\ n \notin DOMAIN asked
    BY <1>1, <2>1
  <2>3. n \in Ids /\ n \in 0..MaxRequests /\ n # 0
    BY <1>1, <2>1, SelectionAssumption DEF Ids
  <2>4. /\ a \in Entries /\ a.id = n /\ a.arrival = FALSE /\ a.shown.kind = "pending"
    BY <2>0, <2>3, ShownIs DEF Entries
  <2>5. Become(t, s)
    BY <2>0, <2>1, <2>2
  <2>6. /\ app \in SUBSET Entries /\ BoundedHistory(app)
        /\ r.at # Nobody => app = r.app \cup {a}
    <3>1. BoundedHistory(r.app) /\ MaxHistory \in Nat
      BY <1>1, SelectionAssumption DEF TerminalHolds, HistoryHolds
    <3>2. CASE r.at = Nobody
      BY <3>1, <3>2, FS_EmptySet DEF BoundedHistory
    <3>3. CASE r.at # Nobody
      <4>1. /\ IsFiniteSet(r.app) /\ Cardinality(r.app) \in Nat
            /\ Cardinality(r.app) <= MaxHistory /\ Cardinality(r.app) # MaxHistory
        BY <1>3, <3>1, <3>3, FS_CardinalityType DEF BoundedHistory
      <4>2. /\ IsFiniteSet(r.app \cup {a})
            /\ Cardinality(r.app \cup {a}) \in {Cardinality(r.app), Cardinality(r.app) + 1}
        BY <4>1, FS_AddElement
      <4>3. Cardinality(r.app \cup {a}) <= MaxHistory
        BY <3>1, <4>1, <4>2
      <4> QED BY <1>1, <2>4, <3>3, <4>2, <4>3 DEF BoundedHistory
    <3> QED BY <3>2, <3>3
  <2>7. /\ step \in {"admit", "saving"} /\ step \in Steps
        /\ (step = "saving" <=> r.at # Nobody)
    BY DEF Steps
  <2>8. Admitted \in Phases
    BY ConstantsAre
  <2>9. (r.at = Nobody => app = {})
    OBVIOUS
  <2> HIDE DEF app, step, n
  <2>10. /\ s \in Terms /\ s.step = step /\ s.at = r.at /\ s.target = r.target /\ s.id = n
         /\ s.app = app /\ s.next = r.next /\ s.bg = r.bg /\ s.busy = r.busy
         /\ s.phase = Admitted
    BY <1>1, <2>3, <2>6, <2>7, <2>8, FreshIs DEF Terms
  <2> HIDE DEF s
  <2>11. /\ term' \in [Terminals -> Terms] /\ term'[t] = s
         /\ \A u \in Terminals : u # t => term'[u] = term[u]
    BY <1>1, <2>5, <2>10, BecomesIs
  <2>12. Frame(t)
    <3>1. StateTypeOK'
      BY <1>1, <2>2, <2>3, <2>11 DEF StateTypeOK
    <3> QED BY <1>1, <2>1, <2>10, <2>11, <3>1 DEF Frame, n
  <2> HIDE DEF r
  <2>13. OwnerHolds(t)'
    BY <1>1, <2>7, <2>10, <2>11 DEF TerminalHolds, OwnerHolds, Entering, Leaving, r
  <2>14. RequestHolds(t)'
    <3>1. n <= Len(asked')
      BY <1>1, <2>2 DEF n
    <3>2. Request(t)'.from = r.at
      BY <2>2, <2>10, <2>11 DEF Request, r
    <3> QED BY <2>3, <2>7, <2>10, <2>11, <3>1, <3>2 DEF RequestHolds, Resting
  <2>15. HistoryHolds(t)'
    BY <1>1, <2>6, <2>7, <2>10, <2>11 DEF TerminalHolds, HistoryHolds, BoundedHistory, r, Entering
  <2>16. CopiesHold(t)'
    <3>1. CopiesHold(t) /\ OwnerHolds(t)
      BY <1>1 DEF TerminalHolds
    <3>2. r.busy => r.at # Nobody
      BY <3>1 DEF OwnerHolds, r
    <3>3. r.at # Nobody => /\ RetainsBut(cleared, r.at, saved[r.at], r.app)
                           /\ RetainsBut(cleared, r.at, r.app, app)
                           /\ r.busy => /\ RetainsBut(cleared, r.at, saved[r.at], r.bg)
                                        /\ RetainsBut(cleared, r.at, r.bg, r.app)
      BY <2>6, <3>1, RetainsMore, RetainsAll DEF CopiesHold, r
    <3>4. r.at # Nobody => /\ RetainsBut(cleared, r.at, saved[r.at], app)
                           /\ r.busy => /\ RetainsBut(cleared, r.at, saved[r.at], r.bg)
                                        /\ RetainsBut(cleared, r.at, r.bg, app)
      BY <3>3, RetainsThrough
    <3> QED BY <1>1, <2>10, <2>11, <3>2, <3>4 DEF CopiesHold
  <2>17. TrueEntry(a)' /\ a.id = n /\ ~a.arrival
    <3>1. a.id \in DOMAIN asked'
      BY <2>2, <2>4
    <3> QED BY <2>4, <3>1 DEF TrueEntry
  <2>18. EntriesHold(t)'
    BY <2>6, <2>9, <2>10, <2>11, <2>12, <2>17, EntriesStay DEF r
  <2>19. ShownHolds(t)'
    <3>1. \A e \in r.app : Settled(e)
      BY <1>1 DEF TerminalHolds, ShownHolds, r
    <3>2. \A e \in app : Settled(e) \/ (e.id = n /\ ~e.arrival)
      BY <2>6, <2>9, <2>17, <3>1
    <3> QED BY <2>7, <2>10, <2>11, <3>2 DEF ShownHolds, Resting, Leaving, Entering
  <2>20. StepHolds(t)'
    <3>1. journal'[n] = NoRecord
      BY <2>2, <2>3 DEF IInv, RecordHolds
    <3>2. r.at # Nobody => Known(app, n)
      BY <2>6, <2>17 DEF Known
    <3> QED BY <2>7, <2>10, <2>11, <3>1, <3>2 DEF StepHolds, Announcing, Preparing, Entering
  <2>21. TerminalHolds(t)'
    BY <2>13, <2>14, <2>15, <2>16, <2>18, <2>19, <2>20 DEF TerminalHolds
  <2>22. \A j \in Ids : j = term[t].id => RecordHolds(j)'
    BY <1>1 DEF Ids, r
  <2> QED BY <2>12, <2>21, <2>22, Suffices
<1> QED BY <1>2, <1>3

LEMMA ChoosingHolds ==
    ASSUME IInv, NEW t \in Terminals, Choose(t) \/ Automatic(t)
    PROVE  IInv'
<1>1. CASE Choose(t)
  <2>1. PICK q \in Requests : q.from = term[t].at /\ Ask(t, q)
    BY <1>1 DEF Choose, Chosen
  <2>2. /\ term[t].step = "picking"
        /\ UNCHANGED <<repo, mission, owner, saved, journal, faults, effects, handed, cleared>>
    BY <1>1 DEF Choose, disk
  <2> QED BY <2>1, <2>2, AskHolds
<1>2. CASE Automatic(t)
  <2>1. PICK q \in Requests : q.from = Nobody /\ Ask(t, q)
    BY <1>2 DEF Automatic, Chosen
  <2>2. /\ term[t].step = "out"
        /\ UNCHANGED <<repo, mission, owner, saved, journal, faults, effects, handed, cleared>>
    BY <1>2 DEF Automatic, disk
  <2>3. term[t].at = Nobody
    BY <2>2, Mine DEF TerminalHolds, OwnerHolds
  <2> QED BY <2>1, <2>2, <2>3, AskHolds
<1> QED BY <1>1, <1>2

\* The locks of a terminal go with it.
LEMMA StopsHold ==
    ASSUME IInv, NEW t \in Terminals, Become(t, Out), owner' = Released(t), Saves(t),
           faults' \in Nat, UNCHANGED <<repo, mission, journal, asked, effects, handed, cleared>>
    PROVE  IInv'
<1>1. Out = [Out EXCEPT !.step = "out"]
  BY OutIsOut
<1>2. Out \in Terms /\ Out.id = 0
  BY <1>1, OutIs
<1>3. /\ term' \in [Terminals -> Terms] /\ term'[t] = Out
      /\ \A u \in Terminals : u # t => term'[u] = term[u]
  BY <1>2, Mine, BecomesIs
<1>4. Moves(t)
  BY <1>2, <1>3 DEF Moves
<1>5. Yields(t) /\ \A p \in Places : owner'[p] # t
  BY ReleasedIs
<1>6. Frame(t)
  BY <1>4, <1>5, Stays, FrameIs
<1>7. TerminalHolds(t)'
  BY <1>1, <1>3, <1>5, <1>6, OutHolds
<1>8. \A j \in Ids : j = term[t].id => RecordHolds(j)'
  BY <1>6, RecordStays
<1> QED BY <1>6, <1>7, <1>8, Suffices

LEMMA QuitHolds ==
    ASSUME IInv, NEW t \in Terminals, Quit(t)
    PROVE  IInv'
<1>1. /\ term[t].step = "idle" /\ Become(t, Out) /\ owner' = Released(t)
      /\ UNCHANGED <<repo, mission, journal, asked, effects, handed, cleared>>
  BY DEF Quit
<1>2. PICK w \in Writes : SaveHere(w, t)
  BY DEF Quit
<1>3. term[t].at # Nobody
  BY <1>1, Mine DEF TerminalHolds, OwnerHolds
<1> QED BY <1>1, <1>2, <1>3, SaveHereIs, StopsHold

LEMMA DieHolds ==
    ASSUME IInv, NEW t \in Terminals, Die(t)
    PROVE  IInv'
<1>1. /\ Become(t, Out) /\ owner' = Released(t) /\ faults' = faults + 1
      /\ UNCHANGED <<repo, mission, journal, asked, effects, handed, cleared>>
      /\ \/ UNCHANGED saved
         \/ term[t].busy /\ saved' = [saved EXCEPT ![term[t].at] = term[t].bg]
  BY DEF Die
<1>2. faults' \in Nat
  BY <1>1 DEF IInv, StateTypeOK
<1>3. /\ saved \in [Places -> SUBSET Entries] /\ term[t].bg \in SUBSET Entries
      /\ term[t].busy => term[t].at \in Places
  BY Mine DEF TerminalHolds, OwnerHolds, StateTypeOK, Terms
<1>4. Saves(t)
  BY <1>1, <1>3 DEF Saves
<1> QED BY <1>1, <1>2, <1>4, StopsHold

\* What the invariant does not speak of may change.
LEMMA ElsewhereHolds ==
    ASSUME IInv, repo' \in [Repos -> {"absent", "made", "init", "ready"}], faults' \in Nat,
           UNCHANGED <<mission, owner, saved, journal, asked, term, effects, handed, cleared>>
    PROVE  IInv'
<1>1. StateTypeOK'
  BY DEF IInv, StateTypeOK
<1>2. ASSUME NEW t \in Terminals PROVE TerminalHolds(t)'
  <2>1. TerminalHolds(t)
    BY DEF IInv
  <2>2. OwnerHolds(t)' /\ RequestHolds(t)'
    BY <2>1 DEF TerminalHolds, OwnerHolds, RequestHolds, Request, Target
  <2>3. HistoryHolds(t)' /\ CopiesHold(t)' /\ ShownHolds(t)'
    BY <2>1 DEF TerminalHolds, HistoryHolds, CopiesHold, ShownHolds
  <2>4. EntriesHold(t)'
    BY <2>1 DEF TerminalHolds, EntriesHold, TrueEntry, Ended
  <2>5. StepHolds(t)'
    BY <2>1 DEF TerminalHolds, StepHolds, PhaseHolds, Request, Target
  <2> QED BY <2>2, <2>3, <2>4, <2>5 DEF TerminalHolds
<1>3. ASSUME NEW i \in Ids PROVE RecordHolds(i)'
  BY DEF IInv, RecordHolds, PhaseHolds, Ended
<1>4. ASSUME NEW p \in Places PROVE FileHolds(p)'
  BY DEF IInv, FileHolds, TrueEntry, Ended
<1>5. \A t, u \in Terminals : term'[t].id = term'[u].id /\ term'[t].id # 0 => t = u
  BY DEF IInv
<1> QED BY <1>1, <1>2, <1>3, <1>4, <1>5 DEF IInv

LEMMA InitHolds == Init => IInv
<1> SUFFICES ASSUME Init PROVE IInv
  OBVIOUS
<1>1. StateTypeOK
  <2>1. Out \in Terms
    BY OutIsOut
  <2>2. NoRecord \in Records
    BY ConstantsAre DEF NoRecord, Records
  <2>3. asked \in Seq(Requests) /\ Len(asked) <= MaxRequests
    BY SelectionAssumption DEF Init
  <2> QED BY <2>1, <2>2, <2>3 DEF Init, StateTypeOK
<1>2. ASSUME NEW t \in Terminals PROVE TerminalHolds(t)
  <2> DEFINE r == term[t]
  <2>1. /\ r.step = "out" /\ r.at = Nobody /\ r.target = Nobody /\ r.id = 0
        /\ r.app = {} /\ r.next = {} /\ r.bg = {} /\ r.busy = FALSE
        /\ \A p \in Places : owner[p] # t
        /\ Len(asked) = 0
    BY SelectionAssumption DEF Init, Out
  <2> HIDE DEF r
  <2>2. OwnerHolds(t) /\ RequestHolds(t) /\ CopiesHold(t) /\ EntriesHold(t) /\ ShownHolds(t)
    BY <2>1 DEF OwnerHolds, RequestHolds, CopiesHold, EntriesHold, ShownHolds, Resting,
                Announcing, Preparing, Entering, Leaving, r
  <2>3. HistoryHolds(t)
    BY <2>1, FS_EmptySet, SelectionAssumption DEF HistoryHolds, BoundedHistory, Entering, r
  <2>4. StepHolds(t)
    BY <2>1 DEF StepHolds, Announcing, Preparing, Entering, r
  <2> QED BY <2>2, <2>3, <2>4 DEF TerminalHolds
<1>3. ASSUME NEW i \in Ids PROVE RecordHolds(i)
  BY DEF Init, RecordHolds, NoRecord
<1>4. ASSUME NEW p \in Places PROVE FileHolds(p)
  BY FS_EmptySet DEF Init, FileHolds
<1>5. \A t, u \in Terminals : term[t].id = term[u].id /\ term[t].id # 0 => t = u
  BY DEF Init, Out
<1> QED BY <1>1, <1>2, <1>3, <1>4, <1>5 DEF IInv

LEMMA StepsHold == IInv /\ [Next]_vars => IInv'
<1> SUFFICES ASSUME IInv, [Next]_vars PROVE IInv'
  OBVIOUS
<1>1. ASSUME NEW t \in Terminals, Selects(t) PROVE IInv'
  BY <1>1, SaveIntentHolds, AdmitHolds, BeginHolds, CurrentHolds, PrepareHolds,
     InitialiseHolds, RepositoryDoneHolds, SelectMissionHolds, MissionDoneHolds, OpenHolds,
     LoadedHolds, SaveSourceHolds, SaveTargetHolds, PreparedHolds, HandoffHolds, LeaveHolds,
     ArriveHolds, FailingHolds, SettleHolds
  DEF Selects
<1>2. ASSUME NEW t \in Terminals, Picking(t) PROVE IInv'
  BY <1>2, SelectorSteps, ChoosingHolds DEF Picking
<1>3. CASE Appears
  <2>1. repo' \in [Repos -> {"absent", "made", "init", "ready"}] /\ faults' \in Nat
    BY <1>3 DEF Appears, IInv, StateTypeOK
  <2> QED BY <1>3, <2>1, ElsewhereHolds DEF Appears
<1>4. CASE UNCHANGED vars
  <2>1. repo' \in [Repos -> {"absent", "made", "init", "ready"}] /\ faults' \in Nat
    BY <1>4 DEF vars, disk, IInv, StateTypeOK
  <2> QED BY <1>4, <2>1, ElsewhereHolds DEF vars, disk
<1>5. CASE Rests
  BY <1>4, <1>5 DEF Rests
<1> QED BY <1>1, <1>2, <1>3, <1>4, <1>5, ClearHolds, CheckpointHolds, CheckpointedHolds,
           QuitHolds, DieHolds
        DEF Next

-----------------------------------------------------------------------------
(* The theorems.  *)

LEMMA InvariantIsOwned == IInv => WorkIsOwned
<1> SUFFICES ASSUME IInv PROVE WorkIsOwned
  OBVIOUS
<1>1. TypeOK
  <2>1. \A i \in DOMAIN asked : asked[i] \in Requests
    BY TypeFacts DEF IInv
  <2>2. \A t \in Terminals :
          /\ term[t].step \in Steps /\ term[t].pick \in Picks
          /\ {term[t].at, term[t].target} \subseteq Places \cup {Nobody}
          /\ term[t].app \cup term[t].next \cup term[t].bg \subseteq Entries
    BY TypeFacts DEF IInv, Terms
  <2> QED BY <2>1, <2>2 DEF IInv, StateTypeOK, TypeOK
<1>2. ASSUME NEW t \in Terminals
      PROVE  /\ term[t].at # Nobody => owner[term[t].at] = t
             /\ \A p \in Places : owner[p] = t => p \in {term[t].at, term[t].target}
             /\ term[t].step \in {"idle", "settle", "failing"} => term[t].target = Nobody
             /\ Cardinality(term[t].app) <= MaxHistory
  BY DEF IInv, TerminalHolds, OwnerHolds, HistoryHolds, BoundedHistory, Entering, Leaving
<1> QED BY <1>1, <1>2 DEF WorkIsOwned

LEMMA InvariantIsTrue == IInv => ChoicesHold
<1> SUFFICES ASSUME IInv PROVE ChoicesHold
  OBVIOUS
<1>1. ASSUME NEW i \in DOMAIN asked
      PROVE  /\ effects[i] # {} =>
                  /\ journal[i].dispatched
                  /\ asked[i].from # Nobody /\ i \notin cleared.choices =>
                       \E e \in saved[asked[i].from] : e.id = i /\ ~e.arrival
             /\ RecordIsTrue(i)
  <2>1. RecordHolds(i)
    BY TypeFacts DEF IInv
  <2> QED BY <2>1 DEF RecordHolds, RecordIsTrue, PhaseHolds, Told, Entered, Known, Arrives
<1>2. ASSUME NEW t \in Terminals, term[t].step = "idle", NEW e \in term[t].app
      PROVE  EntryIsTrue(e)
  <2>1. TrueEntry(e) /\ Settled(e)
    BY <1>2 DEF IInv, TerminalHolds, EntriesHold, ShownHolds, Resting
  <2> QED BY <2>1 DEF TrueEntry, Settled, EntryIsTrue, Final
<1> QED BY <1>1, <1>2 DEF ChoicesHold, NothingUnannounced, HistoryIsTrue

\* A terminal owns the conversation of the work it shows, whatever fails and
\* whenever it dies, owns no other once a switch is over, and keeps a history
\* within its bound: for any number of terminals, places, choices and faults.
THEOREM WorkOwned == Spec => []WorkIsOwned
<1>1. IInv /\ [Next]_vars => IInv'
  BY StepsHold
<1>2. IInv => WorkIsOwned
  BY InvariantIsOwned
<1> QED BY InitHolds, <1>1, <1>2, PTL DEF Spec

\* A choice is in the journal and in its conversation before anything is created
\* for it, and stays in that conversation until the user clears it; both tell of
\* it what happened, and work that was entered has a saved arrival unless its
\* conversation was cleared since: for any number of terminals, places, choices
\* and faults.
THEOREM ChoicesTold == Spec => []ChoicesHold
<1>1. IInv /\ [Next]_vars => IInv'
  BY StepsHold
<1>2. IInv => ChoicesHold
  BY InvariantIsTrue
<1> QED BY InitHolds, <1>1, <1>2, PTL DEF Spec

===============================================================================
