------------------------------- MODULE Admission -------------------------------
(***************************************************************************)
(* The endpoint-shared inference admission of inference_admission.rs.      *)
(*                                                                         *)
(* Clients of any number of processes share a directory: a ledger, its     *)
(* lock, and one owner file per ticket that its holder keeps locked.  Each *)
(* poll is one transaction under the ledger lock: reap the entries whose   *)
(* owner file is no longer locked, take a ticket if there is none, grant   *)
(* free slots, publish, discard the reaped files.  A holder gives its      *)
(* ticket back without the ledger lock, and dies at any step; a            *)
(* publication may fail.                                                   *)
(***************************************************************************)
EXTENDS Naturals, Sequences, SequencesExt

CONSTANTS
    Clients,            \* the requests that may want the endpoint
    Background,         \* those of coding workers; the others are foreground
    Nobody,             \* the holder of a free ledger lock
    MaxTickets,         \* inference_admission.rs:MAX_TICKETS
    Owners,             \* owner files, as many as exist at once
    NoOwner,            \* a client without a ticket
    Setups              \* the capacity each client is configured for, with bounds on
                        \* process deaths and failed publications: one is chosen

MaxStreak == 3          \* foreground grants while background work waits

ASSUME ClientsAssumption == Background \subseteq Clients /\ Nobody \notin Clients

ASSUME SetupsAssumption ==
    \A s \in Setups : /\ DOMAIN s.wanted \subseteq Clients
                      /\ \A c \in DOMAIN s.wanted : s.wanted[c] \in Nat \ {0}
                      /\ s.crashes \in Nat /\ s.failures \in Nat

ASSUME OwnersAssumption == NoOwner \notin Owners

ASSUME TicketsAssumption == MaxTickets \in Nat \ {0}

Entry == [id : Owners, client : Clients, state : {"waiting", "active"},
          passed : Nat]   \* ghost: foreground grants while it was next in its class

Ledger == [capacity : Nat, streak : 0..MaxStreak, entries : Seq(Entry)]

VARIABLES
    ledger,     \* ledger.json; the entries are in the order of their sequence
    files,      \* the owner files that exist
    locked,     \* those whose holder is alive
    lock,       \* the client in a transaction
    draft,      \* its working copy of the ledger
    garbage,    \* the files it will discard
    ticket,     \* the owner file of a client
    at,         \* what a client is doing
    setup,      \* never changes
    deaths, failures

directory == <<ledger, files, locked>>
transaction == <<lock, draft, garbage>>
faults == <<deaths, failures>>
live == <<directory, transaction, ticket, at, faults>>
admissionVars == <<live, setup>>

Steps == {"off", "queued", "publishing", "discarding", "refused", "permit",
          "releasing", "publishingRelease", "discardingRelease"}

Empty(slots) == [capacity |-> slots, streak |-> 0, entries |-> <<>>]

AdmissionTypeOK ==
    /\ ledger \in Ledger /\ Len(ledger.entries) <= MaxTickets
    /\ draft \in Ledger
    /\ files \subseteq Owners /\ garbage \subseteq Owners
    /\ locked \subseteq files
    /\ lock \in Clients \cup {Nobody}
    /\ ticket \in [Clients -> Owners \cup {NoOwner}]
    /\ at \in [Clients -> Steps]
    /\ setup \in Setups /\ deaths \in 0..setup.crashes /\ failures \in 0..setup.failures

\* The first reader of a missing ledger takes its own capacity for it; which
\* client that is makes no difference, for an empty ledger is adopted by any.
AdmissionInit ==
    /\ setup \in Setups
    /\ \E c \in DOMAIN setup.wanted : ledger = Empty(setup.wanted[c])
    /\ draft = ledger
    /\ files = {} /\ locked = {} /\ garbage = {}
    /\ lock = Nobody
    /\ ticket = [c \in Clients |-> NoOwner]
    /\ at = [c \in Clients |-> "off"]
    /\ deaths = 0 /\ failures = 0

-----------------------------------------------------------------------------
(* The ledger. *)

IdsOf(l) == {e.id : e \in ToSet(l.entries)}

ActiveIn(l) == {i \in DOMAIN l.entries : l.entries[i].state = "active"}

IsForeground(e) == e.client \notin Background

\* The places of a class's waiting entries, oldest first.
WaitingIn(l, foreground) ==
    {i \in DOMAIN l.entries : /\ l.entries[i].state = "waiting"
                              /\ IsForeground(l.entries[i]) = foreground}

\* Fault: the newest entry is taken.
NewestOf(S) == CHOOSE i \in S : \A j \in S : j <= i

Oldest(S) == CHOOSE i \in S : \A j \in S : i <= j

\* Fault: foreground work always goes first.
ForegroundFirst(l) == WaitingIn(l, TRUE) # {}

\* choose: foreground first, but background work after MaxStreak grants.
TakesForeground(l) ==
    /\ WaitingIn(l, TRUE) # {}
    /\ WaitingIn(l, FALSE) # {} => l.streak < MaxStreak

Activated(e) == [e EXCEPT !.state = "active"]

PassedOver(e) == [e EXCEPT !.passed = @ + 1]

GrantForeground(l) ==
    LET foreground == WaitingIn(l, TRUE)
        background == WaitingIn(l, FALSE)
    IN  [l EXCEPT !.entries = [i \in DOMAIN l.entries |->
                      IF i = Oldest(foreground) THEN Activated(l.entries[i])
                      ELSE IF i \in background /\ i = Oldest(background)
                      THEN PassedOver(l.entries[i]) ELSE l.entries[i]],
                  !.streak = IF background # {} THEN l.streak + 1 ELSE 0]

GrantBackground(l) ==
    [l EXCEPT !.entries[Oldest(WaitingIn(l, FALSE))].state = "active", !.streak = 0]

\* One pass of the granting loop.
GrantOne(l) ==
    IF Cardinality(ActiveIn(l)) >= l.capacity \/ WaitingIn(l, TRUE) \cup WaitingIn(l, FALSE) = {}
    THEN l
    ELSE IF TakesForeground(l) THEN GrantForeground(l) ELSE GrantBackground(l)

\* The loop ends after at most as many grants as there are entries.
Grant(l) ==
    LET granted[n \in Nat] == IF n = 0 THEN l ELSE GrantOne(granted[n - 1])
    IN  granted[Len(l.entries)]

-----------------------------------------------------------------------------
(* A transaction, for a poll or for a release.  Taking the ledger lock,     *)
(* reading, reaping and deciding are one step: an owner that goes in between*)
(* is seen as one that goes right after, for the owner locks are read once. *)

Go(c, step) == at' = [at EXCEPT ![c] = step]

Unlock == lock' = Nobody /\ garbage' = {} /\ draft' = ledger

\* Every saved entry has its owner file, every locked one its saved entry.
Provable(l) == IdsOf(l) \subseteq files /\ locked \subseteq IdsOf(l)

\* The entries of living owners, in their order.
Living(entries, alive) ==
    LET kept[n \in 0..Len(entries)] ==
            IF n = 0 THEN <<>>
            ELSE IF entries[n].id \in alive THEN Append(kept[n - 1], entries[n])
            ELSE kept[n - 1]
    IN  kept[Len(entries)]

Reaped == [ledger EXCEPT !.entries = Living(@, locked)]

\* Fault: the reaped files go before the ledger that no longer names them.
DiscardEarly(c, step) ==
    /\ lock = Nobody /\ Provable(ledger)
    /\ lock' = c
    /\ garbage' = files \ locked
    /\ files' = locked \cup locked'
    /\ Go(c, step)

Prepare(c, step) ==
    /\ lock = Nobody /\ Provable(ledger)
    /\ lock' = c
    /\ garbage' = files \ locked
    /\ files' = files \cup locked'
    /\ Go(c, step)

\* Without that proof a poll is refused, and so is a release, silently.
RefuseProof(c) ==
    /\ at[c] \in {"queued", "releasing"}
    /\ lock = Nobody /\ ~Provable(ledger)
    /\ Go(c, IF at[c] = "queued" THEN "refused" ELSE "off")
    /\ UNCHANGED <<directory, transaction, ticket, faults>>

\* Fault: a client brings its capacity to a ledger in use.
AlwaysAdopts(c) == TRUE

\* A ledger without live entries is adopted at the client's own capacity.
CanAdopt(c) == Reaped.capacity = setup.wanted[c] \/ Reaped.entries = <<>>

\* The streak starts afresh with an empty queue.
TakenOver(c) ==
    IF Reaped.entries = <<>> THEN Empty(setup.wanted[c])
    ELSE [Reaped EXCEPT !.capacity = setup.wanted[c]]

\* Live requests of another capacity are waited out without a ticket.
WaitOut(c) ==
    /\ at[c] = "queued" /\ ~CanAdopt(c)
    /\ draft' = Reaped
    /\ UNCHANGED locked
    /\ Prepare(c, "publishing")
    /\ UNCHANGED <<ledger, ticket, faults>>

\* A new ticket, under a fresh name: its owner file is created and locked before
\* the ledger says so.
Enqueue(c) ==
    /\ at[c] = "queued" /\ CanAdopt(c) /\ ticket[c] = NoOwner
    /\ Len(Reaped.entries) < MaxTickets
    /\ Owners # files
    /\ LET id  == CHOOSE file \in Owners : file \notin files
           new == [id |-> id, client |-> c, state |-> "waiting", passed |-> 0]
       IN  /\ locked' = locked \cup {id}
           /\ ticket' = [ticket EXCEPT ![c] = id]
           /\ draft' = Grant([TakenOver(c) EXCEPT !.entries = Append(@, new)])
    /\ Prepare(c, "publishing")
    /\ UNCHANGED <<ledger, faults>>

RefuseFull(c) ==
    /\ at[c] = "queued" /\ CanAdopt(c) /\ ticket[c] = NoOwner
    /\ lock = Nobody /\ Provable(ledger)
    /\ Len(Reaped.entries) >= MaxTickets
    /\ Go(c, "refused")
    /\ UNCHANGED <<directory, transaction, ticket, faults>>

\* Fault: only newcomers grant free slots.
LookOnly(c) ==
    /\ at[c] = "queued" /\ CanAdopt(c) /\ ticket[c] \in IdsOf(Reaped)
    /\ draft' = TakenOver(c)
    /\ UNCHANGED locked
    /\ Prepare(c, "publishing")
    /\ UNCHANGED <<ledger, ticket, faults>>

\* Free slots are granted, to this client or to others.
Advance(c) ==
    /\ at[c] = "queued" /\ CanAdopt(c) /\ ticket[c] \in IdsOf(Reaped)
    /\ draft' = Grant(TakenOver(c))
    /\ UNCHANGED locked
    /\ Prepare(c, "publishing")
    /\ UNCHANGED <<ledger, ticket, faults>>

\* A release only reaps.
Release(c) ==
    /\ at[c] = "releasing"
    /\ draft' = Reaped
    /\ UNCHANGED locked
    /\ Prepare(c, "publishingRelease")
    /\ UNCHANGED <<ledger, ticket, faults>>

\* The ledger is renamed into place.
Publish(c) ==
    /\ at[c] \in {"publishing", "publishingRelease"}
    /\ ledger' = draft
    /\ Go(c, IF at[c] = "publishing" THEN "discarding" ELSE "discardingRelease")
    /\ UNCHANGED <<files, locked, transaction, ticket, faults>>

\* The publication fails before its rename, or is unconfirmed after it.
FailPublish(c) ==
    /\ failures < setup.failures
    /\ at[c] \in {"publishing", "publishingRelease"}
    /\ draft # ledger
    /\ ledger' \in {ledger, draft}
    /\ lock' = Nobody /\ garbage' = {} /\ draft' = ledger'
    /\ failures' = failures + 1
    /\ Go(c, IF at[c] = "publishing" THEN "refused" ELSE "off")
    /\ UNCHANGED <<files, locked, ticket, deaths>>

\* A granted client leaves with its permit.
Discard(c) ==
    /\ at[c] \in {"discarding", "discardingRelease"}
    /\ files' = files \ garbage
    /\ Unlock
    /\ Go(c, IF at[c] = "discardingRelease" THEN "off"
             ELSE IF \E i \in ActiveIn(ledger) : ledger.entries[i].id = ticket[c]
             THEN "permit" ELSE "queued")
    /\ UNCHANGED <<ledger, locked, ticket, faults>>

-----------------------------------------------------------------------------
(* A client's request, from its queue to the drop of its ticket. *)

Request(c) ==
    /\ at[c] = "off" /\ c \in DOMAIN setup.wanted
    /\ Go(c, "queued")
    /\ UNCHANGED <<directory, transaction, ticket, faults>>

\* The owner lock is given up first, without the ledger lock...
DropTicket(c) ==
    /\ at[c] \in {"queued", "permit", "refused"}
    /\ locked' = locked \ {ticket[c]}
    /\ ticket' = [ticket EXCEPT ![c] = NoOwner]
    /\ Go(c, IF ticket[c] = NoOwner THEN "off" ELSE "releasing")
    /\ UNCHANGED <<ledger, files, transaction, faults>>

\* ... then the entry, unless another transaction is going on.
SkipRelease(c) ==
    /\ at[c] = "releasing" /\ lock # Nobody
    /\ Go(c, "off")
    /\ UNCHANGED <<directory, transaction, ticket, faults>>

\* A process dies: its owner file and the ledger are unlocked as they are.
Die(c) ==
    /\ deaths < setup.crashes /\ (ticket[c] # NoOwner \/ lock = c)
    /\ locked' = locked \ {ticket[c]}
    /\ ticket' = [ticket EXCEPT ![c] = NoOwner]
    /\ IF lock = c THEN Unlock ELSE UNCHANGED transaction
    /\ Go(c, "off")
    /\ deaths' = deaths + 1
    /\ UNCHANGED <<ledger, files, failures>>

\* A poll or a release that finds the ledger unlocked.
Attempt(c) ==
    \/ RefuseProof(c) \/ WaitOut(c) \/ Enqueue(c) \/ RefuseFull(c) \/ Advance(c)
    \/ Release(c)

Conclude(c) == Publish(c) \/ FailPublish(c) \/ Discard(c)

AdmissionNext ==
    /\ \E c \in Clients :
        \/ Request(c) \/ Attempt(c) \/ Conclude(c)
        \/ DropTicket(c) \/ SkipRelease(c) \/ Die(c)
    /\ UNCHANGED setup

AdmissionSpec == AdmissionInit /\ [][AdmissionNext]_admissionVars

\* Transactions are bounded work, and an admitted or refused request ends within
\* its deadlines.  A waiting client polls every 25 ms with a lock attempt that
\* does not block: it is assumed to find the ledger free again and again and to
\* be in time once.
AdmissionFairness ==
    \A c \in Clients :
        /\ WF_live(Conclude(c))
        /\ SF_live(Attempt(c))
        /\ WF_live(at[c] \in {"permit", "refused"} /\ DropTicket(c))

AdmissionFairSpec == AdmissionSpec /\ AdmissionFairness

-----------------------------------------------------------------------------
(* Properties. *)

Admitted == {c \in Clients : at[c] = "permit"}

\* Requests of different configurations are never active together, and no more
\* of them than the capacity they are all configured for, whoever dies or fails
\* in a transaction.
OneCapacity ==
    \A c \in Admitted :
        /\ Cardinality(Admitted) <= setup.wanted[c]
        /\ \A d \in Admitted : setup.wanted[d] = setup.wanted[c]
        /\ \E i \in ActiveIn(ledger) : ledger.entries[i].id = ticket[c]

\* reference.md: a waiting background request gets a grant after at most three
\* foreground grants.
BackgroundIsServed ==
    \A e \in ToSet(ledger.entries) : e.state = "waiting" => e.passed <= MaxStreak

\* Each class is served in the order of its tickets.
ClassOrder ==
    \A i, j \in DOMAIN ledger.entries :
        /\ i < j /\ ledger.entries[j].state = "active"
        /\ IsForeground(ledger.entries[i]) = IsForeground(ledger.entries[j])
        => ledger.entries[i].state = "active"

\* A ticket whose client was refused and has yet to give it up.
GivenUp(o) == \E c \in Clients : ticket[c] = o /\ at[c] = "refused"

\* Nobody's death at any step of a transaction leaves a ledger that refuses its
\* next user: saved entries have their files and live tickets their entries.  A
\* failed publication may leave a live ticket without an entry, but only one that
\* its own client, refused for it, is about to give up; all others keep theirs.
ProofHolds ==
    lock = Nobody =>
        /\ IdsOf(ledger) \subseteq files
        /\ \A o \in locked \ IdsOf(ledger) : failures > 0 /\ GivenUp(o)
        /\ \A c \in Clients : ticket[c] # NoOwner =>
               ticket[c] \in IdsOf(Reaped) \/ (failures > 0 /\ GivenUp(ticket[c]))

\* A request that got a ticket is admitted, refused or given up eventually.
TicketServed ==
    \A c \in Clients : at[c] = "queued" /\ ticket[c] # NoOwner ~> at[c] \in {"permit", "refused", "releasing", "off"}

\* The queue keeps its promises whoever leaves it or dies: order within a class,
\* and at most three foreground grants before a waiting background request.
ServedInTurn == BackgroundIsServed /\ ClassOrder

\* The ledger is well formed and stays usable by its next user.
LedgerHolds == AdmissionTypeOK /\ ProofHolds /\ OneCapacity
=============================================================================
