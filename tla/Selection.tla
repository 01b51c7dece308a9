------------------------------ MODULE Selection ------------------------------
(***************************************************************************)
(* Opening and switching work (workstation.rs, selection.rs,                *)
(* selection_store.rs, missions.rs, conversations.rs): terminals choose a   *)
(* workspace and a mission, record the choice in the conversation they      *)
(* leave and in the selection journal, prepare the target, and hand over.   *)
(*                                                                          *)
(* A place is a workspace with a mission and its one conversation; several  *)
(* places may share a repository.  A conversation keeps entries: the choice *)
(* of its user to leave it (a source) and the arrival of a choice that led  *)
(* to it.  Other commands, paths, names and notices are left out.           *)
(*                                                                          *)
(* The journal and a mission are each written under a lock in one step; a   *)
(* write may fail, or take effect and still report an error.                *)
(***************************************************************************)
EXTENDS Naturals, FiniteSets, Sequences

CONSTANTS
    Terminals,      \* processes
    Places,         \* workspace, mission and conversation
    Repos,          \* repositories
    RepoOf,         \* the repository of a place
    Nobody,         \* no terminal, place or repository
    MaxHistory,     \* entries a conversation can keep
    MaxRequests,    \* bound: choices
    MaxFaults       \* bound: failed writes and deaths

ASSUME SelectionAssumption ==
    /\ RepoOf \in [Places -> Repos]
    /\ Nobody \notin Terminals \cup Places \cup Repos
    /\ {MaxHistory, MaxRequests, MaxFaults} \subseteq Nat

VARIABLES
    repo,       \* the directory of each repository
    mission,    \* the missions that exist
    owner,      \* the lock of each conversation
    saved,      \* the file of each conversation
    journal,    \* selections.json
    asked,      \* the requests that were made
    term,       \* the terminals
    faults,     \* failed writes and deaths so far
    effects,    \* ghost: what each request created
    handed,     \* ghost: the requests that were handed over
    cleared     \* ghost: what /clear dropped: choices, and places with no arrival since

disk == <<repo, mission, owner, saved, journal>>
vars == <<disk, asked, term, faults, effects, handed, cleared>>

Ids == 1..MaxRequests

\* Phase, in its order.
Admitted == 0
RepositoryReady == 1
MissionReady == 2
TargetLoaded == 3
HandoffPrepared == 4
Selected == 5
AlreadyCurrent == 6
Phases == Admitted..AlreadyCurrent

\* What an entry says of its request.
Shown == [kind : {"at"}, phase : Phases, failed : BOOLEAN]
         \cup [kind : {"pending", "refused", "unknown"}]
At(phase, failed) == [kind |-> "at", phase |-> phase, failed |-> failed]
Says(kind) == [kind |-> kind]

Entries == [id : Ids, arrival : BOOLEAN, shown : Shown]
Records == [phase : Phases, failed : BOOLEAN, dispatched : BOOLEAN]
NoRecord == [phase |-> Admitted, failed |-> TRUE, dispatched |-> FALSE]
Requests == [from : Places \cup {Nobody}, to : Places, create : BOOLEAN, new : BOOLEAN]

\* The selector: the repository that was validated, and whether as a new one.
Picks == [repo : Repos \cup {Nobody}, create : BOOLEAN]
Fresh == [repo |-> Nobody, create |-> FALSE]

Steps == {"out", "picking", "idle", "saving", "admit", "begin", "current",
          "repository", "initialise", "repository-done", "mission", "mission-done",
          "open", "loaded", "source", "target", "prepared", "handoff",
          "leave", "arrive", "failing", "settle"}

\* A terminal: the place of its workstation, the other workstation it holds
\* (the next one, then the previous one), their entries, and a checkpoint that
\* the background is saving.
Out == [step |-> "out", at |-> Nobody, target |-> Nobody, id |-> 0,
        phase |-> Admitted, app |-> {}, next |-> {}, bg |-> {},
        busy |-> FALSE, pick |-> Fresh]

\* A directory is made, then a repository without a commit, then ready.
Init ==
    /\ repo \in [Repos -> {"absent", "ready"}]
    /\ mission \in [Places -> BOOLEAN]
    /\ \A p \in Places : mission[p] => repo[RepoOf[p]] = "ready"
    /\ \E r \in Repos : repo[r] = "ready"
    /\ owner = [p \in Places |-> Nobody]
    /\ saved = [p \in Places |-> {}]
    /\ journal = [i \in Ids |-> NoRecord]
    /\ asked = <<>> /\ term = [t \in Terminals |-> Out]
    /\ faults = 0 /\ effects = [i \in Ids |-> {}] /\ handed = {}
    /\ cleared = [choices |-> {}, places |-> {}]

-----------------------------------------------------------------------------
(* Writes. *)

Writes == {"ok", "failed", "uncertain"}

Takes(w) == w \in {"ok", "uncertain"}

Costs(w) == IF w = "ok" THEN UNCHANGED faults
            ELSE faults < MaxFaults /\ faults' = faults + 1

\* Nothing follows a failure and no phase comes back.
Recordable(id, record) ==
    /\ journal[id].dispatched /\ ~journal[id].failed
    /\ record.phase >= journal[id].phase

\* Store::save
Publish(w, id, record) ==
    /\ Costs(w)
    /\ journal' = IF Takes(w) THEN [journal EXCEPT ![id] = record] ELSE journal

\* A checkpoint that does not wait for the older one.
JoinedLater(r) == r

\* Autosave::finish joins the older checkpoint first.
Joined(r) == [r EXCEPT !.busy = FALSE, !.bg = {}]

SaveAt(w, p, entries, older) ==
    /\ Costs(w)
    /\ saved' = [saved EXCEPT ![p] = IF Takes(w) THEN entries ELSE older]

\* The workstation on show is saved; what was under way is written before.
SaveHere(w, t) ==
    LET r == term[t] IN
      SaveAt(w, r.at, r.app, IF r.busy THEN r.bg ELSE saved[r.at])

Become(t, r) == term' = [term EXCEPT ![t] = r]
Goes(t, step) == Become(t, [term[t] EXCEPT !.step = step])

\* An entry of a request says something else.
Mark(entries, id, arrival, shown) ==
    {IF e.id = id /\ e.arrival = arrival THEN [e EXCEPT !.shown = shown] ELSE e :
        e \in entries}

\* observed_state: a phase whose publication failed is not known to others.
Observed(w, phase, failed) == IF w = "ok" THEN At(phase, failed) ELSE Says("unknown")

Request(t) == asked[term[t].id]
Target(t) == Request(t).to

-----------------------------------------------------------------------------
(* The selector. *)

\* prepare_workspace: an unused path, or the root of a repository.
Valid(r, create) == IF create THEN repo[r] = "absent" ELSE repo[r] \in {"init", "ready"}

OpenSelector(t) ==
    /\ term[t].step \in {"idle", "out"}
    /\ Become(t, [term[t] EXCEPT !.step = "picking", !.pick = Fresh])
    /\ UNCHANGED <<disk, asked, faults, effects, handed, cleared>>

\* A path that was entered, to open or to create (F2), was found valid.
Accept(t) ==
    /\ term[t].step = "picking" /\ term[t].pick.repo = Nobody
    /\ \E r \in Repos, create \in BOOLEAN :
         /\ Valid(r, create)
         /\ Become(t, [term[t] EXCEPT !.pick = [repo |-> r, create |-> create]])
    /\ UNCHANGED <<disk, asked, faults, effects, handed, cleared>>

Escape(t) ==
    /\ term[t].step = "picking"
    /\ Become(t, [term[t] EXCEPT !.step = IF term[t].at = Nobody THEN "out" ELSE "idle",
                                 !.pick = Fresh])
    /\ UNCHANGED <<disk, asked, faults, effects, handed, cleared>>

\* Choice::validate and mission_choice; a new name may not exist, another one is
\* resumed if it exists and started if it does not.
Chosen(p, create, new) ==
    {q \in Requests :
        /\ q.to = p /\ q.create = create /\ (create => q.new)
        /\ q.new = (IF create THEN TRUE ELSE new \/ ~mission[p])
        /\ ~create /\ q.new => ~mission[p]}

\* The choice is a request from here on.  At startup it goes to the journal; a
\* workstation records it in its conversation, if its history has room.
Ask(t, q) ==
    LET r == term[t] IN
      IF r.at # Nobody /\ Cardinality(r.app) = MaxHistory
      THEN Become(t, [r EXCEPT !.step = "idle", !.pick = Fresh]) /\ UNCHANGED asked
      ELSE /\ Len(asked) < MaxRequests
           /\ asked' = Append(asked, q)
           /\ Become(t, [r EXCEPT
                 !.id = Len(asked'), !.phase = Admitted, !.pick = Fresh,
                 !.step = IF r.at = Nobody THEN "admit" ELSE "saving",
                 !.app = IF r.at = Nobody THEN {}
                         ELSE @ \cup {[id |-> Len(asked'), arrival |-> FALSE,
                                       shown |-> Says("pending")]}])

\* A mission of that repository, resumed or started, or only started (F2).
Choose(t) ==
    LET pick == term[t].pick IN
      /\ term[t].step = "picking" /\ pick.repo # Nobody
      /\ \E p \in Places, new \in BOOLEAN :
           /\ RepoOf[p] = pick.repo
           /\ \E q \in Chosen(p, pick.create, new) : q.from = term[t].at /\ Ask(t, q)
      /\ UNCHANGED <<disk, faults, effects, handed, cleared>>

\* The program starts inside a repository.
Automatic(t) ==
    /\ term[t].step = "out"
    /\ \E p \in Places : /\ Valid(RepoOf[p], FALSE)
                         /\ \E q \in Chosen(p, FALSE, FALSE) :
                              q.from = Nobody /\ Ask(t, q)
    /\ UNCHANGED <<disk, faults, effects, handed, cleared>>

-----------------------------------------------------------------------------
(* Workstation::select and launch. *)

\* Before anything was prepared.  A startup that fails may open the selector.
Refused(t) ==
    IF term[t].at = Nobody
    THEN \E step \in {"out", "picking"} : Become(t, [Out EXCEPT !.step = step])
    ELSE Become(t, [Joined(term[t]) EXCEPT
                       !.step = "settle",
                       !.app = Mark(@, term[t].id, FALSE, Says("refused"))])

\* Its own conversation first, with the exact command.
SaveIntent(t) ==
    /\ term[t].step = "saving"
    /\ \E w \in Writes :
         /\ SaveHere(w, t)
         /\ IF w = "ok" THEN Become(t, [Joined(term[t]) EXCEPT !.step = "admit"])
            ELSE Refused(t)
    /\ UNCHANGED <<repo, mission, owner, journal, asked, effects, handed, cleared>>

Admit(t) ==
    /\ term[t].step = "admit"
    /\ \E w \in Writes :
         /\ Publish(w, term[t].id, [phase |-> Admitted, failed |-> FALSE, dispatched |-> FALSE])
         /\ IF w = "ok" THEN Goes(t, "begin") ELSE Refused(t)
    /\ UNCHANGED <<repo, mission, owner, saved, asked, effects, handed, cleared>>

\* Request::already_current
Here(q) == q.from = q.to /\ ~q.create /\ ~q.new

\* An admission is consumed once.
Begin(t) ==
    /\ term[t].step = "begin" /\ ~journal[term[t].id].dispatched
    /\ \E w \in Writes :
         /\ Publish(w, term[t].id, [journal[term[t].id] EXCEPT !.dispatched = TRUE])
         /\ IF w = "ok"
            THEN Goes(t, IF Here(Request(t)) THEN "current" ELSE "repository")
            ELSE Refused(t)
    /\ UNCHANGED <<repo, mission, owner, saved, asked, effects, handed, cleared>>

\* The next workstation is dropped with its lock; the current one stays.
Kept(t) == owner
Dropped(t) == [p \in Places |-> IF p = term[t].target THEN Nobody ELSE owner[p]]

Fails(t, r) == /\ Become(t, [r EXCEPT !.step = "failing", !.target = Nobody, !.next = {}])
               /\ owner' = Dropped(t)

\* SelectionProgress::advance: the phase is observed even if its record fails.
Advance(t, phase, next) ==
    LET r == [term[t] EXCEPT !.phase = phase]
        record == [phase |-> phase, failed |-> FALSE, dispatched |-> TRUE] IN
      /\ Recordable(r.id, record)
      /\ \E w \in Writes :
           /\ Publish(w, r.id, record)
           /\ IF w = "ok" THEN next ELSE Fails(t, r)

Current(t) ==
    /\ term[t].step = "current"
    /\ \E w \in Writes :
         /\ Publish(w, term[t].id,
                    [phase |-> AlreadyCurrent, failed |-> FALSE, dispatched |-> TRUE])
         /\ Become(t, [term[t] EXCEPT
              !.step = "settle",
              !.app = Mark(@, term[t].id, FALSE, Observed(w, AlreadyCurrent, FALSE))])
    /\ UNCHANGED <<repo, mission, owner, saved, asked, effects, handed, cleared>>

Creates(t, what) == effects' = [effects EXCEPT ![term[t].id] = @ \cup {what}]

\* The saved path is validated again; a new directory is created there.
Prepare(t) ==
    LET q == Request(t)
        r == RepoOf[q.to] IN
      /\ term[t].step = "repository"
      /\ IF ~Valid(r, q.create) THEN Fails(t, term[t]) /\ UNCHANGED <<repo, effects>>
         ELSE IF q.create
              THEN /\ repo' = [repo EXCEPT ![r] = "made"] /\ Creates(t, "repository")
                   /\ Goes(t, "initialise") /\ UNCHANGED owner
              ELSE Goes(t, "repository-done") /\ UNCHANGED <<repo, effects, owner>>
      /\ UNCHANGED <<mission, saved, journal, asked, faults, handed, cleared>>

\* git init and an empty commit; what is incomplete is kept for inspection.
Initialise(t) ==
    /\ term[t].step = "initialise"
    /\ \E end \in {"made", "init", "ready"} :
         /\ repo' = [repo EXCEPT ![RepoOf[Target(t)]] = end]
         /\ IF end = "ready" THEN Goes(t, "repository-done") /\ UNCHANGED owner
            ELSE Fails(t, term[t])
    /\ UNCHANGED <<mission, saved, journal, asked, faults, effects, handed, cleared>>

RepositoryDone(t) ==
    /\ term[t].step = "repository-done"
    /\ Advance(t, RepositoryReady,
               Become(t, [term[t] EXCEPT !.step = "mission", !.phase = RepositoryReady])
               /\ UNCHANGED owner)
    /\ UNCHANGED <<repo, mission, saved, asked, effects, handed, cleared>>

\* select_mission, under the lock of the namespace: whoever comes second resumes.
SelectMission(t) ==
    LET q == Request(t) IN
      /\ term[t].step = "mission"
      /\ IF q.new = mission[q.to]
         THEN Fails(t, term[t]) /\ UNCHANGED <<mission, effects, faults>>
         ELSE IF ~q.new
              THEN Goes(t, "mission-done") /\ UNCHANGED <<mission, effects, faults, owner>>
              ELSE \E w \in Writes :
                     /\ Costs(w)
                     /\ IF Takes(w)
                        THEN mission' = [mission EXCEPT ![q.to] = TRUE] /\ Creates(t, "mission")
                        ELSE UNCHANGED <<mission, effects>>
                     /\ IF w = "ok" THEN Goes(t, "mission-done") /\ UNCHANGED owner
                        ELSE Fails(t, term[t])
      /\ UNCHANGED <<repo, saved, journal, asked, handed, cleared>>

MissionDone(t) ==
    /\ term[t].step = "mission-done"
    /\ Advance(t, MissionReady,
               Become(t, [term[t] EXCEPT !.step = "open", !.phase = MissionReady])
               /\ UNCHANGED owner)
    /\ UNCHANGED <<repo, mission, saved, asked, effects, handed, cleared>>

\* Records that tell how a selection ended; a prepared one does not.
Final == {Selected, AlreadyCurrent}

\* restore_commands and reconcile_selection
Reconciled(e, readable) ==
    LET record == journal[e.id] IN
      IF /\ readable /\ record # NoRecord
         /\ record.failed \/ record.phase \in Final
         /\ e.arrival => record.phase \in {HandoffPrepared, Selected}
      THEN [e EXCEPT !.shown = At(record.phase, record.failed)]
      ELSE [e EXCEPT !.shown = Says("unknown")]

\* Workstation::open: the owner lock, then the saved conversation.
Open(t) ==
    LET p == Target(t) IN
      /\ term[t].step = "open"
      /\ \/ owner[p] # Nobody /\ Fails(t, term[t]) /\ UNCHANGED faults
         \/ /\ owner[p] = Nobody
            /\ \E w \in {"ok", "failed"} :
                 /\ Costs(w)
                 /\ Become(t, [term[t] EXCEPT !.step = "loaded", !.target = p,
                                 !.next = {Reconciled(e, w = "ok") : e \in saved[p]}])
            /\ owner' = [owner EXCEPT ![p] = t]
      /\ UNCHANGED <<repo, mission, saved, journal, asked, effects, handed, cleared>>

\* A new arrival replaces the earlier one of its place, if there is room.
Arrived(t) == {e \in term[t].next : ~e.arrival}
              \cup {[id |-> term[t].id, arrival |-> TRUE, shown |-> At(HandoffPrepared, FALSE)]}

Loaded(t) ==
    LET r == [term[t] EXCEPT !.phase = TargetLoaded] IN
      /\ term[t].step = "loaded"
      /\ Advance(t, TargetLoaded,
           IF Cardinality(Arrived(t)) > MaxHistory THEN Fails(t, r)
           ELSE /\ Become(t, [r EXCEPT
                     !.step = IF r.at = Nobody THEN "target" ELSE "source",
                     !.next = Arrived(t),
                     !.app = Mark(@, r.id, FALSE, At(TargetLoaded, FALSE))])
                /\ UNCHANGED owner)
      /\ UNCHANGED <<repo, mission, saved, asked, effects, handed, cleared>>

SaveSource(t) ==
    /\ term[t].step = "source"
    /\ \E w \in Writes :
         /\ SaveHere(w, t)
         /\ IF w = "ok" THEN Goes(t, "target") /\ UNCHANGED owner ELSE Fails(t, term[t])
    /\ UNCHANGED <<repo, mission, journal, asked, effects, handed, cleared>>

SaveTarget(t) ==
    /\ term[t].step = "target"
    /\ \E w \in Writes :
         /\ SaveAt(w, term[t].target, term[t].next, saved[term[t].target])
         /\ cleared' = IF Takes(w) THEN [cleared EXCEPT !.places = @ \ {term[t].target}]
                       ELSE cleared
         /\ IF w = "ok" THEN Goes(t, "prepared") /\ UNCHANGED owner ELSE Fails(t, term[t])
    /\ UNCHANGED <<repo, mission, journal, asked, effects, handed>>

Prepared(t) ==
    /\ term[t].step = "prepared"
    /\ Advance(t, HandoffPrepared,
               Become(t, [term[t] EXCEPT !.step = "handoff", !.phase = HandoffPrepared])
               /\ UNCHANGED owner)
    /\ UNCHANGED <<repo, mission, saved, asked, effects, handed, cleared>>

\* The workstation is replaced, then the journal is told.
Handoff(t) ==
    LET r == term[t] IN
      /\ r.step = "handoff"
      /\ \E w \in Writes :
           LET shown == Observed(w, Selected, FALSE) IN
             /\ Publish(w, r.id, [phase |-> Selected, failed |-> FALSE, dispatched |-> TRUE])
             /\ Become(t, [r EXCEPT
                  !.step = IF r.at = Nobody THEN "arrive" ELSE "leave",
                  !.phase = Selected, !.at = r.target, !.target = r.at,
                  !.app = Mark(r.next, r.id, TRUE, shown),
                  !.next = Mark(r.app, r.id, FALSE, shown)])
      /\ handed' = handed \cup {r.id}
      /\ UNCHANGED <<repo, mission, owner, saved, asked, effects, cleared>>

\* Both conversations are saved once more, whatever comes of it.
Leave(t) ==
    /\ term[t].step = "leave"
    /\ \E w \in Writes : SaveAt(w, term[t].target, term[t].next, saved[term[t].target])
    /\ Goes(t, "arrive")
    /\ UNCHANGED <<repo, mission, owner, journal, asked, effects, handed, cleared>>

Idle(t, r) == Become(t, [r EXCEPT !.step = "idle", !.id = 0, !.phase = Admitted,
                                  !.target = Nobody, !.next = {}])

Arrive(t) ==
    /\ term[t].step = "arrive"
    /\ \E w \in Writes : SaveHere(w, t)
    /\ owner' = Dropped(t) /\ Idle(t, term[t])
    /\ UNCHANGED <<repo, mission, journal, asked, effects, handed, cleared>>

\* SelectionProgress::fail: the failure is recorded at the last phase observed.
Failing(t) ==
    LET r == term[t] IN
      /\ r.step = "failing"
      /\ \E w \in Writes :
           /\ Publish(w, r.id, [phase |-> r.phase, failed |-> TRUE, dispatched |-> TRUE])
           /\ IF r.at = Nobody
              THEN \E step \in {"out", "picking"} : Become(t, [Out EXCEPT !.step = step])
              ELSE Become(t, [r EXCEPT
                     !.step = "settle",
                     !.app = Mark(@, r.id, FALSE, Observed(w, r.phase, TRUE))])
      /\ UNCHANGED <<repo, mission, owner, saved, asked, effects, handed, cleared>>

Settle(t) ==
    /\ term[t].step = "settle"
    /\ \E w \in Writes : SaveHere(w, t)
    /\ Idle(t, Joined(term[t]))
    /\ UNCHANGED <<repo, mission, owner, journal, asked, effects, handed, cleared>>

-----------------------------------------------------------------------------
(* Between selections. *)

Underway(e) == \/ e.shown.kind = "pending"
               \/ e.shown.kind = "at" /\ ~e.shown.failed /\ e.shown.phase \notin Final

\* /clear: the conversation starts over, unless an entry of it is under way; its
\* file is overwritten by the next save.  (Replies and drafts are left out.)
Clear(t) ==
    LET r == term[t] IN
      /\ r.step = "idle" /\ r.app # {} /\ \A e \in r.app : ~Underway(e)
      /\ Become(t, [r EXCEPT !.app = {}])
      /\ cleared' = [choices |-> cleared.choices \cup {e.id : e \in {d \in r.app : ~d.arrival}},
                      places |-> cleared.places \cup {r.at}]
      /\ UNCHANGED <<disk, asked, faults, effects, handed>>

\* The main loop saves in the background.
Checkpoint(t) ==
    /\ term[t].step = "idle" /\ ~term[t].busy
    /\ Become(t, [term[t] EXCEPT !.busy = TRUE, !.bg = term[t].app])
    /\ UNCHANGED <<disk, asked, faults, effects, handed, cleared>>

Checkpointed(t) ==
    /\ term[t].busy
    /\ \E w \in {"ok", "failed"} : SaveAt(w, term[t].at, term[t].bg, saved[term[t].at])
    /\ Become(t, Joined(term[t]))
    /\ UNCHANGED <<repo, mission, owner, journal, asked, effects, handed, cleared>>

Released(t) == [p \in Places |-> IF owner[p] = t THEN Nobody ELSE owner[p]]

Quit(t) ==
    /\ term[t].step = "idle"
    /\ \E w \in Writes : SaveHere(w, t)
    /\ Become(t, Out) /\ owner' = Released(t)
    /\ UNCHANGED <<repo, mission, journal, asked, effects, handed, cleared>>

\* The process is killed: its locks go, a write under way is whole or not there.
Die(t) ==
    /\ term[t].step # "out" /\ faults < MaxFaults /\ faults' = faults + 1
    /\ \/ UNCHANGED saved
       \/ term[t].busy /\ saved' = [saved EXCEPT ![term[t].at] = term[t].bg]
    /\ Become(t, Out) /\ owner' = Released(t)
    /\ UNCHANGED <<repo, mission, journal, asked, effects, handed, cleared>>

\* Another program creates a repository.
Appears ==
    /\ faults < MaxFaults /\ faults' = faults + 1
    /\ \E r \in Repos : repo[r] = "absent" /\ repo' = [repo EXCEPT ![r] = "ready"]
    /\ UNCHANGED <<mission, owner, saved, journal, asked, term, effects, handed, cleared>>

Rests == /\ \A t \in Terminals : term[t].step \in {"out", "picking", "idle"}
         /\ UNCHANGED vars

Selects(t) ==
    \/ SaveIntent(t) \/ Admit(t) \/ Begin(t) \/ Current(t)
    \/ Prepare(t) \/ Initialise(t) \/ RepositoryDone(t)
    \/ SelectMission(t) \/ MissionDone(t) \/ Open(t) \/ Loaded(t)
    \/ SaveSource(t) \/ SaveTarget(t) \/ Prepared(t) \/ Handoff(t)
    \/ Leave(t) \/ Arrive(t) \/ Failing(t) \/ Settle(t)

Picking(t) ==
    \/ OpenSelector(t) \/ Accept(t) \/ Escape(t) \/ Choose(t) \/ Automatic(t)

Next == \/ \E t \in Terminals : \/ Selects(t) \/ Picking(t)
                                \/ Clear(t) \/ Checkpoint(t) \/ Checkpointed(t)
                                \/ Quit(t) \/ Die(t)
        \/ Appears \/ Rests

Spec == Init /\ [][Next]_vars

-----------------------------------------------------------------------------
(* Properties. *)

TypeOK ==
    /\ repo \in [Repos -> {"absent", "made", "init", "ready"}]
    /\ mission \in [Places -> BOOLEAN]
    /\ owner \in [Places -> Terminals \cup {Nobody}]
    /\ \A p \in Places : saved[p] \subseteq Entries
    /\ journal \in [Ids -> Records]
    /\ \A i \in DOMAIN asked : asked[i] \in Requests
    /\ \A t \in Terminals :
         /\ term[t].step \in Steps /\ term[t].pick \in Picks
         /\ {term[t].at, term[t].target} \subseteq Places \cup {Nobody}
         /\ term[t].app \cup term[t].next \cup term[t].bg \subseteq Entries
    /\ cleared \in [choices : SUBSET Ids, places : SUBSET Places]

\* A terminal owns the conversation of the work it shows, through every switch,
\* failed or not, and no other conversation once the switch is over; no history
\* outgrows its bound.
WorkIsOwned ==
    /\ TypeOK
    /\ \A t \in Terminals :
         /\ term[t].at # Nobody => owner[term[t].at] = t
         /\ \A p \in Places : owner[p] = t => p \in {term[t].at, term[t].target}
         /\ term[t].step \in {"idle", "settle", "failing"} => term[t].target = Nobody
         /\ Cardinality(term[t].app) <= MaxHistory

\* Nothing is created for a choice that a crash could make forgotten: before its
\* first effect it is in the journal, dispatched, and in the saved conversation
\* it was made in, and it stays there until the user clears that conversation.
NothingUnannounced ==
    \A i \in DOMAIN asked : effects[i] # {} =>
        /\ journal[i].dispatched
        /\ asked[i].from # Nobody /\ i \notin cleared.choices =>
             \E e \in saved[asked[i].from] : e.id = i /\ ~e.arrival

\* What a conversation at rest says of a selection, and what the journal says, is
\* what happened: selected means handed over, failed or refused means not; work
\* that was entered has a saved arrival, unless it was cleared since.
EntryIsTrue(e) ==
    /\ e.shown.kind # "pending"
    /\ e.shown.kind = "refused" => effects[e.id] = {} /\ e.id \notin handed
    /\ e.shown.kind = "at" =>
         /\ e.shown.failed => e.id \notin handed
         /\ ~e.shown.failed => e.shown.phase \in {Selected, AlreadyCurrent}
         /\ e.shown.phase = Selected => e.id \in handed

RecordIsTrue(i) ==
    LET record == journal[i] IN
      record.dispatched =>
        /\ record.failed => i \notin handed
        /\ record.phase = Selected => i \in handed
        /\ record.phase \in RepositoryReady..Selected /\ asked[i].create =>
             "repository" \in effects[i]
        /\ record.phase \in MissionReady..Selected => mission[asked[i].to]
        /\ record.phase \in {HandoffPrepared, Selected} /\ asked[i].to \notin cleared.places =>
             \E e \in saved[asked[i].to] : e.arrival

HistoryIsTrue ==
    /\ \A t \in Terminals : term[t].step = "idle" => \A e \in term[t].app : EntryIsTrue(e)
    /\ \A i \in DOMAIN asked : RecordIsTrue(i)

\* A choice is announced before it takes effect, and told as it went.
ChoicesHold == NothingUnannounced /\ HistoryIsTrue

=============================================================================
