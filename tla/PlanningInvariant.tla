------------------------- MODULE PlanningInvariant -------------------------
(***************************************************************************)
(* The inductive invariant behind the safety of Planning: what each copy   *)
(* of a draft, of a scope request and of a revision that the terminal      *)
(* holds says of the stores.  Drafts and requests are copied from place to *)
(* place, to the barrier, to the transaction and to the disk, and each     *)
(* copy outlives the state it was made in; the stores only grow.           *)
(***************************************************************************)
EXTENDS Planning

\* Every step leaves the stores, and what was noted of each draft, as long as
\* they were, or longer.
Grown ==
    /\ revision <= revision'
    /\ Len(journal) <= Len(journal')
    /\ \A i \in DOMAIN journal : i \in DOMAIN journal' /\ journal'[i] = journal[i]
    /\ \A i \in DOMAIN made : i \in DOMAIN made' /\ made'[i] = made[i]

\* A draft that the planner made: for this task revision and this scope.
MadeAs(d) ==
    d # NoDraft => /\ d.number \in DOMAIN made
                   /\ made[d.number].revision = d.revision
                   /\ made[d.number].scope = d.scope

\* What the autopilot confirms is its own draft, in the journal since.
OwnRequest(request) ==
    request.by = "autopilot" /\ request.action = "confirm" =>
        /\ request.expected \in DOMAIN journal
        /\ journal[request.expected].by = "autopilot"

\* A save carries a draft, bound to the revision it was made for.
SaveHolds(command) ==
    /\ command.draft # NoDraft /\ command.expected = command.draft.revision
    /\ MadeAs(command.draft)

CommandHolds(command) ==
    /\ command.op = "save" => SaveHolds(command)
    /\ command.op = "scope" => OwnRequest(command.request)
    /\ command.op = "turn" => command.request.by = "user" /\ command.request.id = command.id

CommandOK(command) == command \in Commands \cup {NoCommand} /\ CommandHolds(command)

ScopeInv == ScopeTypeOK /\ Coherent /\ OthersDecide /\ RoomToAgree

ToldInv == told \subseteq 1..MaxIds /\ ToldIsWritten

ViewsInv == revision \in Nat /\ view \in 0..revision /\ scopeView \in 0..Len(journal)

ConsoleInv == CommandOK(slot) /\ CommandOK(last)

\* What an answer says was read from the stores.
CallInv ==
    /\ call \in Calls \cup {NoCall} /\ CommandHolds(call.command)
    /\ call.seen <= revision /\ call.scopeSeen <= Len(journal)

RetryInv == retry \in SaveCommands \cup {NoSave}

\* Chat turns speak for the user.
TurnOK(turn) ==
    turn # NoTurn => /\ turn \in Turns
                     /\ turn.seen <= Len(journal) /\ turn.request.by = "user"

TurnsInv ==
    turns \in [Sessions -> Turns \cup {NoTurn}] /\ \A s \in Sessions : TurnOK(turns[s])

\* The turn of a session is at the barrier only while it is ready.
WaitingInv ==
    slot.op = "turn" => /\ turns[slot.session].at = "ready"
                        /\ turns[slot.session].request.id = slot.id

\* Only a generation under way has an earlier draft to hand back.
PlannerInv ==
    /\ PlannerTypeOK
    /\ Active => draft = NoDraft
    /\ ~Active => previous = NoDraft
    /\ MadeAs(draft) /\ MadeAs(previous) /\ MadeAs(disk)

\* A model is asked about the revision that the generation was asked at.
JobInv ==
    /\ job.at \in {"scope", "admit", "model", "good"} => job.expected <= revision
    /\ job.at \in {"admit", "model", "good"} => job.expected <= job.found /\ job.found <= revision
    /\ job.at \in {"model", "good"} => job.found = job.expected

PlansInv ==
    /\ plans \in Seq(Plans) /\ PublishedAsPlanned
    /\ \A i \in DOMAIN plans : plans[i].draft.number \in DOMAIN made

\* The autopilot at work has attempts left, and refusals unless it is paused.
LoopInv ==
    /\ LoopTypeOK
    /\ Planned => auto.failures < PlanAttempts /\ (auto.paused \/ refused < TransientLimit)

CountInv ==
    /\ used \in 0..MaxIds
    /\ bounds \in Limits

PlanningInv ==
    /\ PlanningConstants /\ ScopeConstants
    /\ ScopeInv /\ ToldInv /\ ViewsInv /\ ConsoleInv /\ CallInv /\ RetryInv /\ TurnsInv
    /\ WaitingInv /\ PlannerInv /\ JobInv /\ PlansInv /\ LoopInv /\ CountInv
=============================================================================
