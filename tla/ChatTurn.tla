------------------------------ MODULE ChatTurn ------------------------------
(***************************************************************************)
(* A chat conversation whose model may call tools that change the Coding    *)
(* Workspace: the terminal loop (main.rs), one asynchronous job per turn    *)
(* (chat_tools/run.rs), the blocking threads that run approved calls, the   *)
(* owner at the keyboard, and other programs that write the same file.      *)
(*                                                                          *)
(* A mutating call is shown as a card.  It runs only when the owner or an   *)
(* always-allow rule approves it, and its outcome is appended to a log.     *)
(* The owner may abandon the turn at any moment; an approved call that was  *)
(* handed to a thread goes on without its turn.                             *)
(*                                                                          *)
(* One file stands for the workspace.  Its content is a number: 0 at the    *)
(* start, c after the edit of card c, a larger number after another         *)
(* program's write.  Prompts are numbered in the order they were typed.     *)
(* Streaming, metrics, compaction, read-only tools, screen positions and    *)
(* the 0.5 s arming delay of a card are left out.                           *)
(***************************************************************************)
EXTENDS Integers, Sequences, FiniteSets, SequencesExt

CONSTANTS Sessions,     \* the chat sessions of the open conversation
          Scenarios,    \* bounds of an execution, one chosen at the start
          MaxQueued,    \* prompts held behind a running turn (model.rs)
          MaxCards      \* bound: cards that are ever built

ASSUME ChatAssumption ==
  /\ Sessions \subseteq Nat /\ IsFiniteSet(Sessions)
  /\ {MaxQueued, MaxCards} \subseteq Nat \ {0}
  /\ \A b \in Scenarios :
       /\ b.kinds \subseteq {"edit", "shell"} /\ b.sessions \subseteq Sessions
       /\ b.keys \subseteq {"yes", "no", "always"}
       /\ {b.turns, b.steps, b.retries, b.prompts, b.writes, b.quits} \subseteq Nat

VARIABLES bound,     \* the scenario
          chat,      \* the sessions as the terminal holds them
          ready,     \* the attempt whose scope routing is pending, 0: none
          turn,      \* the job of each session
          cards,     \* every card built, in order
          channel,   \* requests on their way to the terminal
          replies,   \* the request the terminal holds for a session, 0: none
          inbox,     \* updates on their way to each session
          rules,     \* kinds of call an always-allow rule covers
          file,      \* the content of the workspace file
          journal,   \* the undo journal in the State Directory
          log,       \* the outcomes appended for each card
          pass,      \* where the terminal loop stands
          count      \* prompts typed, retries, turns and foreign writes so far

vars == <<bound, chat, ready, turn, cards, channel, replies, inbox, rules,
          file, journal, log, pass, count>>

Ids == 1..MaxCards
NoJournal == [turn |-> 0, pre |-> 0, after |-> 0, whole |-> FALSE]
Idle == [pc |-> "none", attempt |-> 0, id |-> 0, card |-> 0, rounds |-> 0]
NewChat == [status |-> "ready", attempt |-> 0, turns |-> 0, sent |-> <<>>,
            queue |-> <<>>, draft |-> <<>>, card |-> 0, steps |-> {}]

Init == /\ bound \in Scenarios
        /\ chat = [s \in Sessions |-> NewChat]
        /\ ready = [s \in Sessions |-> 0]
        /\ turn = [s \in Sessions |-> Idle]
        /\ cards = <<>> /\ channel = <<>>
        /\ replies = [s \in Sessions |-> 0]
        /\ inbox = [s \in Sessions |-> <<>>]
        /\ rules = {} /\ file = 0 /\ journal = NoJournal
        /\ log = [c \in Ids |-> <<>>]
        /\ pass = "events"
        /\ count = [prompts |-> 0, retries |-> 0, turns |-> 0, writes |-> 0]

-----------------------------------------------------------------------------
(* Session state: pure functions of one session record. *)

Active(t) == t.status = "active"

Pending(t) == IF Active(t) THEN t.card ELSE 0

\* Fault: queued text put behind what is being typed.
RestoreBehind(t) == [t EXCEPT !.queue = <<>>,
                              !.draft = @ \o FlattenSeq(t.queue)]
RestoreQueue(t) == [t EXCEPT !.queue = <<>>,
                             !.draft = FlattenSeq(t.queue) \o @]

StartTurn(t) == [t EXCEPT !.attempt = @ + 1, !.card = 0, !.steps = {},
                          !.status = "active"]

CanBegin(t) == /\ ~Active(t) /\ t.draft /= <<>>
               /\ t.turns < bound.turns

Begin(t) == StartTurn([t EXCEPT !.sent = @ \o t.draft, !.draft = <<>>,
                                !.turns = @ + 1])

\* Fault: one prompt too many in the queue.
HasRoomAndOne(t) == Len(t.queue) <= MaxQueued
HasRoom(t) == Len(t.queue) < MaxQueued

QueueDraft(t) == [t EXCEPT !.queue = Append(@, t.draft), !.draft = <<>>]

\* The oldest queued prompt becomes the next turn; the text being typed stays.
BeginQueued(t) ==
  LET held == [t EXCEPT !.draft = Head(t.queue), !.queue = Tail(@)]
  IN  IF CanBegin(held)
      THEN [Begin(held) EXCEPT !.draft = t.draft]
      ELSE RestoreQueue(t)

Fail(t) == RestoreQueue([t EXCEPT !.status = "failed"])

Cancel(t) == LET u == RestoreQueue([t EXCEPT !.card = 0])
             IN  IF Active(t) THEN [u EXCEPT !.status = "cancelled"] ELSE u

\* Fault: a late result is taken by whatever turn was cancelled last.
LateAnyAttempt(t, e) == e.what = "killed" /\ t.status = "cancelled"
Late(t, e) == /\ e.what = "killed"
              /\ t.attempt = e.attempt /\ t.status = "cancelled"

Apply(t, e) ==
  CASE Late(t, e) -> [t EXCEPT !.steps = @ \union {e.card}]
    [] ~Late(t, e) /\ (t.attempt /= e.attempt \/ ~Active(t)) -> t
    [] OTHER -> CASE e.what \in {"result", "killed"} ->
                       [t EXCEPT !.steps = @ \union {e.card}]
                  [] e.what = "done" -> [t EXCEPT !.status = "complete"]
                  [] e.what = "failed" -> Fail(t)

\* The updates of a session, in the order they were sent.
Heard(t, updates) ==
  LET heard[n \in 0..Len(updates)] ==
        IF n = 0 THEN t ELSE Apply(heard[n - 1], updates[n])
  IN  heard[Len(updates)]

\* Whether the session takes the card: stale attempts and ended turns do not.
Awaits(t, c) == t.attempt = cards[c].attempt /\ Active(t)

-----------------------------------------------------------------------------
(* The outcome log, and the calls that end with an entry in it. *)

Outcomes == {"applied", "failed", "denied", "cancelled"}

Logged(l, c, outcome) == [l EXCEPT ![c] = Append(@, outcome)]

\* Close a request without a decision, logging it.
CloseCards(cs, C) ==
  [c \in DOMAIN cs |-> IF c \in C /\ cs[c].answer = "none"
                       THEN [cs[c] EXCEPT !.answer = "closed"] ELSE cs[c]]
CancelLog(l, C) == [c \in Ids |-> IF c \in C THEN Append(l[c], "cancelled")
                                             ELSE l[c]]

\* What dropping the job's future logs: a card that was answered but not run.
\* Faults: the guard still holds the decision after the call was handed over;
\* there is no guard.
UndecidedTwice(j) ==
  IF j.pc \in {"waiting", "running"} /\ cards[j.card].answer /= "none"
  THEN <<"failed">> ELSE <<>>
UndecidedSilent(j) == <<>>
Undecided(j) ==
  IF j.pc /= "waiting" THEN <<>>
  ELSE CASE cards[j.card].answer \in {"yes", "always"} -> <<"failed">>
         [] cards[j.card].answer = "no" -> <<"denied">>
         [] OTHER -> <<>>

\* Dropping the jobs of the sessions D: their answered cards are logged and
\* the calls they were waiting for are told to stop.
DropLog(l, D) ==
  [c \in Ids |-> LET owners == {s \in D : turn[s].card = c}
                 IN  IF owners = {} THEN l[c]
                     ELSE l[c] \o Undecided(turn[CHOOSE s \in owners : TRUE])]
\* Fault: dropping the job leaves its command running.
DropKeeps(cs, D) == cs
DropCards(cs, D) ==
  [c \in DOMAIN cs |->
     IF \E s \in D : turn[s].pc = "running" /\ turn[s].card = c
     THEN [cs[c] EXCEPT !.stop = TRUE] ELSE cs[c]]
DropTurn(D) == [s \in Sessions |-> IF s \in D THEN Idle ELSE turn[s]]

-----------------------------------------------------------------------------
(* The job of a turn.  Each action runs to the job's next await. *)

Post(s, what, c) ==
  inbox' = [inbox EXCEPT ![s] =
              Append(@, [attempt |-> turn[s].attempt, what |-> what, card |-> c])]

\* A turn of any session forgets the undo journal of the mission.
TurnBegins(s) ==
  /\ turn[s].pc = "start"
  /\ journal' = NoJournal
  /\ turn' = [turn EXCEPT ![s].pc = "round"]
  /\ UNCHANGED <<bound, chat, ready, cards, channel, replies, inbox, rules,
                 file, log, pass, count>>

\* The model answers in text, or the provider fails, and the turn is over.
Answers(s) ==
  /\ turn[s].pc = "round"
  /\ \E what \in {"done", "failed"} : Post(s, what, 0)
  /\ turn' = [turn EXCEPT ![s] = Idle]
  /\ UNCHANGED <<bound, chat, ready, cards, channel, replies, rules, file,
                 journal, log, pass, count>>

\* The model asks for a mutating call; its card shows the file as it is now.
Calls(s, kind) ==
  /\ turn[s].pc = "round"
  /\ turn[s].rounds < bound.steps /\ Len(cards) < MaxCards
  /\ cards' = Append(cards,
       [session |-> s, attempt |-> turn[s].attempt, turn |-> turn[s].id,
        kind |-> kind, base |-> file, pre |-> -1, asked |-> FALSE,
        answer |-> "none", ruled |-> FALSE, run |-> "none", stop |-> FALSE, wrote |-> FALSE])
  /\ turn' = [turn EXCEPT ![s].pc = "card", ![s].card = Len(cards) + 1,
                          ![s].rounds = @ + 1]
  /\ UNCHANGED <<bound, chat, ready, channel, replies, inbox, rules, file,
                 journal, log, pass, count>>

\* A rule stands in for the owner's key.
Ruled(s) ==
  /\ turn[s].pc = "card" /\ cards[turn[s].card].kind \in rules
  /\ cards' = [cards EXCEPT ![turn[s].card].ruled = TRUE,
                            ![turn[s].card].run = "spawned"]
  /\ turn' = [turn EXCEPT ![s].pc = "running"]
  /\ UNCHANGED <<bound, chat, ready, channel, replies, inbox, rules, file,
                 journal, log, pass, count>>

Asks(s) ==
  /\ turn[s].pc = "card" /\ cards[turn[s].card].kind \notin rules
  /\ channel' = Append(channel, turn[s].card)
  /\ turn' = [turn EXCEPT ![s].pc = "waiting"]
  /\ cards' = [cards EXCEPT ![turn[s].card].asked = TRUE]
  /\ UNCHANGED <<bound, chat, ready, replies, inbox, rules, file,
                 journal, log, pass, count>>

\* A request dropped without an answer denies the call.
Dropped(s) ==
  /\ turn[s].pc = "waiting" /\ cards[turn[s].card].answer = "closed"
  /\ Post(s, "result", turn[s].card)
  /\ turn' = [turn EXCEPT ![s].pc = "round", ![s].card = 0]
  /\ UNCHANGED <<bound, chat, ready, cards, channel, replies, rules, file,
                 journal, log, pass, count>>

\* The decision arrives and the call goes to a blocking thread: from here it
\* runs and is logged whatever becomes of the turn.
Decided(s) ==
  /\ turn[s].pc = "waiting"
  /\ cards[turn[s].card].answer \in {"yes", "always", "no"}
  /\ cards' = [cards EXCEPT ![turn[s].card].run = "spawned"]
  /\ turn' = [turn EXCEPT ![s].pc = "running"]
  /\ UNCHANGED <<bound, chat, ready, channel, replies, inbox, rules, file,
                 journal, log, pass, count>>

Returns(s) ==
  /\ turn[s].pc = "running" /\ cards[turn[s].card].run = "ended"
  /\ Post(s, "result", turn[s].card)
  /\ turn' = [turn EXCEPT ![s].pc = "round", ![s].card = 0]
  /\ UNCHANGED <<bound, chat, ready, cards, channel, replies, rules, file,
                 journal, log, pass, count>>

Turn(s) == \/ TurnBegins(s) \/ Answers(s) \/ Ruled(s) \/ Asks(s)
           \/ Dropped(s) \/ Decided(s) \/ Returns(s)
           \/ \E kind \in bound.kinds : Calls(s, kind)

-----------------------------------------------------------------------------
(* The blocking threads. *)

Ends(c, outcome) ==
  /\ cards' = [cards EXCEPT ![c].run = "ended"]
  /\ log' = Logged(log, c, outcome)

Refused(c) ==
  /\ cards[c].run = "spawned" /\ cards[c].answer = "no"
  /\ Ends(c, "denied")
  /\ UNCHANGED <<bound, chat, ready, turn, channel, replies, inbox, rules,
                 file, journal, pass, count>>

\* Fault: the owner's refusal is not looked at.
ApprovedAnyway(c) == TRUE
Approved(c) == cards[c].ruled \/ cards[c].answer \in {"yes", "always"}

\* "a" adds its rule first; a rule that cannot be saved changes nothing else.
RuleAdded(c) ==
  \/ rules' = rules
  \/ cards[c].answer = "always" /\ rules' = rules \union {cards[c].kind}

\* An approved edit reads the file for undo if it is what the card showed.
Captures(c) ==
  /\ cards[c].run = "spawned" /\ cards[c].kind = "edit"
  /\ Approved(c)
  /\ RuleAdded(c)
  /\ cards' = [cards EXCEPT ![c].run = "captured",
                            ![c].pre = IF file = cards[c].base THEN file ELSE -1]
  /\ UNCHANGED <<bound, chat, ready, turn, channel, replies, inbox, file,
                 journal, log, pass, count>>

\* The fingerprint must still be the card's.
Unchanged(c) == file = cards[c].base

Checks(c) ==
  /\ cards[c].run = "captured"
  /\ IF Unchanged(c)
     THEN /\ cards' = [cards EXCEPT ![c].run = "checked"]
          /\ UNCHANGED log
     ELSE Ends(c, "failed")
  /\ UNCHANGED <<bound, chat, ready, turn, channel, replies, inbox, rules,
                 file, journal, pass, count>>

Writes(c) ==
  /\ cards[c].run = "checked"
  /\ cards' = [cards EXCEPT ![c].run = "written", ![c].wrote = TRUE]
  /\ file' = c
  /\ UNCHANGED <<bound, chat, ready, turn, channel, replies, inbox, rules,
                 journal, log, pass, count>>

WriteFails(c) ==
  /\ cards[c].run = "checked"
  /\ Ends(c, "failed")
  /\ UNCHANGED <<bound, chat, ready, turn, channel, replies, inbox, rules,
                 file, journal, pass, count>>

\* The journal of another turn is replaced; a second edit of the turn keeps the
\* first pre-image if nothing else wrote in between.
Recorded(c) ==
  IF journal.turn = cards[c].turn
  THEN [journal EXCEPT !.whole = @ /\ journal.after = cards[c].pre,
                       !.after = file]
  ELSE [turn |-> cards[c].turn, pre |-> cards[c].pre, after |-> file,
        whole |-> TRUE]

Applied(c) ==
  /\ cards[c].run = "written"
  /\ journal' = IF cards[c].pre = -1 THEN journal ELSE Recorded(c)
  /\ Ends(c, "applied")
  /\ UNCHANGED <<bound, chat, ready, turn, channel, replies, inbox, rules,
                 file, pass, count>>

Starts(c) ==
  /\ cards[c].run = "spawned" /\ cards[c].kind = "shell"
  /\ Approved(c)
  /\ RuleAdded(c)
  /\ IF cards[c].stop
     THEN Ends(c, "cancelled")
     ELSE /\ cards' = [cards EXCEPT ![c].run = "running", ![c].wrote = TRUE]
          /\ UNCHANGED log
  /\ UNCHANGED <<bound, chat, ready, turn, channel, replies, inbox, file,
                 journal, pass, count>>

\* The command ends by itself, whatever its exit status, or is timed out.
Completes(c) ==
  /\ cards[c].run = "running"
  /\ \E outcome \in {"applied", "failed"} : Ends(c, outcome)
  /\ UNCHANGED <<bound, chat, ready, turn, channel, replies, inbox, rules,
                 file, journal, pass, count>>

\* A stopped command is killed; nobody reads its result, so the thread reports
\* it, unless the channel is full.
Killed(c) ==
  /\ cards[c].run = "running" /\ cards[c].stop
  /\ Ends(c, "cancelled")
  /\ \/ UNCHANGED inbox
     \/ inbox' = [inbox EXCEPT ![cards[c].session] =
                    Append(@, [attempt |-> cards[c].attempt,
                               what |-> "killed", card |-> c])]
  /\ UNCHANGED <<bound, chat, ready, turn, channel, replies, rules, file,
                 journal, pass, count>>

Pool(c) == \/ Refused(c) \/ Captures(c) \/ Checks(c) \/ Writes(c)
           \/ WriteFails(c) \/ Applied(c) \/ Starts(c) \/ Completes(c)
           \/ Killed(c)

-----------------------------------------------------------------------------
(* One pass of the terminal loop: scope routing, updates, cards, sends, keys. *)

\* The attempt whose scope routing ended gets its job, or fails; an attempt
\* that is over is dropped.
Launch(s) ==
  /\ pass = "events" /\ ready[s] /= 0
  /\ ready' = [ready EXCEPT ![s] = 0]
  /\ IF chat[s].attempt = ready[s] /\ Active(chat[s])
     THEN \/ /\ turn' = [turn EXCEPT ![s] =
                   [Idle EXCEPT !.pc = "start", !.attempt = ready[s],
                                !.id = count.turns + 1]]
             /\ cards' = DropCards(cards, {s})
             /\ log' = DropLog(log, {s})
             /\ count' = [count EXCEPT !.turns = @ + 1]
             /\ UNCHANGED chat
          \/ /\ chat' = [chat EXCEPT ![s] = Fail(@)]
             /\ UNCHANGED <<turn, cards, log, count>>
     ELSE UNCHANGED <<chat, turn, cards, log, count>>
  /\ UNCHANGED <<bound, channel, replies, inbox, rules, file, journal, pass>>

\* Every update that arrived; then the cards whose turn ended are closed.
Events ==
  /\ pass = "events"
  /\ LET heard == [s \in Sessions |-> Heard(chat[s], inbox[s])]
         over == {s \in Sessions : replies[s] /= 0 /\ Pending(heard[s]) = 0}
         gone == {replies[s] : s \in over}
     IN  /\ chat' = heard
         /\ replies' = [s \in Sessions |-> IF s \in over THEN 0 ELSE replies[s]]
         /\ cards' = CloseCards(cards, gone)
         /\ log' = CancelLog(log, gone)
  /\ inbox' = [s \in Sessions |-> <<>>]
  /\ pass' = "cards"
  /\ UNCHANGED <<bound, ready, turn, channel, rules, file, journal, count>>

\* One request: shown, in place of an older one, or cancelled.
Shown(c) == Awaits(chat[cards[c].session], c)

Receive ==
  /\ pass = "cards" /\ channel /= <<>>
  /\ LET c == Head(channel)
         s == cards[c].session
         gone == IF Shown(c) THEN {replies[s]} \ {0} ELSE {c}
     IN  /\ chat' = IF Shown(c) THEN [chat EXCEPT ![s].card = c] ELSE chat
         /\ replies' = IF Shown(c) THEN [replies EXCEPT ![s] = c] ELSE replies
         /\ cards' = CloseCards(cards, gone)
         /\ log' = CancelLog(log, gone)
  /\ channel' = Tail(channel)
  /\ UNCHANGED <<bound, ready, turn, inbox, rules, file, journal, pass, count>>

\* The first completed turn with text queued behind it starts the next one,
\* unless its previous scope routing is still pending; then the jobs of the
\* sessions that are no longer active are aborted.  The pass then reads no key,
\* even if the text went back to the prompt.
Queued == {s \in Sessions : chat[s].status = "complete" /\ chat[s].queue /= <<>>}

Sends ==
  /\ pass = "cards" /\ channel = <<>>
  /\ LET first == {s \in Queued : \A t \in Queued : s <= t}
         began == [s \in Sessions |-> IF s \in first THEN BeginQueued(chat[s])
                                                     ELSE chat[s]]
         idle == {s \in Sessions : ~Active(began[s])}
         routed == {s \in first : Active(began[s])}
     IN  /\ chat' = [s \in Sessions |-> IF s \in routed /\ ready[s] /= 0
                                        THEN Fail(began[s]) ELSE began[s]]
         /\ ready' = [s \in Sessions |-> IF s \in routed /\ ready[s] = 0
                                         THEN began[s].attempt ELSE ready[s]]
         /\ turn' = DropTurn(idle \union routed)
         /\ cards' = DropCards(cards, idle \union routed)
         /\ log' = DropLog(log, idle \union routed)
         /\ pass' = IF first = {} THEN "keys" ELSE "events"
  /\ UNCHANGED <<bound, channel, replies, inbox, rules, file, journal, count>>

-----------------------------------------------------------------------------
(* The owner's keys; without one the loop goes round again. *)

Next0 == /\ pass = "keys" /\ pass' = "events" /\ bound' = bound

Quiet == /\ Next0
         /\ UNCHANGED <<chat, ready, turn, cards, channel, replies, inbox,
                        rules, file, journal, log, count>>

Type(s) ==
  /\ Next0 /\ count.prompts < bound.prompts
  /\ chat' = [chat EXCEPT ![s].draft = Append(@, count.prompts + 1)]
  /\ count' = [count EXCEPT !.prompts = @ + 1]
  /\ UNCHANGED <<ready, turn, cards, channel, replies, inbox, rules, file,
                 journal, log>>

\* A turn begun by the owner: any job left is aborted and its scope is routed.
Submit(s, t) ==
  /\ chat' = [chat EXCEPT ![s] = IF ready[s] = 0 THEN t ELSE Fail(t)]
  /\ ready' = [ready EXCEPT ![s] = IF @ = 0 THEN t.attempt ELSE @]
  /\ turn' = DropTurn({s})
  /\ cards' = DropCards(cards, {s})
  /\ log' = DropLog(log, {s})

EnterSends(s) ==
  /\ Next0 /\ CanBegin(chat[s])
  /\ Submit(s, Begin(chat[s]))
  /\ UNCHANGED <<channel, replies, inbox, rules, file, journal, count>>

EnterQueues(s) ==
  /\ Next0 /\ Active(chat[s]) /\ Pending(chat[s]) = 0
  /\ chat[s].draft /= <<>> /\ HasRoom(chat[s])
  /\ chat' = [chat EXCEPT ![s] = QueueDraft(@)]
  /\ UNCHANGED <<ready, turn, cards, channel, replies, inbox, rules, file,
                 journal, log, count>>

Retry(s) ==
  /\ Next0 /\ chat[s].status \in {"failed", "cancelled"} /\ ready[s] = 0
  /\ count.retries < bound.retries
  /\ Submit(s, StartTurn(chat[s]))
  /\ count' = [count EXCEPT !.retries = @ + 1]
  /\ UNCHANGED <<channel, replies, inbox, rules, file, journal>>

\* y, n or a on the card of the session; the answer goes to the request held.
Answer(s, key) ==
  /\ Next0 /\ Pending(chat[s]) /= 0 /\ chat[s].draft = <<>>
  /\ chat' = [chat EXCEPT ![s].card = 0]
  /\ replies' = [replies EXCEPT ![s] = 0]
  /\ cards' = IF replies[s] = 0 THEN cards
              ELSE [cards EXCEPT ![replies[s]].answer = key]
  /\ UNCHANGED <<ready, turn, channel, inbox, rules, file, journal, log, count>>

\* Esc: the card is closed first, which the job may notice; then the job is
\* aborted and the queue goes back to the prompt.
EscapesCard(s) ==
  /\ pass = "keys" /\ replies[s] /= 0
  /\ cards' = CloseCards(cards, {replies[s]})
  /\ log' = CancelLog(log, {replies[s]})
  /\ replies' = [replies EXCEPT ![s] = 0]
  /\ pass' = "abort"
  /\ UNCHANGED <<bound, chat, ready, turn, channel, inbox, rules, file,
                 journal, count>>

Escapes(s) ==
  /\ \/ pass = "keys" /\ (Active(chat[s]) \/ chat[s].queue /= <<>>)
     \/ pass = "abort" /\ Pending(chat[s]) /= 0
  /\ replies[s] = 0
  /\ cards' = DropCards(cards, {s})
  /\ log' = DropLog(log, {s})
  /\ turn' = DropTurn({s})
  /\ chat' = [chat EXCEPT ![s] = Cancel(@)]
  /\ pass' = "events"
  /\ UNCHANGED <<bound, ready, channel, replies, inbox, rules, file, journal,
                 count>>

\* /undo: restores the file only while it is what the turn's last edit left.
Undo(s) ==
  /\ Next0 /\ ~Active(chat[s]) /\ chat[s].draft = <<>> /\ journal.turn /= 0
  /\ \/ /\ ~journal.whole
        /\ journal' = NoJournal /\ UNCHANGED file
     \/ /\ journal.whole /\ file = journal.after
        /\ journal' = NoJournal /\ file' = journal.pre
  /\ UNCHANGED <<chat, ready, turn, cards, channel, replies, inbox, rules, log,
                 count>>

\* /allow clear
Forget(s) ==
  /\ Next0 /\ chat[s].draft = <<>> /\ rules /= {}
  /\ rules' = {}
  /\ UNCHANGED <<chat, ready, turn, cards, channel, replies, inbox, file,
                 journal, log, count>>

\* Quit: every job is aborted and every command told to stop.
Quit ==
  /\ pass = "keys" /\ pass' = "quit" /\ bound.quits > 0
  /\ turn' = DropTurn(Sessions)
  /\ cards' = DropCards(cards, Sessions)
  /\ log' = DropLog(log, Sessions)
  /\ chat' = [s \in Sessions |-> Cancel(chat[s])]
  /\ replies' = [s \in Sessions |-> 0] /\ channel' = <<>>
  /\ UNCHANGED <<bound, ready, inbox, rules, file, journal, count>>

Keys(s) == \/ Type(s) \/ EnterSends(s) \/ EnterQueues(s) \/ Retry(s)
           \/ EscapesCard(s) \/ Escapes(s) \/ Undo(s) \/ Forget(s)
           \/ \E key \in bound.keys : Answer(s, key)

\* Another program writes the file.
Foreign ==
  /\ count.writes < bound.writes
  /\ file' = MaxCards + count.writes + 1
  /\ count' = [count EXCEPT !.writes = @ + 1]
  /\ UNCHANGED <<bound, chat, ready, turn, cards, channel, replies, inbox,
                 rules, journal, log, pass>>

Next == \/ \E s \in bound.sessions : Launch(s) \/ Turn(s) \/ Keys(s)
        \/ \E c \in DOMAIN cards : Pool(c)
        \/ Events \/ Receive \/ Sends \/ Quiet \/ Quit \/ Foreign

Spec == Init /\ [][Next]_vars

-----------------------------------------------------------------------------
(* Properties. *)

Cards == DOMAIN cards

TypeOK ==
  /\ bound \in Scenarios
  /\ \A s \in Sessions :
       /\ chat[s].status \in {"ready", "active", "complete", "failed",
                              "cancelled"}
       /\ chat[s].turns \in 0..bound.turns
       /\ Len(chat[s].queue) \in 0..MaxQueued
       /\ {ready[s], turn[s].attempt} \subseteq 0..chat[s].attempt
       /\ turn[s].pc \in {"none", "start", "round", "card", "waiting", "running"}
       /\ turn[s].rounds \in 0..bound.steps
       /\ {replies[s], chat[s].card, turn[s].card} \subseteq Cards \union {0}
  /\ Len(cards) <= MaxCards
  /\ \A c \in Cards : /\ cards[c].run \in {"none", "spawned", "captured",
                                "checked", "written", "running", "ended"}
                      /\ cards[c].answer \in {"none", "yes", "always", "no",
                                               "closed"}
  /\ ToSet(channel) \subseteq Cards
  /\ \A c \in Ids : ToSet(log[c]) \subseteq Outcomes
  /\ rules \subseteq {"edit", "shell"}
  /\ pass \in {"events", "cards", "keys", "abort", "quit"}

\* When the terminal reads a key, the request it would answer is the one whose
\* card the session shows, and a request is held only for a card on show.
KeyAnswersCardShown ==
  pass = "keys" => \A s \in Sessions : replies[s] = Pending(chat[s])

\* No card has two outcomes in the log, whoever closes it: the owner, the
\* terminal, the dropped job or the thread that ran the call.
OneOutcome == \A c \in Ids : Len(log[c]) <= 1

\* A card put to the owner or run under a rule is either still held by someone
\* or has its outcome in the log (until the program quits).
Held(c) == \/ c \in ToSet(channel) \union {replies[s] : s \in Sessions}
           \/ \E s \in Sessions : turn[s].card = c
           \/ cards[c].run \notin {"none", "ended"}

NoCardForgotten ==
  pass /= "quit" =>
    \A c \in Cards : (cards[c].asked \/ cards[c].ruled) /\ ~Held(c)
                      => log[c] /= <<>>

\* What the log says happened: an applied edit wrote the file, an edit logged
\* with another outcome did not, a denied command never started, and what ran
\* had the owner's word or a rule, whatever became of its turn meanwhile.
LogTellsTruth ==
  \A c \in Cards :
    /\ log[c] = <<"applied">> => cards[c].wrote
    /\ cards[c].kind = "edit" /\ log[c] /= <<>> /\ log[c] /= <<"applied">>
         => ~cards[c].wrote
    /\ log[c] = <<"denied">> => ~cards[c].wrote
    /\ cards[c].wrote => cards[c].ruled \/ cards[c].answer \in {"yes", "always"}

\* The prompts of a session, sent, queued and being typed, are the ones typed,
\* in the order they were typed: queued text is neither lost nor overtaken.
Texts(s) == chat[s].sent \o FlattenSeq(chat[s].queue) \o chat[s].draft

TextsInOrder ==
  /\ \A s \in Sessions : \A i, j \in DOMAIN Texts(s) :
       i < j => Texts(s)[i] < Texts(s)[j]
  /\ UNION {ToSet(Texts(s)) : s \in Sessions} = 1..count.prompts

\* A reply shows only results of its own attempt, the killed command of a
\* cancelled turn included.
StepsAreOwn ==
  \A s \in Sessions : \A c \in chat[s].steps :
    cards[c].session = s /\ cards[c].attempt = chat[s].attempt

-----------------------------------------------------------------------------
(* The loop goes round, jobs and threads go on; a command need not end by   *)
(* itself, the owner need not press a key.                                  *)

Serve(c) == \/ Refused(c) \/ Captures(c) \/ Checks(c) \/ Writes(c)
            \/ WriteFails(c) \/ Applied(c) \/ Starts(c) \/ Killed(c)

Pass == Events \/ Receive \/ Sends \/ Quiet \/ \E s \in Sessions : Keys(s)

Fairness == /\ WF_vars(Pass)
            /\ \A s \in Sessions : WF_vars(Turn(s)) /\ WF_vars(Launch(s))
            /\ \A c \in Ids : WF_vars(c \in DOMAIN cards /\ Serve(c))

FairSpec == Spec /\ Fairness

\* A card whose turn was abandoned gets its outcome: a pending one is closed,
\* a running command is killed.
Abandoned(c) == /\ c \in Cards /\ (cards[c].asked \/ cards[c].ruled)
                /\ \A s \in Sessions : turn[s].card /= c

AbandonedSettles ==
  \A c \in Ids : Abandoned(c) ~> log[c] /= <<>> \/ pass = "quit"

\* A key answers the card on show, and the approvals' log is complete and true:
\* each card has its one outcome and that outcome is what happened.
CardsHold == KeyAnswersCardShown /\ OneOutcome /\ NoCardForgotten /\ LogTellsTruth

\* A session keeps its texts in order and shows only results of its own turn.
TranscriptHolds == TypeOK /\ TextsInOrder /\ StepsAreOwn
=============================================================================
