-------------------------- MODULE SavedCommand_proofs --------------------------
(***************************************************************************)
(* Proofs about saved commands, for any commands, journal, retries, failed *)
(* saves and restarts: a command takes effect at most once, on the state   *)
(* its user had loaded, and what is recorded of it is true.                *)
(*                                                                         *)
(* The argument follows the attempts.  Every retry raises the attempt of a *)
(* command's entry, and the copies of the entry are ordered by it: what a  *)
(* save is known to have written, what is on disk, what a save is writing, *)
(* what the console holds.  An attempt is sent only once it is known to be *)
(* saved, so that nothing on disk or on the way there speaks of an earlier *)
(* one.                                                                    *)
(***************************************************************************)
EXTENDS SavedCommand, SequenceTheorems, TLAPS

-----------------------------------------------------------------------------
(* The inductive invariant. *)

\* No attempt of the command has been sent, unless it left no trace.
Unsent(c) == ~Contains(journal, c) /\ call.command # c

\* A copy of a command's entry: of a submitted command, within its attempts.
EntryOK(c, entry) ==
    /\ entry \in Entry /\ entry.attempt <= limit.attempts
    /\ entry.state = "absent" <=> entry.attempt = 0
    /\ entry.attempt # 0 => c \in submitted

\* The record of a first refusal is true.
TrueEntry(c, entry) == entry.state = "Refused" /\ entry.attempt = 1 => Unsent(c)

\* No copy says more of a command's first attempt than that it is pending.
StillPending(entry) == entry.attempt = 1 => entry.state = "Pending"

EntriesOK(c) ==
    /\ EntryOK(c, file[c]) /\ EntryOK(c, console[c])
    /\ EntryOK(c, saving.entries[c]) /\ EntryOK(c, saved[c])

OrderOK(c) ==
    /\ saved[c].attempt <= file[c].attempt
    /\ Running => file[c].attempt <= console[c].attempt
    /\ Running => saving.entries[c].attempt <= console[c].attempt
    /\ saving.at = "writing" => file[c].attempt <= saving.entries[c].attempt
    /\ saving.at = "done" => saving.entries[c].attempt <= file[c].attempt

TruthOK(c) ==
    /\ TrueEntry(c, file[c]) /\ TrueEntry(c, console[c])
    /\ saving.at = "writing" => TrueEntry(c, saving.entries[c])
    /\ Running /\ console[c].state = "Pending" /\ console[c].attempt = 1 =>
          Unsent(c) /\ StillPending(file[c]) /\ StillPending(saving.entries[c])

EntriesInv == \A c \in Commands : EntriesOK(c)
OrderInv == \A c \in Commands : OrderOK(c)
TruthInv == \A c \in Commands : TruthOK(c)

\* The barrier holds a pending command; a program that runs no more has forgotten
\* its console.
PhaseInv ==
    /\ barrier # Nothing => console[barrier].state = "Pending"
    /\ ~Running => saving = NoSave /\ saved = Blank /\ console = Blank /\ barrier = Nothing

\* The transaction under way is that of a saved attempt; a first attempt that has
\* not been answered, or was denied, has no receipt.
CallInv ==
    /\ ~Calling => call = NoCall
    /\ Calling =>
          LET c == call.command IN
          /\ c \in Commands /\ c \in submitted
          /\ call.seen <= Len(journal)
          /\ 1 <= call.attempt /\ call.attempt <= file[c].attempt
          /\ call.attempt = 1 /\ (call.at = "spawned" \/ call.outcome = "denied") =>
                ~Contains(journal, c)
          /\ call.at = "returned" /\ call.outcome = "stale" => ~Contains(journal, c)

\* A receipt is that of a submitted and saved command, at its own revision.
ReceiptOK(i) ==
    journal[i] # Other =>
        /\ journal[i] \in submitted
        /\ i = prepared[journal[i]] + 1
        /\ file[journal[i]].attempt # 0

JournalInv == \A i \in DOMAIN journal : ReceiptOK(i)

IInv == TypeOK /\ EntriesInv /\ OrderInv /\ TruthInv /\ PhaseInv /\ CallInv /\ JournalInv

-----------------------------------------------------------------------------
(* Entries and receipts. *)

LEMMA BlankTyped ==
    /\ Blank \in [Commands -> Entry]
    /\ \A c \in Commands : Blank[c].attempt = 0 /\ Blank[c].state = "absent"
  BY DEF Blank, Entry, States

LEMMA LimitTyped == TypeOK => limit.receipts \in Nat /\ limit.attempts \in Nat \ {0}
                              /\ limit.failures \in Nat /\ limit.restarts \in Nat
                              /\ limit.commands \subseteq Commands
  BY CommandBounds DEF TypeOK

\* The console's entry of c gets this state; its attempt stays.
StateSet(c, state) ==
    /\ console' \in [Commands -> Entry]
    /\ console'[c].state = state /\ console'[c].attempt = console[c].attempt
    /\ \A d \in Commands \ {c} : console'[d] = console[d]

LEMMA SetStateMoves ==
    ASSUME TypeOK, NEW c \in Commands, NEW state \in States, SetState(c, state)
    PROVE  StateSet(c, state)
<1>1. console[c] \in Entry /\ console'[c] = [console[c] EXCEPT !.state = state]
  BY DEF TypeOK, SetState
<1>2. console'[c] \in Entry /\ console'[c].state = state
      /\ console'[c].attempt = console[c].attempt
  BY <1>1 DEF Entry
<1> QED BY <1>2 DEF TypeOK, SetState, StateSet

\* What a first attempt left on disk stays: attempts on disk only grow.
FileGrows ==
    /\ file' \in [Commands -> Entry]
    /\ \A d \in Commands : file'[d].attempt \in Nat /\ file[d].attempt <= file'[d].attempt

LEMMA CallStays ==
    ASSUME IInv, FileGrows, UNCHANGED <<journal, identity, call>>
    PROVE  CallInv' /\ JournalInv'
<1> USE DEF IInv, identity
<1>1. \A d \in Commands : file[d].attempt \in Nat
  BY DEF TypeOK, Entry
<1>2. CallInv'
  <2>1. CASE Calling
    <3>1. call.command \in Commands /\ call.attempt \in Nat
      BY <2>1 DEF CallInv, TypeOK, Call
    <3>2. call.attempt <= file'[call.command].attempt
      BY <1>1, <2>1, <3>1 DEF CallInv, FileGrows
    <3> QED BY <2>1, <3>1, <3>2 DEF CallInv, Calling
  <2>2. CASE ~Calling
    BY <2>2 DEF CallInv, Calling
  <2> QED BY <2>1, <2>2
<1>3. JournalInv'
  <2> SUFFICES ASSUME NEW i \in DOMAIN journal, journal[i] # Other
               PROVE  ReceiptOK(i)'
    BY DEF JournalInv, ReceiptOK
  <2>1. journal[i] \in Commands
    BY DEF TypeOK
  <2> QED BY <1>1, <2>1 DEF JournalInv, ReceiptOK, FileGrows
<1> QED BY <1>2, <1>3

\* The transaction answers, with what it saw of the journal.
Answered(outcome) ==
    /\ call' \in Call
    /\ call'.at = "returned" /\ call'.outcome = outcome /\ call'.seen = Len(journal')
    /\ call'.command = call.command /\ call'.attempt = call.attempt

LEMMA AnswerMoves ==
    ASSUME TypeOK, NEW outcome \in Outcomes, Answer(outcome), Len(journal') \in 0..limit.receipts
    PROVE  Answered(outcome)
<1>1. /\ call \in Call
      /\ call' = [call EXCEPT !.at = "returned", !.outcome = outcome, !.seen = Len(journal')]
  BY DEF TypeOK, Answer
<1> QED BY <1>1 DEF Call, Answered

\* A restored entry keeps its attempt and awaits nothing.
AsRestored(old, new) ==
    /\ new \in Entry /\ new.attempt = old.attempt
    /\ new.state \notin {"Pending", "Submitted"}
    /\ old.state = "absent" <=> new.state = "absent"
    /\ new.state = "Refused" => old.state = "Refused"

LEMMA RestoredSo == \A e \in Entry : AsRestored(e, Restored(e))
  BY DEF AsRestored, Restored, Entry, States

\* The journal has one more receipt.
Grown(e) ==
    /\ journal' \in Seq(Commands \cup {Other})
    /\ Len(journal') = Len(journal) + 1 /\ Len(journal') <= limit.receipts
    /\ \A i \in DOMAIN journal' :
          \/ i \in DOMAIN journal /\ journal'[i] = journal[i]
          \/ i = Len(journal) + 1 /\ journal'[i] = e
    /\ \A c : Contains(journal', c) <=> Contains(journal, c) \/ c = e

LEMMA AppendGrows ==
    ASSUME TypeOK, NEW e \in Commands \cup {Other}, Len(journal) < limit.receipts,
           journal' = Append(journal, e)
    PROVE  Grown(e)
<1>1. Len(journal) \in Nat /\ limit.receipts \in Nat
  BY LimitTyped DEF TypeOK
<1> QED BY <1>1 DEF TypeOK, Contains, Grown

\* A receipt is there for the command it names.
LEMMA ReceiptContained == \A i \in DOMAIN journal : TypeOK => Contains(journal, journal[i])
  BY DEF TypeOK, Contains

-----------------------------------------------------------------------------
(* The invariant holds at the start and in every step. *)

LEMMA InitKeeps == Init => IInv
<1> SUFFICES ASSUME Init PROVE IInv
  OBVIOUS
<1>1. TypeOK
  BY LimitTyped, BlankTyped, CommandBounds DEF Init, TypeOK, NoCall, NoSave, Outcomes,
     Saving, Call
<1>2. EntriesInv /\ OrderInv /\ TruthInv
  BY <1>1, BlankTyped, LimitTyped DEF Init, EntriesInv, EntriesOK, EntryOK, OrderInv,
     OrderOK, TruthInv, TruthOK, TrueEntry, NoSave
<1>3. PhaseInv /\ CallInv /\ JournalInv
  BY DEF Init, PhaseInv, CallInv, JournalInv, Running, Calling, NoCall
<1> QED BY <1>1, <1>2, <1>3 DEF IInv

LEMMA StutterKeeps == IInv /\ UNCHANGED vars => IInv'
  BY DEF IInv, vars, system, store, identity, saves, faults, TypeOK, Call, EntriesInv,
     EntriesOK, EntryOK, OrderInv, OrderOK, TruthInv, TruthOK, TrueEntry, Unsent, PhaseInv,
     CallInv, JournalInv, ReceiptOK, Running, Calling

-----------------------------------------------------------------------------
(* The console. *)

LEMMA SubmitKeeps ==
    ASSUME IInv, limit' = limit, NEW c \in Commands, Submit(c)
    PROVE  IInv'
<1> USE DEF IInv, store, identity, saves, faults
<1>1. \A d \in Commands : /\ file[d].attempt \in Nat /\ console[d].attempt \in Nat
                           /\ saving.entries[d].attempt \in Nat /\ saved[d].attempt \in Nat
  BY DEF TypeOK, Entry, Saving
<1>2. /\ limit' = limit
      /\ limit.attempts \in Nat \ {0}
  BY LimitTyped
<1>3. /\ console' \in [Commands -> Entry]
      /\ console'[c].state = "Pending" /\ console'[c].attempt = 1
      /\ \A d \in Commands \ {c} : console'[d] = console[d]
  BY DEF Submit, TypeOK, Entry, States
<1>4. /\ c \in Commands /\ c \notin submitted
      /\ call = NoCall /\ c # Nothing
      /\ ~Contains(journal, c)
  BY LimitTyped, CommandsAssumption DEF Submit, CallInv, Calling, JournalInv, ReceiptOK,
     TypeOK, Contains
<1>5. file[c].attempt = 0 /\ console[c].attempt = 0 /\ saving.entries[c].attempt = 0 /\ saved[c].attempt = 0
  BY <1>1, <1>4 DEF EntriesInv, EntriesOK, EntryOK
<1>6. /\ prepared' \in [Commands -> 0..limit.receipts]
      /\ \A d \in Commands \ {c} : prepared'[d] = prepared[d]
  BY LimitTyped DEF Submit, TypeOK
<1>7. TypeOK'
  BY <1>1, <1>2, <1>3, <1>4, <1>5, <1>6 DEF Submit, Running, Calling, NoCall, TypeOK, Call
<1>8. EntriesInv'
  BY <1>1, <1>2, <1>3, <1>4, <1>5, <1>6 DEF Submit, Running, Calling, NoCall, EntriesInv,
     EntriesOK, EntryOK, TypeOK
<1>9. OrderInv'
  BY <1>1, <1>2, <1>3, <1>4, <1>5, <1>6 DEF Submit, Running, Calling, NoCall, OrderInv,
     OrderOK, TypeOK
<1>10. TruthInv'
  BY <1>1, <1>2, <1>3, <1>4, <1>5, <1>6, CommandsAssumption DEF Submit, Running, Calling,
     NoCall, TruthInv, TruthOK, TrueEntry, Unsent, StillPending, TypeOK
<1>11. PhaseInv'
  BY <1>1, <1>2, <1>3, <1>4, <1>5, <1>6 DEF Submit, Running, Calling, NoCall, PhaseInv,
     TypeOK
<1>12. CallInv'
  BY <1>1, <1>2, <1>3, <1>4, <1>5, <1>6, CommandsAssumption DEF Submit, Running, Calling,
     NoCall, CallInv
<1>13. JournalInv'
  BY <1>1, <1>2, <1>3, <1>4, <1>5, <1>6 DEF Submit, Running, Calling, NoCall, JournalInv,
     ReceiptOK
<1> QED BY <1>7, <1>8, <1>9, <1>10, <1>11, <1>12, <1>13

LEMMA RetryKeeps ==
    ASSUME IInv, limit' = limit, NEW c \in Commands, Retry(c)
    PROVE  IInv'
<1> USE DEF IInv, store, identity, saves, faults
<1>1. \A d \in Commands : /\ file[d].attempt \in Nat /\ console[d].attempt \in Nat
                           /\ saving.entries[d].attempt \in Nat /\ saved[d].attempt \in Nat
  BY DEF TypeOK, Entry, Saving
<1>2. limit.attempts \in Nat
  BY LimitTyped
<1>3. /\ console' \in [Commands -> Entry]
      /\ console'[c].state = "Pending" /\ console'[c].attempt = console[c].attempt + 1
      /\ \A d \in Commands \ {c} : console'[d] = console[d]
  BY <1>1 DEF Retry, TypeOK, Entry, States
<1>4. /\ console[c].attempt # 0 /\ c \in submitted
      /\ console[c].attempt < limit.attempts
  BY DEF Retry, EntriesInv, EntriesOK, EntryOK
<1>5. TypeOK'
  BY <1>1, <1>2, <1>3, <1>4 DEF Retry, Running, TypeOK, Call
<1>6. EntriesInv'
  BY <1>1, <1>2, <1>3, <1>4 DEF Retry, Running, EntriesInv, EntriesOK, EntryOK, TypeOK
<1>7. OrderInv'
  BY <1>1, <1>2, <1>3, <1>4 DEF Retry, Running, OrderInv, OrderOK, TypeOK
<1>8. TruthInv'
  BY <1>1, <1>2, <1>3, <1>4, CommandsAssumption DEF Retry, Running, TruthInv, TruthOK,
     TrueEntry, Unsent, StillPending, TypeOK
<1>9. PhaseInv'
  BY <1>1, <1>2, <1>3, <1>4 DEF Retry, Running, PhaseInv, TypeOK
<1>10. CallInv'
  BY <1>1, <1>2, <1>3, <1>4, CommandsAssumption DEF Retry, Running, Calling, CallInv
<1>11. JournalInv'
  BY <1>1, <1>2, <1>3, <1>4 DEF Retry, Running, JournalInv, ReceiptOK
<1> QED BY <1>5, <1>6, <1>7, <1>8, <1>9, <1>10, <1>11

\* An acknowledgment is pending already: the command is refused.
LEMMA RefusedDispatchKeeps ==
    ASSUME IInv, limit' = limit, NEW c \in Commands, Dispatch(c), Calling
    PROVE  IInv'
<1> USE DEF IInv, store, identity, saves, faults
<1>1. \A d \in Commands : /\ file[d].attempt \in Nat /\ console[d].attempt \in Nat
                           /\ saving.entries[d].attempt \in Nat /\ saved[d].attempt \in Nat
  BY DEF TypeOK, Entry, Saving
<1>2. console[c].state = "Pending" /\ c # Nothing
  BY CommandsAssumption DEF Dispatch, SavedExactly
<1>3. StateSet(c, "Refused")
  BY SetStateMoves DEF Dispatch, States
<1>4. TypeOK'
  BY <1>1, <1>2, <1>3 DEF Dispatch, StateSet, Running, Calling, TypeOK, Call
<1>5. EntriesInv'
  BY <1>1, <1>2, <1>3 DEF Dispatch, StateSet, Running, Calling, EntriesInv, EntriesOK,
     EntryOK, TypeOK
<1>6. OrderInv'
  BY <1>1, <1>2, <1>3 DEF Dispatch, StateSet, Running, Calling, OrderInv, OrderOK, TypeOK
<1>7. TruthInv'
  <2> SUFFICES ASSUME NEW d \in Commands PROVE TruthOK(d)'
    BY DEF TruthInv
  <2>1. CASE d = c
    BY <2>1, <1>1, <1>2, <1>3, CommandsAssumption DEF Dispatch, StateSet, Running, Calling,
       TruthInv, TruthOK, TrueEntry, Unsent, StillPending, TypeOK
  <2>2. CASE d # c
    BY <2>2, <1>1, <1>2, <1>3, CommandsAssumption DEF Dispatch, StateSet, Running, Calling,
       TruthInv, TruthOK, TrueEntry, Unsent, StillPending, TypeOK
  <2> QED BY <2>1, <2>2
<1>8. PhaseInv'
  BY <1>1, <1>2, <1>3 DEF Dispatch, StateSet, Running, Calling, PhaseInv, TypeOK
<1>9. CallInv'
  BY <1>1, <1>2, <1>3, CommandsAssumption DEF Dispatch, StateSet, Running, Calling, CallInv
<1>10. JournalInv'
  BY <1>1, <1>2, <1>3 DEF Dispatch, StateSet, Running, Calling, JournalInv, ReceiptOK
<1> QED BY <1>4, <1>5, <1>6, <1>7, <1>8, <1>9, <1>10

LEMMA AcceptedDispatchKeeps ==
    ASSUME IInv, limit' = limit, NEW c \in Commands, Dispatch(c), ~Calling
    PROVE  IInv'
<1> USE DEF IInv, store, identity, saves, faults
<1>1. \A d \in Commands : /\ file[d].attempt \in Nat /\ console[d].attempt \in Nat
                           /\ saving.entries[d].attempt \in Nat /\ saved[d].attempt \in Nat
  BY DEF TypeOK, Entry, Saving
<1>2. console[c].state = "Pending" /\ saved[c] = console[c]
  BY DEF Dispatch, SavedExactly
<1>3. StateSet(c, "Submitted")
  BY SetStateMoves DEF Dispatch, States
<1>4. limit.receipts \in Nat /\ c # Nothing
  BY LimitTyped, CommandsAssumption
<1>5. console[c].attempt \in 1..limit.attempts /\ c \in submitted
  BY <1>1, <1>2, <1>3, <1>4, LimitTyped DEF EntriesInv, EntriesOK, EntryOK
<1>6. call' = [command |-> c, attempt |-> console[c].attempt, at |-> "spawned", outcome |-> "none", seen |-> 0]
  BY DEF Dispatch, NoCall
<1>7. /\ call' \in Call
      /\ call'.command = c /\ call'.attempt = console[c].attempt /\ call'.at = "spawned"
      /\ call'.outcome = "none" /\ call'.seen = 0 /\ Len(journal) \in Nat
  BY <1>4, <1>5, <1>6 DEF Call, Outcomes, TypeOK
<1>8. /\ console[c].attempt <= file[c].attempt
      /\ console[c].attempt = 1 => Unsent(c) /\ file[c].state = "Pending" /\ (saving.at = "writing" => saving.entries[c].state = "Pending")
      /\ saving.at = "writing" => console[c].attempt <= saving.entries[c].attempt
  BY <1>1, <1>2, <1>3, <1>4, <1>5, <1>6, <1>7 DEF OrderInv, OrderOK, TruthInv, TruthOK,
     StillPending, Dispatch
<1>9. TypeOK'
  BY <1>1, <1>2, <1>3, <1>4, <1>5, <1>6, <1>7, <1>8 DEF Dispatch, StateSet, Running,
     Calling, TypeOK, Call
<1>10. EntriesInv'
  <2> SUFFICES ASSUME NEW d \in Commands PROVE EntriesOK(d)'
    BY DEF EntriesInv
  <2>1. CASE d = c
    BY <2>1, <1>2, <1>3, <1>5 DEF Dispatch, StateSet, Running, Calling, EntriesInv,
       EntriesOK, EntryOK, TypeOK
  <2>2. CASE d # c
    BY <2>2, <1>2, <1>3, <1>5 DEF Dispatch, StateSet, Running, Calling, EntriesInv,
       EntriesOK, EntryOK, TypeOK
  <2> QED BY <2>1, <2>2
<1>11. OrderInv'
  <2> SUFFICES ASSUME NEW d \in Commands PROVE OrderOK(d)'
    BY DEF OrderInv
  <2>1. CASE d = c
    BY <2>1, <1>3 DEF Dispatch, StateSet, Running, Calling, OrderInv, OrderOK, TypeOK
  <2>2. CASE d # c
    BY <2>2, <1>3 DEF Dispatch, StateSet, Running, Calling, OrderInv, OrderOK, TypeOK
  <2> QED BY <2>1, <2>2
<1>12. TruthInv'
  <2> SUFFICES ASSUME NEW d \in Commands PROVE TruthOK(d)'
    BY DEF TruthInv
  <2>1. CASE d = c
    BY <2>1, <1>1, <1>3, <1>5, <1>7, <1>8, CommandsAssumption DEF Dispatch, StateSet,
       Running, Calling, TruthInv, TruthOK, TrueEntry, Unsent, StillPending, TypeOK
  <2>2. CASE d # c
    BY <2>2, <1>1, <1>3, <1>5, <1>7, <1>8, CommandsAssumption DEF Dispatch, StateSet,
       Running, Calling, TruthInv, TruthOK, TrueEntry, Unsent, StillPending, TypeOK
  <2> QED BY <2>1, <2>2
<1>13. PhaseInv'
  BY <1>3, <1>7 DEF Dispatch, StateSet, Running, Calling, PhaseInv, TypeOK
<1>14. CallInv'
  BY <1>3, <1>5, <1>7, <1>8, CommandsAssumption DEF Dispatch, StateSet, Running, Calling,
     CallInv, Unsent
<1>15. JournalInv'
  BY <1>3 DEF Dispatch, StateSet, Running, Calling, JournalInv, ReceiptOK
<1> QED BY <1>9, <1>10, <1>11, <1>12, <1>13, <1>14, <1>15

LEMMA QuietPollKeeps ==
    ASSUME IInv, limit' = limit, Poll, UNCHANGED console
    PROVE  IInv'
<1> USE DEF IInv, store, identity, saves, faults
<1>1. \A d \in Commands : /\ file[d].attempt \in Nat /\ console[d].attempt \in Nat
                           /\ saving.entries[d].attempt \in Nat /\ saved[d].attempt \in Nat
  BY DEF TypeOK, Entry, Saving
<1>2. /\ call.command \in Commands /\ call.command \in submitted
      /\ call.attempt >= 1 /\ call.attempt <= file[call.command].attempt
      /\ call.attempt = 1 /\ call.outcome = "denied" => ~Contains(journal, call.command)
      /\ call.at = "returned"
  BY DEF Poll, CallInv, Calling
<1>3. call' = NoCall /\ call'.at = "none" /\ call'.command = Nothing
  BY DEF Poll, NoCall
<1>4. NoCall \in Call
  BY LimitTyped DEF NoCall, Call, Outcomes
<1>5. call.seen \in Nat /\ call.outcome \in Outcomes
  BY LimitTyped DEF TypeOK, Call
<1>6. known' \in 0..Len(journal)
  BY <1>5 DEF Poll, TypeOK, CallInv, Calling
<1>7. TypeOK'
  BY <1>1, <1>2, <1>3, <1>4, <1>5, <1>6 DEF Poll, Running, TypeOK, Call
<1>8. EntriesInv'
  BY <1>1, <1>2, <1>3, <1>4, <1>5, <1>6 DEF Poll, Running, EntriesInv, EntriesOK, EntryOK,
     TypeOK
<1>9. OrderInv'
  BY <1>1, <1>2, <1>3, <1>4, <1>5, <1>6 DEF Poll, Running, OrderInv, OrderOK, TypeOK
<1>10. TruthInv'
  BY <1>1, <1>2, <1>3, <1>4, <1>5, <1>6, CommandsAssumption DEF Poll, Running, TruthInv,
     TruthOK, TrueEntry, Unsent, StillPending, TypeOK
<1>11. PhaseInv'
  BY <1>1, <1>2, <1>3, <1>4, <1>5, <1>6 DEF Poll, Running, PhaseInv, TypeOK
<1>12. CallInv'
  BY <1>1, <1>2, <1>3, <1>4, <1>5, <1>6, CommandsAssumption DEF Poll, Running, Calling,
     CallInv
<1>13. JournalInv'
  BY <1>1, <1>2, <1>3, <1>4, <1>5, <1>6 DEF Poll, Running, JournalInv, ReceiptOK
<1> QED BY <1>7, <1>8, <1>9, <1>10, <1>11, <1>12, <1>13

LEMMA SettlingPollKeeps ==
    ASSUME IInv, limit' = limit, Poll, console' # console
    PROVE  IInv'
<1> USE DEF IInv, store, identity, saves, faults
<1>1. \A d \in Commands : /\ file[d].attempt \in Nat /\ console[d].attempt \in Nat
                           /\ saving.entries[d].attempt \in Nat /\ saved[d].attempt \in Nat
  BY DEF TypeOK, Entry, Saving
<1>2. /\ call.command \in Commands /\ call.command \in submitted
      /\ call.attempt >= 1 /\ call.attempt <= file[call.command].attempt
      /\ call.attempt = 1 /\ call.outcome = "denied" => ~Contains(journal, call.command)
      /\ call.at = "returned"
  BY DEF Poll, CallInv, Calling
<1>3. call' = NoCall /\ call'.at = "none" /\ call'.command = Nothing
  BY DEF Poll, NoCall
<1>4. NoCall \in Call
  BY LimitTyped DEF NoCall, Call, Outcomes
<1>5. call.seen \in Nat /\ call.outcome \in Outcomes
  BY LimitTyped DEF TypeOK, Call
<1>6. known' \in 0..Len(journal)
  BY <1>5 DEF Poll, TypeOK, CallInv, Calling
<1>7. /\ call.outcome = "denied" => StateSet(call.command, "Refused")
      /\ call.outcome # "denied" => StateSet(call.command, "Unknown")
      /\ console[call.command].state = "Submitted"
  BY <1>2, SetStateMoves DEF Poll, States, Unmatched
<1>8. console[call.command].attempt = 1 => call.attempt = 1
  BY <1>1, <1>2 DEF OrderInv, OrderOK, Poll, TypeOK, Call
<1>9. TypeOK'
  BY <1>1, <1>2, <1>3, <1>4, <1>5, <1>6, <1>7, <1>8 DEF Poll, StateSet, Running, TypeOK,
     Call
<1>10. EntriesInv'
  <2> SUFFICES ASSUME NEW d \in Commands PROVE EntriesOK(d)'
    BY DEF EntriesInv
  <2>1. CASE d = call.command
    BY <2>1, <1>1, <1>2, <1>3, <1>4, <1>5, <1>6, <1>7, <1>8 DEF Poll, StateSet, Running,
       EntriesInv, EntriesOK, EntryOK, TypeOK
  <2>2. CASE d # call.command
    BY <2>2, <1>1, <1>2, <1>3, <1>4, <1>5, <1>6, <1>7, <1>8 DEF Poll, StateSet, Running,
       EntriesInv, EntriesOK, EntryOK, TypeOK
  <2> QED BY <2>1, <2>2
<1>11. OrderInv'
  <2> SUFFICES ASSUME NEW d \in Commands PROVE OrderOK(d)'
    BY DEF OrderInv
  <2>1. CASE d = call.command
    BY <2>1, <1>1, <1>2, <1>3, <1>4, <1>5, <1>6, <1>7, <1>8 DEF Poll, StateSet, Running,
       OrderInv, OrderOK, TypeOK
  <2>2. CASE d # call.command
    BY <2>2, <1>1, <1>2, <1>3, <1>4, <1>5, <1>6, <1>7, <1>8 DEF Poll, StateSet, Running,
       OrderInv, OrderOK, TypeOK
  <2> QED BY <2>1, <2>2
<1>12. TruthInv'
  <2> SUFFICES ASSUME NEW d \in Commands PROVE TruthOK(d)'
    BY DEF TruthInv
  <2>1. CASE d = call.command
    BY <2>1, <1>1, <1>2, <1>3, <1>4, <1>5, <1>6, <1>7, <1>8, CommandsAssumption DEF Poll,
       StateSet, Running, TruthInv, TruthOK, TrueEntry, Unsent, StillPending, TypeOK
  <2>2. CASE d # call.command
    BY <2>2, <1>1, <1>2, <1>3, <1>4, <1>5, <1>6, <1>7, <1>8, CommandsAssumption DEF Poll,
       StateSet, Running, TruthInv, TruthOK, TrueEntry, Unsent, StillPending, TypeOK
  <2> QED BY <2>1, <2>2
<1>13. PhaseInv'
  BY <1>1, <1>2, <1>3, <1>4, <1>5, <1>6, <1>7, <1>8 DEF Poll, StateSet, Running, PhaseInv,
     TypeOK
<1>14. CallInv'
  BY <1>1, <1>2, <1>3, <1>4, <1>5, <1>6, <1>7, <1>8, CommandsAssumption DEF Poll, StateSet,
     Running, Calling, CallInv
<1>15. JournalInv'
  BY <1>1, <1>2, <1>3, <1>4, <1>5, <1>6, <1>7, <1>8 DEF Poll, StateSet, Running, JournalInv,
     ReceiptOK
<1> QED BY <1>9, <1>10, <1>11, <1>12, <1>13, <1>14, <1>15

LEMMA RefreshKeeps ==
    ASSUME IInv, limit' = limit, Refresh
    PROVE  IInv'
<1> USE DEF IInv, store, identity, saves, faults
<1>1. \A d \in Commands : /\ file[d].attempt \in Nat /\ console[d].attempt \in Nat
                           /\ saving.entries[d].attempt \in Nat /\ saved[d].attempt \in Nat
  BY DEF TypeOK, Entry, Saving
<1>2. TypeOK'
  BY <1>1 DEF Refresh, Running, TypeOK, Call
<1>3. EntriesInv'
  BY <1>1 DEF Refresh, Running, EntriesInv, EntriesOK, EntryOK, TypeOK
<1>4. OrderInv'
  BY <1>1 DEF Refresh, Running, OrderInv, OrderOK, TypeOK
<1>5. TruthInv'
  BY <1>1, CommandsAssumption DEF Refresh, Running, TruthInv, TruthOK, TrueEntry, Unsent,
     StillPending, TypeOK
<1>6. PhaseInv'
  BY <1>1 DEF Refresh, Running, PhaseInv, TypeOK
<1>7. CallInv'
  BY <1>1, CommandsAssumption DEF Refresh, Running, Calling, CallInv
<1>8. JournalInv'
  BY <1>1 DEF Refresh, Running, JournalInv, ReceiptOK
<1> QED BY <1>2, <1>3, <1>4, <1>5, <1>6, <1>7, <1>8

-----------------------------------------------------------------------------
(* Checkpoints. *)

LEMMA CheckpointKeeps ==
    ASSUME IInv, limit' = limit, Checkpoint
    PROVE  IInv'
<1> USE DEF IInv, store, identity, saves, faults
<1>1. \A d \in Commands : /\ file[d].attempt \in Nat /\ console[d].attempt \in Nat
                           /\ saving.entries[d].attempt \in Nat /\ saved[d].attempt \in Nat
  BY DEF TypeOK, Entry, Saving
<1>2. /\ saving' \in Saving
      /\ saving'.at = "writing" /\ saving'.entries = console
  BY DEF Checkpoint, TypeOK, Saving
<1>3. TypeOK'
  BY <1>1, <1>2 DEF Checkpoint, Running, TypeOK, Call
<1>4. EntriesInv'
  BY <1>1, <1>2 DEF Checkpoint, Running, EntriesInv, EntriesOK, EntryOK, TypeOK
<1>5. OrderInv'
  BY <1>1, <1>2 DEF Checkpoint, Running, OrderInv, OrderOK, TypeOK
<1>6. TruthInv'
  BY <1>1, <1>2, CommandsAssumption DEF Checkpoint, Running, TruthInv, TruthOK, TrueEntry,
     Unsent, StillPending, TypeOK
<1>7. PhaseInv'
  BY <1>1, <1>2 DEF Checkpoint, Running, PhaseInv, TypeOK
<1>8. CallInv'
  BY <1>1, <1>2, CommandsAssumption DEF Checkpoint, Running, Calling, CallInv
<1>9. JournalInv'
  BY <1>1, <1>2 DEF Checkpoint, Running, JournalInv, ReceiptOK
<1> QED BY <1>3, <1>4, <1>5, <1>6, <1>7, <1>8, <1>9

LEMMA WriteKeeps ==
    ASSUME IInv, limit' = limit, Write
    PROVE  IInv'
<1> USE DEF IInv, store, identity, saves, faults
<1>1. \A d \in Commands : /\ file[d].attempt \in Nat /\ console[d].attempt \in Nat
                           /\ saving.entries[d].attempt \in Nat /\ saved[d].attempt \in Nat
  BY DEF TypeOK, Entry, Saving
<1>2. Running
  BY DEF Write, PhaseInv, NoSave
<1>3. /\ saving' \in Saving
      /\ saving'.at \in {"done", "failed"} /\ saving'.entries = saving.entries
      /\ saving.entries \in [Commands -> Entry]
  BY DEF Write, TypeOK, Saving
<1>4. /\ (file' = file /\ saving'.at = "failed") \/ file' = saving.entries
      /\ saving.at = "writing"
  BY <1>3 DEF Write, TypeOK, Saving
<1>5. failures' \in 0..limit.failures
  BY LimitTyped DEF Write, Fail, TypeOK
<1>6. FileGrows
  BY <1>1, <1>3, <1>4 DEF FileGrows, OrderInv, OrderOK, TypeOK
<1>7. TypeOK'
  BY <1>1, <1>2, <1>3, <1>4, <1>5, <1>6 DEF Write, Running, TypeOK, Call
<1>8. EntriesInv'
  BY <1>1, <1>2, <1>3, <1>4, <1>5, <1>6 DEF Write, Running, EntriesInv, EntriesOK, EntryOK,
     TypeOK
<1>9. OrderInv'
  <2> SUFFICES ASSUME NEW d \in Commands PROVE OrderOK(d)'
    BY DEF OrderInv
  <2>1. CASE file' = file /\ saving'.at = "failed"
    BY <2>1, <1>1, <1>2, <1>3, <1>4 DEF Write, Running, OrderInv, OrderOK, TypeOK
  <2>2. CASE file' = saving.entries
    BY <2>2, <1>1, <1>2, <1>3, <1>4 DEF Write, Running, OrderInv, OrderOK, TypeOK
  <2> QED BY <2>1, <2>2, <1>1, <1>2, <1>3, <1>4
<1>10. TruthInv'
  BY <1>1, <1>2, <1>3, <1>4, <1>5, <1>6, CommandsAssumption DEF Write, Running, TruthInv,
     TruthOK, TrueEntry, Unsent, StillPending, TypeOK
<1>11. PhaseInv'
  BY <1>1, <1>2, <1>3, <1>4, <1>5, <1>6 DEF Write, Running, PhaseInv, TypeOK
<1>12. CallInv'
  BY <1>6, CallStays DEF Write
<1>13. JournalInv'
  BY <1>6, CallStays DEF Write
<1> QED BY <1>7, <1>8, <1>9, <1>10, <1>11, <1>12, <1>13

\* A failed save refuses the command at the barrier.
LEMMA FailedCollectKeeps ==
    ASSUME IInv, limit' = limit, Collect, saving.at = "failed", barrier # Nothing
    PROVE  IInv'
<1> USE DEF IInv, store, identity, saves, faults
<1>1. \A d \in Commands : /\ file[d].attempt \in Nat /\ console[d].attempt \in Nat
                           /\ saving.entries[d].attempt \in Nat /\ saved[d].attempt \in Nat
  BY DEF TypeOK, Entry, Saving
<1>2. /\ limit.attempts \in Nat
      /\ Blank \in [Commands -> Entry]
      /\ \A d \in Commands : Blank[d].attempt = 0 /\ Blank[d].state = "absent"
  BY BlankTyped, LimitTyped
<1>3. /\ saving' = NoSave /\ saving'.entries = Blank /\ saving'.at = "none" /\ saving' \in Saving
      /\ saved' = saved
  BY <1>2 DEF Collect, NoSave, Saving
<1>4. /\ barrier \in Commands /\ barrier' = Nothing /\ console[barrier].state = "Pending"
      /\ StateSet(barrier, "Refused")
  BY SetStateMoves DEF Collect, States, PhaseInv, TypeOK
<1>5. TypeOK'
  BY <1>1, <1>2, <1>3, <1>4 DEF Collect, StateSet, Running, TypeOK, Call
<1>6. EntriesInv'
  <2> SUFFICES ASSUME NEW d \in Commands PROVE EntriesOK(d)'
    BY DEF EntriesInv
  <2>1. CASE d = barrier
    BY <2>1, <1>1, <1>2, <1>3, <1>4 DEF Collect, StateSet, Running, EntriesInv, EntriesOK,
       EntryOK, TypeOK
  <2>2. CASE d # barrier
    BY <2>2, <1>1, <1>2, <1>3, <1>4 DEF Collect, StateSet, Running, EntriesInv, EntriesOK,
       EntryOK, TypeOK
  <2> QED BY <2>1, <2>2
<1>7. OrderInv'
  <2> SUFFICES ASSUME NEW d \in Commands PROVE OrderOK(d)'
    BY DEF OrderInv
  <2>1. CASE d = barrier
    BY <2>1, <1>1, <1>2, <1>3, <1>4 DEF Collect, StateSet, Running, OrderInv, OrderOK,
       TypeOK
  <2>2. CASE d # barrier
    BY <2>2, <1>1, <1>2, <1>3, <1>4 DEF Collect, StateSet, Running, OrderInv, OrderOK,
       TypeOK
  <2> QED BY <2>1, <2>2
<1>8. TruthInv'
  <2> SUFFICES ASSUME NEW d \in Commands PROVE TruthOK(d)'
    BY DEF TruthInv
  <2>1. CASE d = barrier
    BY <2>1, <1>1, <1>2, <1>3, <1>4, CommandsAssumption DEF Collect, StateSet, Running,
       TruthInv, TruthOK, TrueEntry, Unsent, StillPending, TypeOK
  <2>2. CASE d # barrier
    BY <2>2, <1>1, <1>2, <1>3, <1>4, CommandsAssumption DEF Collect, StateSet, Running,
       TruthInv, TruthOK, TrueEntry, Unsent, StillPending, TypeOK
  <2> QED BY <2>1, <2>2
<1>9. PhaseInv'
  BY <1>1, <1>2, <1>3, <1>4 DEF Collect, StateSet, Running, PhaseInv, TypeOK
<1>10. CallInv'
  BY <1>1, <1>2, <1>3, <1>4, CommandsAssumption DEF Collect, StateSet, Running, Calling,
     CallInv
<1>11. JournalInv'
  BY <1>1, <1>2, <1>3, <1>4 DEF Collect, StateSet, Running, JournalInv, ReceiptOK
<1> QED BY <1>5, <1>6, <1>7, <1>8, <1>9, <1>10, <1>11

LEMMA OtherCollectKeeps ==
    ASSUME IInv, limit' = limit, Collect, saving.at = "done" \/ barrier = Nothing
    PROVE  IInv'
<1> USE DEF IInv, store, identity, saves, faults
<1>1. \A d \in Commands : /\ file[d].attempt \in Nat /\ console[d].attempt \in Nat
                           /\ saving.entries[d].attempt \in Nat /\ saved[d].attempt \in Nat
  BY DEF TypeOK, Entry, Saving
<1>2. /\ limit.attempts \in Nat
      /\ Blank \in [Commands -> Entry]
      /\ \A d \in Commands : Blank[d].attempt = 0 /\ Blank[d].state = "absent"
  BY BlankTyped, LimitTyped
<1>3. saving' = NoSave /\ saving'.entries = Blank /\ saving'.at = "none" /\ saving' \in Saving
  BY <1>2 DEF Collect, NoSave, Saving
<1>4. /\ saved' = saved \/ (saving.at = "done" /\ saved' = saving.entries)
      /\ saving.entries \in [Commands -> Entry]
      /\ UNCHANGED <<console, barrier>>
  BY DEF Collect, TypeOK, Saving
<1>5. TypeOK'
  BY <1>1, <1>2, <1>3, <1>4 DEF Collect, Running, TypeOK, Call
<1>6. EntriesInv'
  <2> SUFFICES ASSUME NEW d \in Commands PROVE EntriesOK(d)'
    BY DEF EntriesInv
  <2>1. CASE saved' = saved
    BY <2>1, <1>1, <1>2, <1>3, <1>4 DEF Collect, Running, EntriesInv, EntriesOK, EntryOK,
       TypeOK
  <2>2. CASE saved' = saving.entries
    BY <2>2, <1>1, <1>2, <1>3, <1>4 DEF Collect, Running, EntriesInv, EntriesOK, EntryOK,
       TypeOK
  <2> QED BY <2>1, <2>2, <1>1, <1>2, <1>3, <1>4
<1>7. OrderInv'
  <2> SUFFICES ASSUME NEW d \in Commands PROVE OrderOK(d)'
    BY DEF OrderInv
  <2>1. CASE saved' = saved
    BY <2>1, <1>1, <1>2, <1>3, <1>4 DEF Collect, Running, OrderInv, OrderOK, TypeOK
  <2>2. CASE saving.at = "done" /\ saved' = saving.entries
    BY <2>2, <1>1, <1>2, <1>3, <1>4 DEF Collect, Running, OrderInv, OrderOK, TypeOK
  <2> QED BY <2>1, <2>2, <1>1, <1>2, <1>3, <1>4
<1>8. TruthInv'
  BY <1>1, <1>2, <1>3, <1>4, CommandsAssumption DEF Collect, Running, TruthInv, TruthOK,
     TrueEntry, Unsent, StillPending, TypeOK
<1>9. PhaseInv'
  BY <1>1, <1>2, <1>3, <1>4 DEF Collect, Running, PhaseInv, TypeOK
<1>10. CallInv'
  BY <1>1, <1>2, <1>3, <1>4, CommandsAssumption DEF Collect, Running, Calling, CallInv
<1>11. JournalInv'
  BY <1>1, <1>2, <1>3, <1>4 DEF Collect, Running, JournalInv, ReceiptOK
<1> QED BY <1>5, <1>6, <1>7, <1>8, <1>9, <1>10, <1>11

-----------------------------------------------------------------------------
(* The transaction. *)

LEMMA WriteOtherKeeps ==
    ASSUME IInv, limit' = limit, WriteOther
    PROVE  IInv'
<1> USE DEF IInv, store, identity, saves, faults
<1>1. Grown(Other)
  BY AppendGrows DEF WriteOther
<1>2. Len(journal) \in Nat
  BY DEF TypeOK
<1>3. TypeOK'
  BY <1>1, <1>2 DEF WriteOther, Grown, TypeOK, Call
<1>4. EntriesInv'
  BY <1>1, <1>2 DEF WriteOther, Grown, EntriesInv, EntriesOK, EntryOK, TypeOK
<1>5. OrderInv'
  BY <1>1, <1>2 DEF WriteOther, Running, Grown, OrderInv, OrderOK, TypeOK
<1>6. TruthInv'
  BY <1>1, <1>2, CommandsAssumption DEF WriteOther, Running, Grown, TruthInv, TruthOK,
     TrueEntry, Unsent, StillPending, TypeOK
<1>7. PhaseInv'
  BY <1>1, <1>2 DEF WriteOther, Running, Grown, PhaseInv, TypeOK
<1>8. CallInv'
  BY <1>1, <1>2, CommandsAssumption DEF WriteOther, Calling, Grown, CallInv, TypeOK, Call
<1>9. JournalInv'
  BY <1>1, <1>2 DEF WriteOther, Grown, JournalInv, ReceiptOK
<1> QED BY <1>3, <1>4, <1>5, <1>6, <1>7, <1>8, <1>9

LEMMA UnwrittenTransactKeeps ==
    ASSUME IInv, limit' = limit, Transact, AnswerUnwritten(call.command)
    PROVE  IInv'
<1> USE DEF IInv, store, identity, saves, faults
<1>1. \A d \in Commands : /\ file[d].attempt \in Nat /\ console[d].attempt \in Nat
                           /\ saving.entries[d].attempt \in Nat /\ saved[d].attempt \in Nat
  BY DEF TypeOK, Entry, Saving
<1>2. /\ call.command \in Commands /\ call.command \in submitted
      /\ call.attempt >= 1 /\ call.attempt <= file[call.command].attempt
      /\ Calling
      /\ call.attempt = 1 => ~Contains(journal, call.command)
      /\ limit' = limit /\ limit.receipts \in Nat /\ Len(journal) \in 0..limit.receipts
  BY LimitTyped DEF Transact, CallInv, Calling, TypeOK
<1>3. /\ \E outcome \in Outcomes :
            /\ Answered(outcome)
            /\ outcome = "stale" => ~Contains(journal, call.command)
      /\ UNCHANGED journal
      /\ failures' \in 0..limit.failures
  <2>1. UNCHANGED journal /\ Len(journal') \in 0..limit.receipts
    BY <1>2 DEF AnswerUnwritten
  <2>2. failures' \in 0..limit.failures
    BY LimitTyped DEF AnswerUnwritten, Fail, TypeOK
  <2>3. \E outcome \in Outcomes :
           /\ Answer(outcome)
           /\ outcome = "stale" => ~Contains(journal, call.command)
    BY DEF AnswerUnwritten, Outcomes, Stale
  <2> QED BY <2>1, <2>2, <2>3, AnswerMoves
<1>4. TypeOK'
  BY <1>1, <1>2, <1>3 DEF Transact, Answered, Calling, TypeOK, Call
<1>5. EntriesInv'
  BY <1>1, <1>2, <1>3 DEF Transact, Answered, Calling, EntriesInv, EntriesOK, EntryOK,
     TypeOK
<1>6. OrderInv'
  BY <1>1, <1>2, <1>3 DEF Transact, Answered, Running, Calling, OrderInv, OrderOK, TypeOK
<1>7. TruthInv'
  BY <1>1, <1>2, <1>3, CommandsAssumption DEF Transact, Answered, Running, Calling,
     TruthInv, TruthOK, TrueEntry, Unsent, StillPending, TypeOK
<1>8. PhaseInv'
  BY <1>1, <1>2, <1>3 DEF Transact, Answered, Running, Calling, PhaseInv, TypeOK
<1>9. CallInv'
  BY <1>1, <1>2, <1>3, CommandsAssumption DEF Transact, Answered, Calling, CallInv
<1>10. JournalInv'
  BY <1>1, <1>2, <1>3 DEF Transact, Answered, Calling, JournalInv, ReceiptOK
<1> QED BY <1>4, <1>5, <1>6, <1>7, <1>8, <1>9, <1>10

\* The save failed and left the journal as it was.
LEMMA LostTransactKeeps ==
    ASSUME IInv, limit' = limit, Transact, AnswerSaved(call.command), UNCHANGED journal
    PROVE  IInv'
<1> USE DEF IInv, store, identity, saves, faults
<1>1. \A d \in Commands : /\ file[d].attempt \in Nat /\ console[d].attempt \in Nat
                           /\ saving.entries[d].attempt \in Nat /\ saved[d].attempt \in Nat
  BY DEF TypeOK, Entry, Saving
<1>2. /\ call.command \in Commands /\ call.command \in submitted
      /\ call.attempt >= 1 /\ call.attempt <= file[call.command].attempt
      /\ Calling
      /\ call.attempt = 1 => ~Contains(journal, call.command)
      /\ limit' = limit /\ limit.receipts \in Nat /\ Len(journal) \in 0..limit.receipts
  BY LimitTyped DEF Transact, CallInv, Calling, TypeOK
<1>3. /\ Fresh(call.command) /\ Len(journal) < limit.receipts
      /\ failures' \in 0..limit.failures
      /\ \E outcome \in {"ok", "uncertain"} : Answer(outcome)
  BY LimitTyped DEF AnswerSaved, Fail, TypeOK
<1>4. \E outcome \in {"ok", "uncertain"} : Answered(outcome)
  BY <1>2, <1>3, AnswerMoves DEF Outcomes
<1>5. TypeOK'
  BY <1>1, <1>2, <1>3, <1>4 DEF Transact, Answered, Fresh, Calling, TypeOK, Call
<1>6. EntriesInv'
  BY <1>1, <1>2, <1>3, <1>4 DEF Transact, Answered, Fresh, Calling, EntriesInv, EntriesOK,
     EntryOK, TypeOK
<1>7. OrderInv'
  BY <1>1, <1>2, <1>3, <1>4 DEF Transact, Answered, Fresh, Running, Calling, OrderInv,
     OrderOK, TypeOK
<1>8. TruthInv'
  BY <1>1, <1>2, <1>3, <1>4, CommandsAssumption DEF Transact, Answered, Fresh, Running,
     Calling, TruthInv, TruthOK, TrueEntry, Unsent, StillPending, TypeOK
<1>9. PhaseInv'
  BY <1>1, <1>2, <1>3, <1>4 DEF Transact, Answered, Fresh, Running, Calling, PhaseInv,
     TypeOK
<1>10. CallInv'
  BY <1>1, <1>2, <1>3, <1>4, CommandsAssumption DEF Transact, Answered, Fresh, Calling,
     CallInv
<1>11. JournalInv'
  BY <1>1, <1>2, <1>3, <1>4 DEF Transact, Answered, Fresh, Calling, JournalInv, ReceiptOK
<1> QED BY <1>5, <1>6, <1>7, <1>8, <1>9, <1>10, <1>11

LEMMA WrittenTransactKeeps ==
    ASSUME IInv, limit' = limit, Transact, AnswerSaved(call.command), journal' # journal
    PROVE  IInv'
<1> USE DEF IInv, store, identity, saves, faults
<1>1. \A d \in Commands : /\ file[d].attempt \in Nat /\ console[d].attempt \in Nat
                           /\ saving.entries[d].attempt \in Nat /\ saved[d].attempt \in Nat
  BY DEF TypeOK, Entry, Saving
<1>2. /\ call.command \in Commands /\ call.command \in submitted
      /\ call.attempt >= 1 /\ call.attempt <= file[call.command].attempt
      /\ Calling
      /\ call.attempt = 1 => ~Contains(journal, call.command)
      /\ limit' = limit /\ limit.receipts \in Nat /\ Len(journal) \in 0..limit.receipts
  BY LimitTyped DEF Transact, CallInv, Calling, TypeOK
<1>3. /\ Fresh(call.command) /\ Len(journal) < limit.receipts
      /\ failures' \in 0..limit.failures
      /\ \E outcome \in {"ok", "uncertain"} : Answer(outcome)
  BY LimitTyped DEF AnswerSaved, Fail, TypeOK
<1>4. journal' = Append(journal, call.command)
  BY DEF AnswerSaved
<1>5. Grown(call.command)
  BY <1>2, <1>3, <1>4, AppendGrows
<1>6. Len(journal') \in 0..limit.receipts
  BY <1>2, <1>5 DEF Grown
<1>7. \E outcome \in {"ok", "uncertain"} : Answered(outcome)
  BY <1>2, <1>3, <1>6, AnswerMoves DEF Outcomes
<1>8. /\ ~Contains(journal, call.command) /\ prepared[call.command] = Len(journal)
      /\ file[call.command].attempt # 0
  BY <1>1, <1>2, <1>3 DEF Fresh, TypeOK, Call
<1>9. TypeOK'
  BY <1>1, <1>2, <1>3, <1>4, <1>5, <1>6, <1>7, <1>8 DEF Transact, Answered, Grown, Calling,
     TypeOK, Call
<1>10. EntriesInv'
  BY <1>1, <1>2, <1>3, <1>4, <1>5, <1>6, <1>7, <1>8 DEF Transact, Answered, Grown, Calling,
     EntriesInv, EntriesOK, EntryOK, TypeOK
<1>11. OrderInv'
  BY <1>1, <1>2, <1>3, <1>4, <1>5, <1>6, <1>7, <1>8 DEF Transact, Answered, Grown, Running,
     Calling, OrderInv, OrderOK, TypeOK
<1>12. TruthInv'
  BY <1>1, <1>2, <1>3, <1>4, <1>5, <1>6, <1>7, <1>8, CommandsAssumption DEF Transact,
     Answered, Grown, Running, Calling, TruthInv, TruthOK, TrueEntry, Unsent, StillPending,
     TypeOK
<1>13. PhaseInv'
  BY <1>1, <1>2, <1>3, <1>4, <1>5, <1>6, <1>7, <1>8 DEF Transact, Answered, Grown, Running,
     Calling, PhaseInv, TypeOK
<1>14. CallInv'
  BY <1>1, <1>2, <1>3, <1>4, <1>5, <1>6, <1>7, <1>8, CommandsAssumption DEF Transact,
     Answered, Grown, Calling, CallInv
<1>15. JournalInv'
  BY <1>1, <1>2, <1>3, <1>4, <1>5, <1>6, <1>7, <1>8 DEF Transact, Answered, Grown, Calling,
     JournalInv, ReceiptOK
<1> QED BY <1>9, <1>10, <1>11, <1>12, <1>13, <1>14, <1>15

-----------------------------------------------------------------------------
(* Leaving, dying, starting again. *)

LEMMA LeaveKeeps ==
    ASSUME IInv, limit' = limit, Leave
    PROVE  IInv'
<1> USE DEF IInv, store, identity, saves, faults
<1>1. \A d \in Commands : /\ file[d].attempt \in Nat /\ console[d].attempt \in Nat
                           /\ saving.entries[d].attempt \in Nat /\ saved[d].attempt \in Nat
  BY DEF TypeOK, Entry, Saving
<1>2. /\ limit.attempts \in Nat
      /\ Blank \in [Commands -> Entry]
      /\ \A d \in Commands : Blank[d].attempt = 0 /\ Blank[d].state = "absent"
  BY BlankTyped, LimitTyped
<1>3. /\ Running
      /\ saving' = NoSave /\ saving'.entries = Blank /\ saving'.at = "none" /\ saving' \in Saving
  BY <1>2 DEF Leave, NoSave, Saving
<1>4. /\ file' \in {file, console} \/ (saving.at = "writing" /\ file' = saving.entries)
      /\ failures' \in 0..limit.failures
      /\ saving.entries \in [Commands -> Entry]
  BY LimitTyped DEF Leave, Fail, TypeOK, Saving
<1>5. file' = file \/ file' = console \/ (saving.at = "writing" /\ file' = saving.entries)
  BY <1>4
<1>6. FileGrows
  <2>1. CASE file' = file
    BY <1>1, <2>1 DEF FileGrows, TypeOK
  <2>2. CASE file' = console
    BY <1>1, <1>3, <2>2 DEF FileGrows, OrderInv, OrderOK, TypeOK
  <2>3. CASE saving.at = "writing" /\ file' = saving.entries
    BY <1>1, <1>4, <2>3 DEF FileGrows, OrderInv, OrderOK
  <2> QED BY <1>5, <2>1, <2>2, <2>3
<1>7. TypeOK'
  BY <1>1, <1>2, <1>3, <1>4, <1>5, <1>6 DEF Leave, Running, TypeOK, Call
<1>8. EntriesInv'
  <2> SUFFICES ASSUME NEW d \in Commands PROVE EntriesOK(d)'
    BY DEF EntriesInv
  <2>1. CASE file' = file
    BY <2>1, <1>1, <1>2, <1>3, <1>4, <1>5, <1>6 DEF Leave, Running, EntriesInv, EntriesOK,
       EntryOK, TypeOK
  <2>2. CASE file' = console
    BY <2>2, <1>1, <1>2, <1>3, <1>4, <1>5, <1>6 DEF Leave, Running, EntriesInv, EntriesOK,
       EntryOK, TypeOK
  <2>3. CASE saving.at = "writing" /\ file' = saving.entries
    BY <2>3, <1>1, <1>2, <1>3, <1>4, <1>5, <1>6 DEF Leave, Running, EntriesInv, EntriesOK,
       EntryOK, TypeOK
  <2> QED BY <2>1, <2>2, <2>3, <1>1, <1>2, <1>3, <1>4, <1>5, <1>6
<1>9. OrderInv'
  BY <1>1, <1>2, <1>3, <1>4, <1>5, <1>6 DEF Leave, Running, OrderInv, OrderOK, TypeOK
<1>10. TruthInv'
  <2> SUFFICES ASSUME NEW d \in Commands PROVE TruthOK(d)'
    BY DEF TruthInv
  <2>1. CASE file' = file
    BY <2>1, <1>1, <1>2, <1>3, <1>4, <1>5, <1>6, CommandsAssumption DEF Leave, Running,
       TruthInv, TruthOK, TrueEntry, Unsent, StillPending, TypeOK
  <2>2. CASE file' = console
    BY <2>2, <1>1, <1>2, <1>3, <1>4, <1>5, <1>6, CommandsAssumption DEF Leave, Running,
       TruthInv, TruthOK, TrueEntry, Unsent, StillPending, TypeOK
  <2>3. CASE saving.at = "writing" /\ file' = saving.entries
    BY <2>3, <1>1, <1>2, <1>3, <1>4, <1>5, <1>6, CommandsAssumption DEF Leave, Running,
       TruthInv, TruthOK, TrueEntry, Unsent, StillPending, TypeOK
  <2> QED BY <2>1, <2>2, <2>3, <1>1, <1>2, <1>3, <1>4, <1>5, <1>6
<1>11. PhaseInv'
  BY <1>1, <1>2, <1>3, <1>4, <1>5, <1>6 DEF Leave, Running, PhaseInv, TypeOK
<1>12. CallInv'
  BY <1>6, CallStays DEF Leave
<1>13. JournalInv'
  BY <1>6, CallStays DEF Leave
<1> QED BY <1>7, <1>8, <1>9, <1>10, <1>11, <1>12, <1>13

LEMMA DieKeeps ==
    ASSUME IInv, limit' = limit, Die
    PROVE  IInv'
<1> USE DEF IInv, store, identity, saves, faults
<1>1. \A d \in Commands : /\ file[d].attempt \in Nat /\ console[d].attempt \in Nat
                           /\ saving.entries[d].attempt \in Nat /\ saved[d].attempt \in Nat
  BY DEF TypeOK, Entry, Saving
<1>2. /\ Blank \in [Commands -> Entry]
      /\ \A d \in Commands : Blank[d].attempt = 0 /\ Blank[d].state = "absent"
  BY BlankTyped, LimitTyped
<1>3. saving' = NoSave /\ saving'.entries = Blank /\ saving'.at = "none" /\ saving' \in Saving
  BY <1>2 DEF Die, NoSave, Saving
<1>4. call' = NoCall /\ call'.at = "none" /\ call'.command = Nothing
  BY DEF Die, NoCall
<1>5. NoCall \in Call
  BY LimitTyped DEF NoCall, Call, Outcomes
<1>6. limit.attempts \in Nat
  BY LimitTyped
<1>7. TypeOK'
  BY <1>1, <1>2, <1>3, <1>4, <1>5, <1>6 DEF Die, TypeOK, Call
<1>8. EntriesInv'
  BY <1>1, <1>2, <1>3, <1>4, <1>5, <1>6 DEF Die, EntriesInv, EntriesOK, EntryOK, TypeOK
<1>9. OrderInv'
  BY <1>1, <1>2, <1>3, <1>4, <1>5, <1>6 DEF Die, Running, OrderInv, OrderOK, TypeOK
<1>10. TruthInv'
  BY <1>1, <1>2, <1>3, <1>4, <1>5, <1>6, CommandsAssumption, CommandsAssumption DEF Die,
     Running, TruthInv, TruthOK, TrueEntry, Unsent, StillPending, TypeOK
<1>11. PhaseInv'
  BY <1>1, <1>2, <1>3, <1>4, <1>5, <1>6 DEF Die, Running, PhaseInv, TypeOK
<1>12. CallInv'
  BY <1>1, <1>2, <1>3, <1>4, <1>5, <1>6, CommandsAssumption DEF Die, Calling, CallInv
<1>13. JournalInv'
  BY <1>1, <1>2, <1>3, <1>4, <1>5, <1>6 DEF Die, JournalInv, ReceiptOK
<1> QED BY <1>7, <1>8, <1>9, <1>10, <1>11, <1>12, <1>13

LEMMA StartKeeps ==
    ASSUME IInv, limit' = limit, Start
    PROVE  IInv'
<1> USE DEF IInv, store, identity, saves, faults
<1>1. \A d \in Commands : /\ file[d].attempt \in Nat /\ console[d].attempt \in Nat
                           /\ saving.entries[d].attempt \in Nat /\ saved[d].attempt \in Nat
  BY DEF TypeOK, Entry, Saving
<1>2. /\ limit.attempts \in Nat
      /\ Blank \in [Commands -> Entry]
      /\ \A d \in Commands : Blank[d].attempt = 0 /\ Blank[d].state = "absent"
  BY BlankTyped, LimitTyped
<1>3. /\ saving = NoSave /\ saving.entries = Blank /\ saving.at = "none"
      /\ ~Running /\ saved = Blank
  BY DEF Start, PhaseInv, NoSave, Running
<1>4. /\ console' \in [Commands -> Entry]
      /\ \A d \in Commands : AsRestored(file[d], console'[d])
  BY RestoredSo DEF Start, TypeOK, AsRestored
<1>5. restarts' \in 0..limit.restarts
  BY LimitTyped DEF Start, TypeOK
<1>6. TypeOK'
  BY <1>1, <1>2, <1>3, <1>4, <1>5 DEF Start, Running, AsRestored, TypeOK, Call
<1>7. EntriesInv'
  BY <1>1, <1>2, <1>3, <1>4, <1>5 DEF Start, Running, AsRestored, EntriesInv, EntriesOK,
     EntryOK, TypeOK
<1>8. OrderInv'
  BY <1>1, <1>2, <1>3, <1>4, <1>5 DEF Start, Running, AsRestored, OrderInv, OrderOK, TypeOK
<1>9. TruthInv'
  BY <1>1, <1>2, <1>3, <1>4, <1>5, CommandsAssumption DEF Start, Running, AsRestored,
     TruthInv, TruthOK, TrueEntry, Unsent, StillPending, TypeOK
<1>10. PhaseInv'
  BY <1>1, <1>2, <1>3, <1>4, <1>5 DEF Start, Running, AsRestored, PhaseInv, TypeOK
<1>11. CallInv'
  BY <1>3, CommandsAssumption DEF Start, Running, Calling, CallInv
<1>12. JournalInv'
  BY <1>1, <1>2, <1>3, <1>4, <1>5 DEF Start, Running, AsRestored, JournalInv, ReceiptOK
<1> QED BY <1>6, <1>7, <1>8, <1>9, <1>10, <1>11, <1>12

-----------------------------------------------------------------------------
(* The theorems. *)

LEMMA NextKeeps == IInv /\ [Next]_vars => IInv'
<1>1. ASSUME IInv, limit' = limit, NEW c \in Commands, Dispatch(c) PROVE IInv'
  BY <1>1, RefusedDispatchKeeps, AcceptedDispatchKeeps
<1>2. ASSUME IInv, limit' = limit, Poll PROVE IInv'
  BY <1>2, QuietPollKeeps, SettlingPollKeeps
<1>3. ASSUME IInv, limit' = limit, Collect PROVE IInv'
  BY <1>3, FailedCollectKeeps, OtherCollectKeeps DEF Collect
<1>4. ASSUME IInv, limit' = limit, Transact PROVE IInv'
  BY <1>4, UnwrittenTransactKeeps, LostTransactKeeps, WrittenTransactKeeps DEF Transact
<1> QED BY <1>1, <1>2, <1>3, <1>4, SubmitKeeps, RetryKeeps, RefreshKeeps, CheckpointKeeps, WriteKeeps,
     WriteOtherKeeps, LeaveKeeps, DieKeeps, StartKeeps, StutterKeeps DEF Next, Loop

\* The invariant holds of every reachable state.
THEOREM Inductive == Spec => []IInv
<1>1. IInv /\ [Next]_vars => IInv'
  BY NextKeeps
<1> QED BY <1>1, InitKeeps, PTL DEF Spec

\* However often a command is retried, before or after any number of restarts, it
\* takes effect at most once and on the very state its user had loaded.
THEOREM OneEffect == Spec => []TakesEffectOnce
<1>1. IInv => TakesEffectOnce
  BY DEF IInv, JournalInv, ReceiptOK, TakesEffectOnce
<1> QED BY <1>1, Inductive, PTL

LEMMA RecordsFollow == IInv => RecordsAreTrue
<1> SUFFICES ASSUME IInv PROVE RecordsAreTrue
  OBVIOUS
<1> USE DEF IInv
<1>1. IntentSavedFirst
  <2>1. ASSUME NEW c \in Commands, Contains(journal, c) PROVE file[c].state # "absent"
    <3>1. PICK i \in DOMAIN journal : journal[i] = c
      BY <2>1 DEF Contains, TypeOK
    <3>2. file[c].attempt # 0
      BY <3>1, CommandsAssumption DEF JournalInv, ReceiptOK
    <3> QED BY <3>2 DEF EntriesInv, EntriesOK, EntryOK
  <2>2. Calling => file[call.command].attempt >= call.attempt
    <3>1. call.attempt \in Nat /\ (call.command \in Commands => file[call.command].attempt \in Nat)
      BY LimitTyped DEF TypeOK, Call, Entry
    <3> QED BY <3>1 DEF CallInv
  <2> QED BY <2>1, <2>2 DEF IntentSavedFirst
<1>2. FirstRefusalIsFinal
  BY DEF FirstRefusalIsFinal, TruthInv, TruthOK, TrueEntry, Unsent
<1>3. StaleIsUnwritten
  BY DEF StaleIsUnwritten, CallInv, Calling
<1> QED BY <1>1, <1>2, <1>3 DEF RecordsAreTrue

\* Every record of a command is true: what was saved before it was sent, that it
\* was refused, that it was stale.
THEOREM RecordsTrue == Spec => []RecordsAreTrue
  BY Inductive, RecordsFollow, PTL

-----------------------------------------------------------------------------
(***************************************************************************)
(* The commands of a plan, in the same barrier: proofs about Planning, for *)
(* any number of commands, chat turns, writes of others, failures and      *)
(* restarts.  Its names are taken through an instance, for both modules    *)
(* speak of commands and their journals.                                   *)
(*                                                                         *)
(* The argument follows the copies.  A draft is copied to the barrier, to  *)
(* a retry, to a transaction and to the disk, and a copy outlives by far   *)
(* the stores it was made from; but the stores only grow, and what a copy  *)
(* says of them stays true as long as it names the revision it means.      *)
(***************************************************************************)
CONSTANTS Writers, MaxReceipts, Limited, Sessions, PlanAttempts, Attempts, TransientLimit, MaxIds

VARIABLES scope, cleared, revision, plans, view, scopeView, draft, previous, job, slot, last,
          sent, retry, disk, turns, told, auto, tries, refused, lastAuto, used, made, bounds

P == INSTANCE PlanningInvariant WITH journal <- scope, call <- sent,
                                   Scenarios <- Limited

-----------------------------------------------------------------------------
(* What stays while the stores grow. *)

\* The assumptions on the constants, as one fact.
LEMMA Constants ==
  ASSUME P!PlanningInv
  PROVE  /\ Writers = {"user", "autopilot", "elsewhere"}
         /\ PlanAttempts \in Nat \ {0} /\ Attempts \in Nat \ {0} /\ TransientLimit \in Nat \ {0}
         /\ MaxIds \in Nat /\ MaxReceipts \in Nat /\ MaxReceipts >= 3
BY DEF P!PlanningInv, P!PlanningConstants, P!ScopeConstants

LEMMA MadeAsStays ==
  ASSUME NEW d, P!MadeAs(d), P!Grown PROVE P!MadeAs(d)'
BY DEF P!MadeAs, P!Grown

LEMMA OwnRequestStays ==
  ASSUME NEW request, P!OwnRequest(request), P!Grown PROVE P!OwnRequest(request)'
BY DEF P!OwnRequest, P!Grown

LEMMA CommandStays ==
  ASSUME NEW command, P!CommandHolds(command), P!Grown PROVE P!CommandHolds(command)'
<1>1. command.op = "save" => P!SaveHolds(command)'
  BY MadeAsStays DEF P!CommandHolds, P!SaveHolds
<1>2. command.op = "scope" => P!OwnRequest(command.request)'
  BY OwnRequestStays DEF P!CommandHolds
<1> QED BY <1>1, <1>2 DEF P!CommandHolds

LEMMA CommandOKStays ==
  ASSUME NEW command, P!CommandOK(command), P!Grown PROVE P!CommandOK(command)'
BY CommandStays DEF P!CommandOK

LEMMA ScopeFrame == P!ScopeInv /\ UNCHANGED P!scopeVars => P!ScopeInv'
BY DEF P!ScopeInv, P!scopeVars, P!ScopeTypeOK, P!Coherent, P!OthersDecide, P!RoomToAgree, P!Pending,
       P!HasBrief, P!Confirmed, P!Placeholder, P!DraftRevision

LEMMA ToldFrame == P!ToldInv /\ P!Grown /\ UNCHANGED told => P!ToldInv'
BY DEF P!ToldInv, P!Grown, P!ToldIsWritten, P!Receipted

LEMMA ViewsFrame ==
  ASSUME P!ScopeInv, P!ScopeInv', P!ViewsInv, revision' \in Nat, P!Grown,
         UNCHANGED P!loaded PROVE P!ViewsInv'
BY DEF P!ViewsInv, P!Grown, P!loaded, P!ScopeInv, P!ScopeTypeOK

LEMMA ConsoleFrame == P!ConsoleInv /\ P!Grown /\ UNCHANGED <<slot, last>> => P!ConsoleInv'
<1> SUFFICES ASSUME P!ConsoleInv, P!Grown, slot' = slot, last' = last PROVE P!ConsoleInv'
  OBVIOUS
<1>1. PICK s, l : s = slot /\ l = last
  OBVIOUS
<1>2. P!CommandOK(s)' /\ P!CommandOK(l)'
  BY <1>1, CommandOKStays DEF P!ConsoleInv
<1> QED BY <1>1, <1>2 DEF P!ConsoleInv, P!CommandOK, P!CommandHolds, P!SaveHolds, P!OwnRequest,
               P!MadeAs

LEMMA CallFrame ==
  ASSUME P!CallInv, P!Grown, UNCHANGED sent, revision \in Nat, revision' \in Nat, P!ScopeInv,
         P!ScopeInv'
  PROVE  P!CallInv'
<1>1. PICK c : c = sent.command
  OBVIOUS
<1>2. P!CommandHolds(c)'
  BY <1>1, CommandStays DEF P!CallInv
<1>3. P!CommandHolds(sent.command)'
  BY <1>1, <1>2 DEF P!CommandHolds, P!SaveHolds, P!OwnRequest, P!MadeAs
<1>4. sent.seen \in Nat /\ sent.scopeSeen \in Nat
  BY DEF P!CallInv, P!Calls, P!NoCall
<1> QED BY <1>3, <1>4 DEF P!CallInv, P!Grown, P!ScopeInv, P!ScopeTypeOK

LEMMA TurnStays ==
  ASSUME NEW turn, P!TurnOK(turn), P!Grown, P!ScopeInv, P!ScopeInv' PROVE P!TurnOK(turn)'
BY DEF P!TurnOK, P!Grown, P!ScopeInv, P!ScopeTypeOK, P!Turns

LEMMA TurnsFrame == P!TurnsInv /\ P!Grown /\ P!ScopeInv /\ P!ScopeInv' /\ UNCHANGED turns
                     => P!TurnsInv'
BY TurnStays DEF P!TurnsInv, P!TurnOK

LEMMA PlannerFrame ==
  ASSUME P!PlannerInv, P!Grown, UNCHANGED <<P!planner, disk, made>> PROVE P!PlannerInv'
BY DEF P!PlannerInv, P!Grown, P!PlannerTypeOK, P!Active, P!MadeAs, P!planner

LEMMA JobFrame ==
  ASSUME P!JobInv, P!Grown, P!PlannerTypeOK, revision \in Nat, revision' \in Nat, UNCHANGED job
  PROVE  P!JobInv'
BY DEF P!JobInv, P!Grown, P!PlannerTypeOK, P!Jobs

LEMMA PlansFrame ==
  ASSUME P!PlansInv, P!Grown, UNCHANGED plans PROVE P!PlansInv'
BY DEF P!PlansInv, P!Grown, P!PublishedAsPlanned

LEMMA LoopFrame == P!LoopInv /\ UNCHANGED <<auto, refused>> => P!LoopInv'
BY DEF P!LoopInv, P!LoopTypeOK, P!Planned

\* The parts of the invariant that a step need not look at.
LEMMA Frames ==
  ASSUME P!PlanningInv, P!Grown, P!ScopeInv', revision' \in Nat
  PROVE  /\ UNCHANGED told => P!ToldInv'
         /\ UNCHANGED P!loaded => P!ViewsInv'
         /\ UNCHANGED <<slot, last>> => P!ConsoleInv'
         /\ UNCHANGED sent => P!CallInv'
         /\ UNCHANGED retry => P!RetryInv'
         /\ UNCHANGED turns => P!TurnsInv'
         /\ slot' = P!NoCommand \/ UNCHANGED <<slot, turns>> => P!WaitingInv'
         /\ UNCHANGED <<P!planner, disk, made>> => P!PlannerInv'
         /\ UNCHANGED job => P!JobInv'
         /\ UNCHANGED plans => P!PlansInv'
         /\ UNCHANGED <<auto, refused>> => P!LoopInv'
<1>0. /\ P!ScopeInv /\ P!ToldInv /\ P!ViewsInv /\ P!ConsoleInv /\ P!CallInv /\ P!RetryInv
      /\ P!TurnsInv /\ P!PlannerInv /\ P!JobInv /\ P!PlansInv /\ P!LoopInv
  BY DEF P!PlanningInv
<1>1. revision \in Nat /\ P!PlannerTypeOK
  BY <1>0 DEF P!ViewsInv, P!PlannerInv
<1>2. /\ UNCHANGED retry => P!RetryInv'
      /\ slot' = P!NoCommand \/ UNCHANGED <<slot, turns>> => P!WaitingInv'
  BY <1>0 DEF P!RetryInv, P!WaitingInv, P!NoCommand, P!PlanningInv
<1>3. /\ UNCHANGED told => P!ToldInv'
      /\ UNCHANGED P!loaded => P!ViewsInv'
      /\ UNCHANGED <<slot, last>> => P!ConsoleInv'
      /\ UNCHANGED sent => P!CallInv'
  BY <1>0, <1>1, ToldFrame, ViewsFrame, ConsoleFrame, CallFrame
<1>4. /\ UNCHANGED turns => P!TurnsInv'
      /\ UNCHANGED <<P!planner, disk, made>> => P!PlannerInv'
      /\ UNCHANGED job => P!JobInv'
      /\ UNCHANGED plans => P!PlansInv'
      /\ UNCHANGED <<auto, refused>> => P!LoopInv'
  BY <1>0, <1>1, TurnsFrame, PlannerFrame, JobFrame, PlansFrame, LoopFrame
<1> QED BY <1>2, <1>3, <1>4

\* A step that writes no store.
LEMMA StoresSame ==
  ASSUME P!PlanningInv, UNCHANGED <<P!scopeVars, revision, made>>
  PROVE  P!Grown /\ P!ScopeInv' /\ revision' \in Nat
<1>1. P!ScopeInv /\ P!ViewsInv /\ P!PlannerInv
  BY DEF P!PlanningInv
<1>2. revision \in Nat /\ Len(scope) \in Nat
  BY <1>1 DEF P!ViewsInv, P!ScopeInv, P!ScopeTypeOK
<1>3. P!ScopeInv'
  BY <1>1, ScopeFrame
<1> QED BY <1>2, <1>3 DEF P!Grown, P!scopeVars

LEMMA CountFrame ==
  ASSUME P!PlanningInv, bounds' = bounds,
         used' = used \/ (used < MaxIds /\ used' = used + 1)
  PROVE  P!CountInv'
BY Constants DEF P!PlanningInv, P!CountInv

LEMMA SpendCounts ==
  ASSUME P!PlanningInv,
         NEW what \in {"typed", "spoken", "driven", "others", "faults", "crashes"}, P!Spend(what),
         used' = used \/ (used < MaxIds /\ used' = used + 1)
  PROVE  P!CountInv'
<1>1. used' \in 0..MaxIds
  BY Constants DEF P!PlanningInv, P!CountInv
<1>2. bounds' \in P!Limits
  BY DEF P!PlanningInv, P!CountInv, P!Spend, P!Limits
<1> QED BY <1>1, <1>2 DEF P!CountInv

LEMMA Crashed ==
  ASSUME P!PlanningInv, P!Spend("crashes") PROVE bounds'.crashes # bounds.crashes
BY DEF P!PlanningInv, P!CountInv, P!Spend, P!Limits

\* What a step that keeps the draft shows.
LEMMA KeptStays ==
  ASSUME UNCHANGED <<draft, previous>> PROVE ~(P!Kept' # P!Kept)
BY DEF P!Kept

-----------------------------------------------------------------------------
(* Commands by their kind. *)

LEMMA Kinds ==
  ASSUME NEW command \in P!Commands \cup {P!NoCommand}
  PROVE  /\ command.op = "none" <=> command = P!NoCommand
         /\ command.op \in {"plan", "revise"} <=> command \in P!PlanCommands
         /\ command.op = "cancel" <=> command \in P!CancelCommands
         /\ command.op = "save" <=> command \in P!SaveCommands
         /\ command.op = "scope" <=> command \in P!ScopeCommands
         /\ command.op = "turn" <=> command \in P!TurnCommands
BY DEF P!Commands, P!PlanCommands, P!CancelCommands, P!SaveCommands, P!ScopeCommands,
       P!TurnCommands, P!NoCommand

LEMMA NoCommandOK == P!CommandOK(P!NoCommand)
BY DEF P!CommandOK, P!CommandHolds, P!NoCommand

\* A command that was saved is the same command.
LEMMA SavedOK ==
  ASSUME NEW command, command # P!NoCommand, P!CommandOK(command)
  PROVE  P!CommandOK([command EXCEPT !.saved = TRUE])
<1> DEFINE c == [command EXCEPT !.saved = TRUE]
<1>1. command \in P!Commands /\ P!CommandHolds(command)
  BY DEF P!CommandOK
<1>2. CASE command \in P!PlanCommands
  <2>1. c \in P!PlanCommands
    BY <1>2 DEF P!PlanCommands
  <2> QED BY <2>1 DEF P!CommandOK, P!Commands, P!CommandHolds, P!PlanCommands
<1>3. CASE command \in P!CancelCommands
  <2>1. c \in P!CancelCommands
    BY <1>3 DEF P!CancelCommands
  <2> QED BY <2>1 DEF P!CommandOK, P!Commands, P!CommandHolds, P!CancelCommands
<1>4. CASE command \in P!SaveCommands
  <2>1. c \in P!SaveCommands /\ c.draft = command.draft /\ c.expected = command.expected
    BY <1>4 DEF P!SaveCommands
  <2>2. P!SaveHolds(command) /\ c.op = "save"
    BY <1>1, <1>4, <2>1 DEF P!SaveCommands, P!CommandHolds
  <2>3. P!SaveHolds(c)
    BY <2>1, <2>2 DEF P!SaveHolds
  <2> HIDE DEF c
  <2>4. P!CommandOK(c)
    BY <2>1, <2>2, <2>3 DEF P!CommandOK, P!Commands, P!CommandHolds
  <2> QED BY <2>4 DEF c
<1>5. CASE command \in P!ScopeCommands
  <2>1. c \in P!ScopeCommands /\ c.request = command.request
    BY <1>5 DEF P!ScopeCommands
  <2>2. P!OwnRequest(command.request) /\ c.op = "scope"
    BY <1>1, <1>5, <2>1 DEF P!ScopeCommands, P!CommandHolds
  <2> HIDE DEF c
  <2>4. P!CommandOK(c)
    BY <2>1, <2>2 DEF P!CommandOK, P!Commands, P!CommandHolds
  <2> QED BY <2>4 DEF c
<1>6. CASE command \in P!TurnCommands
  <2>1. c \in P!TurnCommands /\ c.request = command.request
    BY <1>6 DEF P!TurnCommands
  <2>2. c.id = command.id /\ c.op = "turn"
        /\ command.request.by = "user" /\ command.request.id = command.id
    BY <1>1, <1>6, <2>1 DEF P!TurnCommands, P!CommandHolds
  <2> HIDE DEF c
  <2>4. P!CommandOK(c)
    BY <2>1, <2>2 DEF P!CommandOK, P!Commands, P!CommandHolds
  <2> QED BY <2>4 DEF c
<1> QED BY <1>1, <1>2, <1>3, <1>4, <1>5, <1>6 DEF P!Commands

\* The place of a command that a step puts down keeps what it holds.
LEMMA PlacesOK ==
  ASSUME P!Grown, NEW s, NEW l, P!CommandOK(s), P!CommandOK(l), slot' = s, last' = l
  PROVE  P!ConsoleInv'
<1>1. P!CommandOK(s)' /\ P!CommandOK(l)'
  BY CommandOKStays
<1> QED BY <1>1 DEF P!ConsoleInv, P!CommandOK, P!CommandHolds, P!SaveHolds, P!OwnRequest, P!MadeAs

\* The same for a transaction.
LEMMA CallOK ==
  ASSUME P!Grown, NEW c \in P!Calls \cup {P!NoCall}, P!CommandHolds(c.command), sent' = c,
         c.seen <= revision', c.scopeSeen <= Len(scope')
  PROVE  P!CallInv'
<1>1. PICK d : d = c.command
  OBVIOUS
<1>2. P!CommandHolds(d)'
  BY <1>1, CommandStays
<1> QED BY <1>1, <1>2 DEF P!CallInv, P!CommandHolds, P!SaveHolds, P!OwnRequest, P!MadeAs

\* A turn in place of another.
LEMMA SetTurnOK ==
  ASSUME P!PlanningInv, P!Grown, P!ScopeInv', NEW s \in Sessions,
         NEW turn \in P!Turns \cup {P!NoTurn},
         P!TurnOK(turn)', P!SetTurn(s, turn)
  PROVE  P!TurnsInv'
<1>1. P!TurnsInv /\ P!ScopeInv
  BY DEF P!PlanningInv
<1>2. turns' \in [Sessions -> P!Turns \cup {P!NoTurn}]
  BY <1>1 DEF P!TurnsInv, P!SetTurn
<1>3. ASSUME NEW r \in Sessions PROVE P!TurnOK(turns[r])'
  <2>1. CASE r = s
    <3>1. turns'[r] = turn
      BY <1>1, <2>1 DEF P!TurnsInv, P!SetTurn
    <3> QED BY <3>1 DEF P!TurnOK
  <2>2. CASE r # s
    <3>1. PICK t : t = turns[r]
      OBVIOUS
    <3>2. turns'[r] = t /\ P!TurnOK(t)
      BY <1>1, <2>2, <3>1 DEF P!TurnsInv, P!SetTurn
    <3>3. P!TurnOK(t)'
      BY <1>1, <3>2, TurnStays
    <3> QED BY <3>2, <3>3 DEF P!TurnOK
  <2> QED BY <2>1, <2>2
<1> QED BY <1>2, <1>3 DEF P!TurnsInv, P!TurnOK

LEMMA NoTurnOK == P!TurnOK(P!NoTurn)' /\ P!TurnOK(P!NoTurn)
BY DEF P!TurnOK

-----------------------------------------------------------------------------
(* The planner. *)

\* The generation moves on over the same drafts.
LEMMA JobMoves ==
  ASSUME P!PlanningInv, P!Active, P!JobStep, UNCHANGED made,
         bounds' = bounds \/ P!Spend("faults"),
         job'.at # "none", P!JobInv',
         job' \in P!Jobs
  PROVE  P!PlanningInv'
<1>1. P!Grown /\ P!ScopeInv' /\ revision' \in Nat
  BY StoresSame DEF P!JobStep, P!stores
<1>2. P!PlannerInv'
  BY <1>1 DEF P!PlanningInv, P!PlannerInv, P!PlannerTypeOK, P!MadeAs, P!Active, P!JobStep, P!console
<1>3. P!CountInv'
  BY CountFrame, SpendCounts DEF P!JobStep
<1> QED BY <1>1, <1>2, <1>3, Frames
           DEF P!PlanningInv, P!JobStep, P!stores, P!loaded, P!console, P!calls, P!chat, P!loop

LEMMA JobFacts ==
  ASSUME P!PlanningInv
  PROVE  /\ job \in P!Jobs
         /\ P!JobInv /\ revision \in Nat /\ Len(scope) \in 0..MaxReceipts
BY Constants DEF P!PlanningInv, P!PlannerInv, P!PlannerTypeOK, P!ViewsInv, P!ScopeInv, P!ScopeTypeOK

LEMMA CheckRevisionStep == ASSUME P!PlanningInv, P!CheckRevision PROVE P!PlanningInv'
<1>1. /\ job'.at \in {"scope", "bad"} /\ (job'.at = "scope" => job'.expected = revision)
      /\ job' \in P!Jobs
  BY JobFacts DEF P!CheckRevision, P!Jobs
<1>2. P!JobInv'
  BY <1>1, JobFacts DEF P!JobInv, P!CheckRevision, P!JobStep, P!stores
<1> QED BY <1>1, <1>2, JobMoves DEF P!CheckRevision, P!Active

LEMMA CaptureScopeStep == ASSUME P!PlanningInv, P!CaptureScope PROVE P!PlanningInv'
<1>1. /\ job'.at = "admit" /\ job'.found = revision /\ job'.expected = job.expected
      /\ job' \in P!Jobs
  BY JobFacts DEF P!CaptureScope, P!Jobs
<1>2. P!JobInv'
  BY <1>1, JobFacts DEF P!JobInv, P!CaptureScope, P!JobStep, P!stores
<1> QED BY <1>1, <1>2, JobMoves DEF P!CaptureScope, P!Active

LEMMA AdmitModelStep == ASSUME P!PlanningInv, P!AdmitModel PROVE P!PlanningInv'
<1>1. /\ job'.at \in {"model", "bad"} /\ (job'.at = "model" => job'.expected = revision)
      /\ job'.found = job.found /\ job'.expected = job.expected
      /\ job' \in P!Jobs
  BY JobFacts DEF P!AdmitModel, P!Jobs
<1>2. P!JobInv'
  BY <1>1, JobFacts DEF P!JobInv, P!AdmitModel, P!JobStep, P!stores, P!Jobs
<1> QED BY <1>1, <1>2, JobMoves DEF P!AdmitModel, P!Active

LEMMA ReplyStep == ASSUME P!PlanningInv, P!Reply PROVE P!PlanningInv'
<1>1. /\ job'.at \in {"good", "bad", "admit"}
      /\ job'.found = job.found /\ job'.expected = job.expected
      /\ job' \in P!Jobs
  BY JobFacts DEF P!Reply, P!Jobs
<1>2. P!JobInv'
  BY <1>1, JobFacts DEF P!JobInv, P!Reply, P!JobStep, P!stores
<1>3. bounds' = bounds \/ P!Spend("faults")
  BY DEF P!Reply
<1> QED BY <1>1, <1>2, <1>3, JobMoves DEF P!Reply, P!Active

\* A generation that stops hands its earlier draft back.
LEMMA StopOK ==
  ASSUME P!PlanningInv, P!Grown, P!StopGeneration, UNCHANGED <<disk, made>>
  PROVE  P!PlannerInv' /\ P!JobInv'
<1>1. P!PlannerInv /\ P!NoDraft \in P!Drafts
  BY Constants DEF P!PlanningInv, P!Drafts, P!NoDraft
<1>2. draft' \in {draft, previous} /\ previous' = P!NoDraft /\ job' = P!NoJob /\ disk' = disk
  BY DEF P!StopGeneration, P!HandedBack
<1>3. P!NoJob \in P!Jobs
  BY Constants DEF P!NoJob, P!Jobs
<1>4. P!PlannerTypeOK'
  BY <1>1, <1>2, <1>3 DEF P!PlannerInv, P!PlannerTypeOK, P!NoJob
<1>5. P!MadeAs(draft)' /\ P!MadeAs(previous)' /\ P!MadeAs(disk)'
  BY <1>1, <1>2 DEF P!PlannerInv, P!MadeAs
<1>6. P!PlannerInv'
  BY <1>2, <1>4, <1>5 DEF P!PlannerInv, P!Active, P!NoJob
<1> QED BY <1>2, <1>6 DEF P!JobInv, P!NoJob

LEMMA PollPlannerStep == ASSUME P!PlanningInv, P!PollPlanner PROVE P!PlanningInv'
<1>0. P!PlannerInv /\ P!JobInv /\ P!PlansInv /\ P!ScopeInv
  BY DEF P!PlanningInv
<1>1. CASE job.at # "good"
  <2>1. P!Grown /\ P!ScopeInv' /\ revision' \in Nat
    BY <1>1, StoresSame DEF P!PollPlanner, P!stores
  <2>2. P!PlannerInv' /\ P!JobInv'
    BY <1>1, <2>1, StopOK DEF P!PollPlanner, P!console
  <2> QED BY <2>1, <2>2, Frames, CountFrame
             DEF P!PlanningInv, P!PollPlanner, P!stores, P!loaded, P!console, P!calls, P!chat,
                 P!loop
<1>2. CASE job.at = "good"
  <2> DEFINE note == [revision |-> job.found, scope |-> job.scope]
  <2>1. made \in Seq([revision : Nat, scope : 0..MaxReceipts])
        /\ note \in [revision : Nat, scope : 0..MaxReceipts]
    BY <1>0, JobFacts DEF P!PlannerInv, P!PlannerTypeOK, P!Jobs
  <2>2. made' = Append(made, note)
    BY <1>2 DEF P!PollPlanner
  <2>3. /\ made' \in Seq([revision : Nat, scope : 0..MaxReceipts])
        /\ Len(made') = Len(made) + 1 /\ made'[Len(made')] = note /\ Len(made') \in DOMAIN made'
        /\ \A i \in DOMAIN made : i \in DOMAIN made' /\ made'[i] = made[i]
    BY <2>1, <2>2
  <2>4. UNCHANGED <<scope, cleared, revision, disk>>
    BY DEF P!PollPlanner, P!scopeVars, P!stores, P!console
  <2>5. P!Grown /\ P!ScopeInv' /\ revision' \in Nat
    <3>1. P!ScopeInv'
      BY <1>0, <2>4, ScopeFrame DEF P!scopeVars
    <3> QED BY <2>3, <2>4, <3>1, JobFacts DEF P!Grown
  <2>6. job.found = job.expected /\ job.found \in Nat /\ job.scope \in 0..MaxReceipts
    BY <1>0, <1>2, JobFacts DEF P!JobInv, P!Jobs
  <2>7. draft' = [number |-> Len(made'), revision |-> job.expected, scope |-> job.scope,
                  origin |-> job.origin]
        /\ previous' = P!NoDraft /\ job' = P!NoJob
    BY <1>2 DEF P!PollPlanner
  <2>8. P!MadeAs(draft)'
    BY <2>3, <2>6, <2>7 DEF P!MadeAs
  <2>9. P!MadeAs(disk)' /\ P!MadeAs(previous)'
    BY <1>0, <2>3, <2>4, <2>7 DEF P!PlannerInv, P!MadeAs
  <2>10. draft' \in P!Drafts /\ P!NoDraft \in P!Drafts /\ Len(made') \in Nat
    BY <2>1, <2>3, <2>6, <2>7, JobFacts, Constants DEF P!Drafts, P!NoDraft, P!Jobs
  <2>11. P!NoJob \in P!Jobs
    BY Constants DEF P!NoJob, P!Jobs
  <2>12. P!PlannerTypeOK'
    BY <1>0, <2>3, <2>4, <2>7, <2>10, <2>11 DEF P!PlannerInv, P!PlannerTypeOK
  <2>13. P!PlannerInv' /\ P!JobInv'
    BY <2>7, <2>8, <2>9, <2>12 DEF P!PlannerInv, P!JobInv, P!Active, P!NoJob
  <2> QED BY <2>5, <2>13, Frames, CountFrame
             DEF P!PlanningInv, P!PollPlanner, P!stores, P!loaded, P!console, P!calls, P!chat,
                 P!loop
<1> QED BY <1>1, <1>2

-----------------------------------------------------------------------------
(* What the user types. *)

LEMMA Views ==
  ASSUME P!PlanningInv
  PROVE  /\ view \in Nat /\ revision \in Nat /\ scopeView \in 0..Len(scope)
         /\ scope \in Seq(P!Receipt) /\ Len(scope) \in 0..MaxReceipts
         /\ used \in 0..MaxIds
BY Constants DEF P!PlanningInv, P!ViewsInv, P!ScopeInv, P!ScopeTypeOK, P!CountInv

LEMMA TypedStep ==
  ASSUME P!PlanningInv, NEW command, command.op # "turn", P!CommandOK(command), P!Typed(command)
  PROVE  P!PlanningInv'
<1>1. P!Grown /\ P!ScopeInv' /\ revision' \in Nat
  BY StoresSame DEF P!Typed, P!stores
<1>2. P!ConsoleInv'
  BY <1>1, PlacesOK DEF P!Typed, P!Submit
<1>3. P!CountInv' /\ P!WaitingInv'
  BY SpendCounts DEF P!Typed, P!WaitingInv, P!Submit
<1> QED BY <1>1, <1>2, <1>3, Frames
           DEF P!PlanningInv, P!Typed, P!Submit, P!planner, P!stores, P!loaded, P!calls, P!chat,
               P!loop

LEMMA KeptDraft ==
  ASSUME P!PlanningInv
  PROVE  P!Kept \in P!Drafts /\ P!Kept.number \in Nat /\ (~P!Active => P!Kept = draft)
BY DEF P!PlanningInv, P!PlannerInv, P!PlannerTypeOK, P!Kept, P!Drafts

LEMMA PlanCommandOK ==
  ASSUME P!PlanningInv, used < MaxIds, NEW by \in {"user", "autopilot"}
  PROVE  /\ P!CommandOK(P!PlanCommand(by)) /\ P!PlanCommand(by).op = "plan"
         /\ P!CommandOK([P!PlanCommand(by) EXCEPT !.op = "revise"])
         /\ [P!PlanCommand(by) EXCEPT !.op = "revise"].op = "revise"
<1>1. used + 1 \in 1..MaxIds
  BY Views, Constants
<1>2. /\ P!PlanCommand(by) \in P!PlanCommands /\ P!PlanCommand(by).op = "plan"
      /\ [P!PlanCommand(by) EXCEPT !.op = "revise"] \in P!PlanCommands
      /\ [P!PlanCommand(by) EXCEPT !.op = "revise"].op = "revise"
  BY <1>1, Views, KeptDraft DEF P!PlanCommand, P!PlanCommands
<1> QED BY <1>2 DEF P!CommandOK, P!Commands, P!CommandHolds

LEMMA SaveCommandOK ==
  ASSUME P!PlanningInv, used < MaxIds, NEW by \in {"user", "autopilot"}, draft # P!NoDraft
  PROVE  P!CommandOK(P!SaveCommand(by)) /\ P!SaveCommand(by).op = "save"
<1>1. used + 1 \in 1..MaxIds /\ draft \in P!Drafts /\ P!MadeAs(draft)
  BY Views, Constants DEF P!PlanningInv, P!PlannerInv, P!PlannerTypeOK
<1>2. P!SaveCommand(by) \in P!SaveCommands /\ P!SaveCommand(by).op = "save"
      /\ P!SaveCommand(by).draft = draft /\ P!SaveCommand(by).expected = draft.revision
  BY <1>1 DEF P!SaveCommand, P!SaveCommands, P!DraftedRevision, P!Drafts
<1> QED BY <1>1, <1>2 DEF P!CommandOK, P!Commands, P!CommandHolds, P!SaveHolds

LEMMA ScopeCommandOK ==
  ASSUME P!PlanningInv, NEW request \in P!ScopeRequests, request.by \in {"user", "autopilot"},
         P!OwnRequest(request)
  PROVE  P!CommandOK(P!ScopeCommand(request)) /\ P!ScopeCommand(request).op = "scope"
<1>1. P!ScopeCommand(request) \in P!ScopeCommands /\ P!ScopeCommand(request).op = "scope"
      /\ P!ScopeCommand(request).request = request
  BY DEF P!ScopeCommand, P!ScopeCommands, P!ScopeRequests
<1> QED BY <1>1 DEF P!CommandOK, P!Commands, P!CommandHolds

LEMMA ScopeRequestOK ==
  ASSUME P!PlanningInv, used < MaxIds, NEW action \in P!Actions, NEW by \in Writers, NEW e \in Nat
  PROVE  /\ P!ScopeRequest(used + 1, action, by, e) \in P!ScopeRequests
         /\ P!ScopeRequest(used + 1, action, by, e).by = by
         /\ P!ScopeRequest(used + 1, action, by, e).action = action
         /\ P!ScopeRequest(used + 1, action, by, e).expected = e
BY Views, Constants DEF P!ScopeRequest, P!ScopeRequests

LEMMA UserPlanStep == ASSUME P!PlanningInv, P!UserPlan PROVE P!PlanningInv'
BY PlanCommandOK, TypedStep DEF P!UserPlan, P!Typed

LEMMA UserReviseStep == ASSUME P!PlanningInv, P!UserRevise PROVE P!PlanningInv'
BY PlanCommandOK, TypedStep DEF P!UserRevise, P!Typed

LEMMA UserCancelStep == ASSUME P!PlanningInv, P!UserCancel PROVE P!PlanningInv'
<1> DEFINE c == [op |-> "cancel", id |-> used + 1, by |-> "user", saved |-> FALSE,
                 generation |-> job.origin, base |-> P!Kept.number]
<1>1. P!Typed(c) /\ used < MaxIds
  BY DEF P!UserCancel, P!Typed
<1>2. c \in P!CancelCommands
  BY <1>1, Views, Constants, KeptDraft, JobFacts DEF P!CancelCommands, P!Jobs
<1>3. P!CommandOK(c) /\ c.op = "cancel"
  BY <1>2 DEF P!CommandOK, P!Commands, P!CommandHolds
<1> QED BY <1>1, <1>3, TypedStep

LEMMA UserSaveStep == ASSUME P!PlanningInv, P!UserSave PROVE P!PlanningInv'
BY SaveCommandOK, TypedStep DEF P!UserSave, P!Typed

LEMMA UserScopeStep ==
  ASSUME P!PlanningInv, NEW action \in P!Actions, P!UserScope(action) PROVE P!PlanningInv'
<1> DEFINE r == P!ScopeRequest(used + 1, action, "user", scopeView)
<1>1. r \in P!ScopeRequests /\ r.by = "user" /\ P!Typed(P!ScopeCommand(r))
  <2>1. P!Typed(P!ScopeCommand(r)) /\ used < MaxIds
    BY DEF P!UserScope, P!Typed
  <2>2. "user" \in Writers /\ scopeView \in Nat
    BY Views, Constants
  <2> QED BY <2>1, <2>2, ScopeRequestOK
<1>2. P!OwnRequest(r)
  BY <1>1 DEF P!OwnRequest
<1> HIDE DEF r
<1> QED BY <1>1, <1>2, ScopeCommandOK, TypedStep

LEMMA RetryStep == ASSUME P!PlanningInv, P!Retry PROVE P!PlanningInv'
<1>1. P!Grown /\ P!ScopeInv' /\ revision' \in Nat
  BY StoresSame DEF P!Retry, P!stores
<1>2. P!ConsoleInv'
  BY <1>1, PlacesOK DEF P!Retry, P!PlanningInv, P!ConsoleInv
<1>3. P!CountInv'
  BY SpendCounts DEF P!Retry
<1>4. P!WaitingInv'
  BY DEF P!Retry, P!WaitingInv
<1> QED BY <1>1, <1>2, <1>3, <1>4, Frames
           DEF P!PlanningInv, P!Retry, P!planner, P!stores, P!loaded, P!calls, P!chat, P!loop

-----------------------------------------------------------------------------
(* The barrier. *)

LEMMA KeptMade == ASSUME P!PlanningInv PROVE P!MadeAs(P!Kept)
BY DEF P!PlanningInv, P!PlannerInv, P!Kept

LEMMA SaveConversationStep == ASSUME P!PlanningInv, P!SaveConversation PROVE P!PlanningInv'
<1>1. P!Grown /\ P!ScopeInv' /\ revision' \in Nat
  BY StoresSame DEF P!SaveConversation, P!stores
<1>2. P!CommandOK(slot') /\ P!CommandOK(last)
  <2>1. P!CommandOK(slot) /\ P!CommandOK(last)
    BY DEF P!PlanningInv, P!ConsoleInv
  <2> QED BY <2>1, SavedOK DEF P!SaveConversation
<1>3. P!ConsoleInv'
  <2>1. PICK s, l : s = slot' /\ l = last
    OBVIOUS
  <2> QED BY <1>1, <1>2, <2>1, PlacesOK DEF P!SaveConversation
<1>4. P!PlannerInv'
  <2>1. UNCHANGED <<draft, previous, job, made>> /\ disk' = P!Kept
    BY DEF P!SaveConversation, P!planner
  <2>2. P!MadeAs(disk)'
    BY <2>1, KeptMade DEF P!MadeAs
  <2> QED BY <2>1, <2>2, KeptDraft
             DEF P!PlanningInv, P!PlannerInv, P!PlannerTypeOK, P!Active, P!MadeAs
<1>5. P!WaitingInv'
  <2>1. slot = P!NoCommand \/ slot \in P!Commands
    BY DEF P!PlanningInv, P!ConsoleInv, P!CommandOK
  <2>2. CASE slot \in P!TurnCommands
    BY <2>2 DEF P!SaveConversation, P!WaitingInv, P!PlanningInv, P!TurnCommands, P!chat
  <2>3. CASE slot' = slot
    BY <1>1, <2>3, Frames DEF P!SaveConversation, P!chat
  <2>4. CASE slot' = [slot EXCEPT !.saved = TRUE] /\ slot \in P!Commands
             /\ slot \notin P!TurnCommands
    <3>1. slot'.op # "turn"
      BY <2>4, Kinds DEF P!Commands, P!PlanCommands, P!CancelCommands, P!SaveCommands,
             P!ScopeCommands
    <3> QED BY <3>1 DEF P!WaitingInv
  <2> QED BY <2>1, <2>2, <2>3, <2>4 DEF P!SaveConversation
<1> QED BY <1>1, <1>3, <1>4, <1>5, Frames, CountFrame
           DEF P!PlanningInv, P!SaveConversation, P!planner, P!stores, P!loaded, P!calls, P!chat,
               P!loop

\* The barrier is emptied.
LEMMA Emptied ==
  ASSUME P!PlanningInv, P!Grown, slot' = P!NoCommand, last' = last PROVE P!ConsoleInv'
BY NoCommandOK, PlacesOK DEF P!PlanningInv, P!ConsoleInv

LEMMA DispatchPlanStep == ASSUME P!PlanningInv, P!DispatchPlan PROVE P!PlanningInv'
<1>1. P!Grown /\ P!ScopeInv' /\ revision' \in Nat
  BY StoresSame DEF P!DispatchPlan, P!stores
<1>2. P!ConsoleInv'
  BY <1>1, Emptied DEF P!DispatchPlan
<1>3. P!PlannerInv' /\ P!JobInv'
  <2>1. CASE P!Generates
    <3>1. slot \in P!PlanCommands
      BY Kinds DEF P!DispatchPlan, P!Saved, P!PlanningInv, P!ConsoleInv, P!CommandOK
    <3>2. /\ job' = [P!NoJob EXCEPT !.at = "check", !.origin = slot.id, !.expected = slot.expected]
          /\ previous' \in {draft, P!NoDraft} /\ draft' = P!NoDraft /\ UNCHANGED <<disk, made>>
      BY <2>1 DEF P!DispatchPlan
    <3>3. /\ job' \in P!Jobs
          /\ job'.at = "check"
      <4>1. slot.id \in 0..MaxIds /\ slot.expected \in Nat /\ 0 \in 0..MaxReceipts /\ 0 \in Nat
        BY <3>1, Constants DEF P!PlanCommands
      <4>2. job' = [at |-> "check", origin |-> slot.id, expected |-> slot.expected,
                    scope |-> 0, found |-> 0]
        BY <3>2 DEF P!NoJob
      <4> QED BY <4>1, <4>2 DEF P!Jobs
    <3>4. P!NoDraft \in P!Drafts /\ P!PlannerInv
      BY Constants DEF P!NoDraft, P!Drafts, P!PlanningInv
    <3>5. P!PlannerTypeOK'
      BY <3>2, <3>3, <3>4 DEF P!PlannerInv, P!PlannerTypeOK
    <3>6. P!MadeAs(draft)' /\ P!MadeAs(previous)' /\ P!MadeAs(disk)'
      BY <3>2, <3>4 DEF P!PlannerInv, P!MadeAs
    <3> QED BY <3>2, <3>3, <3>5, <3>6 DEF P!PlannerInv, P!JobInv, P!Active
  <2>2. CASE ~P!Generates
    BY <1>1, <2>2, Frames DEF P!DispatchPlan, P!planner
  <2> QED BY <2>1, <2>2
<1> QED BY <1>1, <1>2, <1>3, Frames, CountFrame
           DEF P!PlanningInv, P!DispatchPlan, P!stores, P!loaded, P!calls, P!chat, P!loop

LEMMA DispatchCancelStep == ASSUME P!PlanningInv, P!DispatchCancel PROVE P!PlanningInv'
<1>1. P!Grown /\ P!ScopeInv' /\ revision' \in Nat
  BY StoresSame DEF P!DispatchCancel, P!stores
<1>2. P!ConsoleInv'
  BY <1>1, Emptied DEF P!DispatchCancel
<1>3. P!PlannerInv' /\ P!JobInv'
  <2>1. CASE UNCHANGED P!planner
    BY <1>1, <2>1, Frames DEF P!DispatchCancel, P!planner
  <2>2. CASE P!StopGeneration
    BY <1>1, <2>2, StopOK DEF P!DispatchCancel
  <2>3. CASE ~P!Active /\ draft' = P!NoDraft /\ UNCHANGED <<previous, job>>
    <3>1. P!NoDraft \in P!Drafts /\ P!PlannerInv
      BY Constants DEF P!NoDraft, P!Drafts, P!PlanningInv
    <3>2. P!PlannerInv'
      BY <2>3, <3>1 DEF P!DispatchCancel, P!PlannerInv, P!PlannerTypeOK, P!Active, P!MadeAs
    <3> QED BY <1>1, <2>3, <3>2, Frames
  <2> QED BY <2>1, <2>2, <2>3 DEF P!DispatchCancel
<1> QED BY <1>1, <1>2, <1>3, Frames, CountFrame
           DEF P!PlanningInv, P!DispatchCancel, P!stores, P!loaded, P!calls, P!chat, P!loop

LEMMA SendingOK ==
  ASSUME NEW c \in P!SaveCommands \cup P!ScopeCommands \cup [op : {"read"}, by : {"user"}]
  PROVE  /\ P!Sending(c) \in P!Calls /\ P!Sending(c).command = c
         /\ P!Sending(c).seen = 0 /\ P!Sending(c).scopeSeen = 0
BY DEF P!Sending, P!NoCall, P!Calls

LEMMA DispatchStoreStep == ASSUME P!PlanningInv, P!DispatchStore PROVE P!PlanningInv'
<1>1. P!Grown /\ P!ScopeInv' /\ revision' \in Nat
  BY StoresSame DEF P!DispatchStore, P!stores
<1>2. P!ConsoleInv'
  BY <1>1, Emptied DEF P!DispatchStore
<1>3. P!CallInv' /\ P!RetryInv'
  <2>1. CASE UNCHANGED P!calls
    BY <1>1, <2>1, Frames DEF P!calls
  <2>2. CASE ~(UNCHANGED P!calls)
    <3>1. PICK c : c = slot
      OBVIOUS
    <3>2. sent' = P!Sending(c) /\ retry' = (IF c.op = "save" THEN c ELSE retry)
      BY <2>2, <3>1 DEF P!DispatchStore
    <3>3. c \in P!SaveCommands \cup P!ScopeCommands /\ P!CommandHolds(c)
      BY <3>1, Kinds DEF P!DispatchStore, P!Saved, P!PlanningInv, P!ConsoleInv, P!CommandOK
    <3>4. P!CallInv'
      <4>1. PICK d : d = P!Sending(c)
        OBVIOUS
      <4>2. d \in P!Calls /\ d.command = c /\ d.seen = 0 /\ d.scopeSeen = 0
        BY <3>3, <4>1, SendingOK
      <4>3. Len(scope') \in Nat
        BY <1>1 DEF P!ScopeInv, P!ScopeTypeOK
      <4> QED BY <1>1, <3>2, <3>3, <4>1, <4>2, <4>3, CallOK
    <3>5. P!RetryInv'
      BY <3>2, <3>3 DEF P!RetryInv, P!PlanningInv, P!SaveCommands, P!ScopeCommands
    <3> QED BY <3>4, <3>5
  <2> QED BY <2>1, <2>2
<1> QED BY <1>1, <1>2, <1>3, Frames, CountFrame
           DEF P!PlanningInv, P!DispatchStore, P!planner, P!stores, P!loaded, P!calls, P!chat,
               P!loop

-----------------------------------------------------------------------------
(* The shared understanding. *)

LEMMA CommitsFacts ==
  ASSUME NEW j \in Seq(P!Receipt), NEW r \in P!Receipt, P!Commits(j, r), Len(j) <= MaxReceipts,
         MaxReceipts \in Nat
  PROVE  /\ r.expected = Len(j) /\ Len(j) + 1 <= MaxReceipts
         /\ r.action = "draft" => Len(j) + 2 <= MaxReceipts
         /\ r.action = "enter" => Len(j) = 0
         /\ r.action = "confirm" => Len(j) > 0
BY DEF P!Commits, P!Fits, P!Applies, P!Pending, P!HasBrief, P!Receipt

\* Room for an agreement is left by whatever receipt is appended.
LEMMA RoomStays ==
  ASSUME NEW j \in Seq(P!Receipt), NEW r \in P!Receipt, P!Commits(j, r), Len(j) <= MaxReceipts,
         P!ScopeConstants, NEW k, k = Append(j, r)
  PROVE  P!Pending(k) => Len(k) + (IF P!Placeholder(k) THEN 2 ELSE 1) <= MaxReceipts
<1>0. MaxReceipts \in Nat /\ MaxReceipts >= 3
  BY DEF P!ScopeConstants
<1>1. Len(k) = Len(j) + 1 /\ k[Len(k)] = r /\ k # <<>> /\ Len(j) \in Nat
  BY <1>0
<1>2. CASE r.action = "confirm"
  BY <1>1, <1>2 DEF P!Pending, P!Confirmed, P!HasBrief
<1>3. CASE r.action = "enter"
  BY <1>0, <1>1, <1>3, CommitsFacts
<1>4. CASE r.action = "draft"
  <2>1. Len(k) + 1 <= MaxReceipts
    BY <1>0, <1>1, <1>4, CommitsFacts
  <2>2. ~P!Placeholder(k)
    BY <1>1, <1>4 DEF P!Placeholder, P!DraftRevision, P!Confirmed
  <2> QED BY <2>1, <2>2
<1> QED BY <1>2, <1>3, <1>4 DEF P!Receipt, P!Actions

\* A journal that could be read can be read with its next receipt.
LEMMA StaysCoherent ==
  ASSUME P!ScopeTypeOK, P!Coherent, NEW r \in P!Receipt, ~P!Receipted(scope, r), P!Commits(scope,
         r),
         MaxReceipts \in Nat, scope' = Append(scope, r)
  PROVE  P!Coherent'
<1>1. /\ scope \in Seq(P!Receipt) /\ Len(scope) \in Nat
      /\ Len(scope') = Len(scope) + 1 /\ scope'[Len(scope) + 1] = r
      /\ DOMAIN scope' = 1..Len(scope) + 1 /\ DOMAIN scope = 1..Len(scope)
      /\ \A i \in DOMAIN scope : scope'[i] = scope[i]
  BY DEF P!ScopeTypeOK
<1>2. r.expected = Len(scope) /\ (r.action = "enter" => Len(scope) = 0)
  BY <1>1, CommitsFacts DEF P!ScopeTypeOK
<1>3. \A i \in DOMAIN scope' : i \in DOMAIN scope \/ i = Len(scope) + 1
  BY <1>1
<1>4. \A i \in DOMAIN scope' : scope'[i].action = "enter" => i = 1
  BY <1>1, <1>2, <1>3 DEF P!Coherent
<1>5. \A i \in DOMAIN scope' : scope'[i].expected = i - 1
  BY <1>1, <1>2, <1>3 DEF P!Coherent
<1>6. ASSUME NEW i \in DOMAIN scope', scope'[i].action = "confirm"
      PROVE  i > 1 /\ scope'[i - 1].action = "draft"
  <2>1. CASE i \in DOMAIN scope
    <3>1. i > 1 /\ scope[i - 1].action = "draft"
      BY <1>1, <1>6, <2>1 DEF P!Coherent
    <3>2. i - 1 \in DOMAIN scope
      BY <1>1, <2>1, <3>1
    <3> QED BY <1>1, <3>1, <3>2
  <2>2. CASE i = Len(scope) + 1
    <3>1. r.action = "confirm"
      BY <1>1, <1>6, <2>2
    <3>2. P!Pending(scope) /\ ~P!Placeholder(scope)
      BY <3>1 DEF P!Commits, P!Applies
    <3>3. scope # <<>> /\ Len(scope) > 0 /\ scope[Len(scope)].action # "confirm"
      BY <1>1, <3>2 DEF P!Pending, P!HasBrief, P!Confirmed
    <3>4. scope[Len(scope)].action # "enter"
      BY <1>1, <3>2, <3>3 DEF P!Coherent, P!Placeholder, P!HasBrief, P!DraftRevision, P!Confirmed
    <3>5. scope[Len(scope)] \in P!Receipt
      BY <1>1, <3>3
    <3>6. scope[Len(scope)].action = "draft"
      BY <3>3, <3>4, <3>5 DEF P!Receipt, P!Actions
    <3>7. i - 1 = Len(scope) /\ Len(scope) \in DOMAIN scope
      BY <1>1, <2>2, <3>3
    <3> QED BY <1>1, <3>3, <3>6, <3>7
  <2> QED BY <1>3, <2>1, <2>2
<1>7. ASSUME NEW i \in DOMAIN scope', NEW k \in DOMAIN scope', scope'[i].id = scope'[k].id
      PROVE  i = k
  <2>1. \A n \in DOMAIN scope : scope[n].id # r.id
    BY DEF P!Receipted
  <2> QED BY <1>1, <1>3, <1>7, <2>1 DEF P!Coherent
<1> QED BY <1>4, <1>5, <1>6, <1>7 DEF P!Coherent

LEMMA ScopeWriteOK ==
  ASSUME P!PlanningInv, NEW request \in P!ScopeRequests, P!OwnRequest(request),
         P!ScopeWrite(request),
         UNCHANGED <<revision, made>>
  PROVE  P!Grown /\ P!ScopeInv' /\ revision' \in Nat
<1>0. P!ScopeInv /\ revision \in Nat /\ MaxReceipts \in Nat /\ P!ScopeConstants
  BY Views, Constants DEF P!PlanningInv
<1>1. CASE scope' = scope
  BY <1>1, StoresSame DEF P!ScopeWrite, P!scopeVars
<1>2. CASE scope' # scope
  <2>1. /\ scope' = Append(scope, request) /\ cleared' = cleared
        /\ P!Commits(scope, request) /\ ~P!Receipted(scope, request)
    BY <1>2 DEF P!ScopeWrite, P!After
  <2>2. request \in P!Receipt /\ scope \in Seq(P!Receipt) /\ Len(scope) <= MaxReceipts
    BY <1>0, Constants DEF P!ScopeRequests, P!Receipt, P!ScopeInv, P!ScopeTypeOK
  <2>3. /\ scope' \in Seq(P!Receipt) /\ Len(scope') = Len(scope) + 1
        /\ scope'[Len(scope')] = request
        /\ DOMAIN scope' = 1..Len(scope) + 1 /\ DOMAIN scope = 1..Len(scope)
        /\ \A i \in DOMAIN scope : i \in DOMAIN scope' /\ scope'[i] = scope[i]
    BY <2>1, <2>2
  <2>4. P!Grown
    BY <1>0, <2>2, <2>3 DEF P!Grown
  <2>5. Len(scope) + 1 <= MaxReceipts /\ request.expected = Len(scope)
    BY <1>0, <2>1, <2>2, CommitsFacts
  <2>6. P!ScopeTypeOK'
    BY <1>0, <2>1, <2>2, <2>3, <2>5 DEF P!ScopeInv, P!ScopeTypeOK
  <2>7. P!OthersDecide'
    <3> SUFFICES ASSUME NEW i \in DOMAIN scope', scope'[i].by = "autopilot",
                        scope'[i].action = "confirm"
                 PROVE  scope'[i - 1].by = "autopilot"
      BY DEF P!OthersDecide
    <3>1. CASE i = Len(scope) + 1
      <4>1. request.by = "autopilot" /\ request.action = "confirm"
        BY <2>3, <3>1
      <4>2. Len(scope) \in DOMAIN scope /\ scope[Len(scope)].by = "autopilot"
        BY <2>5, <4>1 DEF P!OwnRequest
      <4>3. i - 1 = Len(scope)
        BY <2>2, <3>1
      <4> QED BY <2>3, <4>2, <4>3
    <3>2. CASE i \in DOMAIN scope
      <4>1. scope[i].by = "autopilot" /\ scope[i].action = "confirm"
        BY <2>3, <3>2
      <4>2. scope[i - 1].by = "autopilot"
        BY <1>0, <3>2, <4>1 DEF P!ScopeInv, P!OthersDecide
      <4>3. i - 1 \in DOMAIN scope
        BY <1>0, <2>3, <3>2, <4>1 DEF P!ScopeInv, P!Coherent
      <4> QED BY <2>3, <4>2, <4>3
    <3> QED BY <2>2, <2>3, <3>1, <3>2
  <2>8. P!RoomToAgree'
    BY <1>0, <2>1, <2>2, RoomStays DEF P!RoomToAgree
  <2>9. P!Coherent'
    BY <1>0, <2>1, <2>2, StaysCoherent DEF P!ScopeInv
  <2> QED BY <1>0, <2>4, <2>6, <2>7, <2>8, <2>9 DEF P!ScopeInv
<1> QED BY <1>1, <1>2

LEMMA ClearFlowOK ==
  ASSUME P!PlanningInv, P!ClearFlow, UNCHANGED <<revision, made>>
  PROVE  P!Grown /\ P!ScopeInv' /\ revision' \in Nat
<1>1. P!ScopeInv /\ revision \in Nat /\ MaxReceipts \in Nat
  BY Views, Constants DEF P!PlanningInv
<1>2. scope' = scope /\ cleared' = Len(scope)
  BY DEF P!ClearFlow
<1>3. P!Grown
  BY <1>1, <1>2 DEF P!Grown, P!ScopeInv, P!ScopeTypeOK
<1>4. P!ScopeTypeOK'
  BY <1>1, <1>2 DEF P!ScopeInv, P!ScopeTypeOK
<1>5. P!Coherent' /\ P!OthersDecide' /\ P!RoomToAgree'
  BY <1>1, <1>2 DEF P!ScopeInv, P!Coherent, P!OthersDecide, P!RoomToAgree, P!Pending, P!HasBrief,
         P!Confirmed, P!Placeholder, P!DraftRevision
<1> QED BY <1>1, <1>2, <1>3, <1>4, <1>5 DEF P!ScopeInv

-----------------------------------------------------------------------------
(* Transactions. *)

LEMMA UserRefreshStep == ASSUME P!PlanningInv, P!UserRefresh PROVE P!PlanningInv'
<1>1. P!Grown /\ P!ScopeInv' /\ revision' \in Nat
  BY StoresSame DEF P!UserRefresh, P!stores
<1>2. P!CallInv'
  <2>1. PICK c : c = [op |-> "read", by |-> "user"]
    OBVIOUS
  <2>2. PICK d : d = P!Sending(c)
    OBVIOUS
  <2>3. sent' = d
    BY <2>1, <2>2 DEF P!UserRefresh
  <2>4. c \in [op : {"read"}, by : {"user"}] /\ P!CommandHolds(c)
    BY <2>1 DEF P!CommandHolds
  <2>5. d \in P!Calls /\ d.command = c /\ d.seen = 0 /\ d.scopeSeen = 0
    BY <2>2, <2>4, SendingOK
  <2>6. Len(scope') \in Nat
    BY <1>1 DEF P!ScopeInv, P!ScopeTypeOK
  <2> QED BY <1>1, <2>3, <2>4, <2>5, <2>6, CallOK
<1>3. P!CountInv'
  BY SpendCounts DEF P!UserRefresh
<1> QED BY <1>1, <1>2, <1>3, Frames
           DEF P!PlanningInv, P!UserRefresh, P!planner, P!console, P!stores, P!loaded, P!chat,
               P!loop

\* An answer tells what the stores are.
LEMMA AnswerOK ==
  ASSUME P!PlanningInv, P!Grown, P!ScopeInv', revision' \in Nat, sent \in P!Calls,
         NEW outcome \in {"ok", "denied", "stale", "busy", "uncertain"}, P!Answer(outcome)
  PROVE  P!CallInv'
<1>1. PICK c : c = sent'
  OBVIOUS
<1>2. Len(scope') \in Nat
  BY DEF P!ScopeInv, P!ScopeTypeOK
<1>3. /\ c \in P!Calls /\ c.command = sent.command
      /\ c.seen = revision' /\ c.scopeSeen = Len(scope')
  BY <1>1, <1>2 DEF P!Answer, P!Calls
<1>4. P!CommandHolds(c.command)
  BY <1>3 DEF P!PlanningInv, P!CallInv
<1> QED BY <1>1, <1>2, <1>3, <1>4, CallOK

LEMMA SentIs ==
  ASSUME P!PlanningInv, NEW op, P!Sent(op)
  PROVE  /\ sent \in P!Calls /\ P!CommandHolds(sent.command)
         /\ op = "save" => sent.command \in P!SaveCommands
         /\ op = "scope" => sent.command \in P!ScopeCommands
<1>1. sent \in P!Calls /\ P!CommandHolds(sent.command)
  BY DEF P!PlanningInv, P!CallInv, P!Sent, P!NoCall
<1> QED BY <1>1 DEF P!Sent, P!Calls, P!SaveCommands, P!ScopeCommands

LEMMA ReadStoresStep == ASSUME P!PlanningInv, P!ReadStores PROVE P!PlanningInv'
<1>1. P!Grown /\ P!ScopeInv' /\ revision' \in Nat
  BY StoresSame DEF P!ReadStores, P!stores
<1>2. P!CallInv'
  BY <1>1, SentIs, AnswerOK DEF P!ReadStores
<1> QED BY <1>1, <1>2, Frames, CountFrame
           DEF P!PlanningInv, P!ReadStores, P!planner, P!console, P!stores, P!loaded, P!chat, P!loop

LEMMA TransactScopeStep == ASSUME P!PlanningInv, P!TransactScope PROVE P!PlanningInv'
<1>0. sent.command \in P!ScopeCommands /\ sent \in P!Calls /\ P!CommandHolds(sent.command)
  BY SentIs DEF P!TransactScope
<1>1. P!Grown /\ P!ScopeInv' /\ revision' \in Nat
  <2>1. sent.command.request \in P!ScopeRequests /\ P!OwnRequest(sent.command.request)
    BY <1>0 DEF P!ScopeCommands, P!CommandHolds
  <2> QED BY <2>1, ScopeWriteOK DEF P!TransactScope, P!stores
<1>2. P!CallInv'
  BY <1>0, <1>1, AnswerOK DEF P!TransactScope
<1>3. P!CountInv'
  BY CountFrame, SpendCounts DEF P!TransactScope
<1> QED BY <1>1, <1>2, <1>3, Frames
           DEF P!PlanningInv, P!TransactScope, P!planner, P!console, P!stores, P!loaded, P!chat,
               P!loop

\* A plan is published as it was made.
LEMMA PublishOK ==
  ASSUME P!PlanningInv, sent \in P!Calls, sent.command \in P!SaveCommands,
         P!CommandHolds(sent.command),
         P!Publish, P!InScope, revision = sent.command.expected, UNCHANGED <<P!scopeVars, made>>
  PROVE  P!Grown /\ P!ScopeInv' /\ revision' \in Nat /\ P!PlansInv'
<1>0. P!PlansInv /\ P!ScopeInv /\ revision \in Nat /\ Len(scope) \in 0..MaxReceipts
  BY Views DEF P!PlanningInv
<1> DEFINE plan == [draft |-> sent.command.draft, id |-> sent.command.id,
                    at |-> revision, scope |-> Len(scope)]
<1>1. plans' = Append(plans, plan) /\ revision' = revision + 1
  BY DEF P!Publish
<1>2. plan \in P!Plans
  BY <1>0 DEF P!Plans, P!SaveCommands
<1>3. /\ plan.draft.number \in DOMAIN made
      /\ made[plan.draft.number].revision = plan.at
      /\ made[plan.draft.number].scope = plan.scope
  BY DEF P!CommandHolds, P!SaveHolds, P!MadeAs, P!SaveCommands, P!InScope
<1>4. plans \in Seq(P!Plans)
  BY <1>0 DEF P!PlansInv
<1> HIDE DEF plan
<1>5. /\ plans' \in Seq(P!Plans) /\ Len(plans) \in Nat
      /\ DOMAIN plans' = 1..Len(plans) + 1 /\ DOMAIN plans = 1..Len(plans)
      /\ plans'[Len(plans) + 1] = plan
      /\ \A i \in DOMAIN plans : plans'[i] = plans[i]
  BY <1>1, <1>2, <1>4
<1>6. \A i \in DOMAIN plans' : i \in DOMAIN plans \/ i = Len(plans) + 1
  BY <1>5
<1>7. made' = made /\ scope' = scope
  BY DEF P!scopeVars
<1>8. P!PublishedAsPlanned'
  BY <1>0, <1>3, <1>5, <1>6, <1>7 DEF P!PlansInv, P!PublishedAsPlanned
<1>9. \A i \in DOMAIN plans' : plans'[i].draft.number \in DOMAIN made'
  BY <1>0, <1>3, <1>5, <1>6, <1>7 DEF P!PlansInv
<1>10. P!Grown /\ revision' \in Nat
  BY <1>0, <1>1, <1>7 DEF P!Grown
<1>11. P!ScopeInv'
  BY <1>0, ScopeFrame
<1> QED BY <1>5, <1>8, <1>9, <1>10, <1>11 DEF P!PlansInv

LEMMA TransactSaveStep == ASSUME P!PlanningInv, P!TransactSave PROVE P!PlanningInv'
<1>0. sent.command \in P!SaveCommands /\ sent \in P!Calls /\ P!CommandHolds(sent.command)
  BY SentIs DEF P!TransactSave
<1>1. UNCHANGED <<P!scopeVars, P!loaded, P!planner, P!console, retry, P!chat, P!loop, used, made>>
  BY DEF P!TransactSave
<1>2. /\ UNCHANGED P!stores \/ (P!Publish /\ P!InScope /\ revision = sent.command.expected)
      /\ bounds' = bounds \/ P!Spend("faults")
      /\ \E outcome \in {"ok", "denied", "stale", "busy", "uncertain"} : P!Answer(outcome)
  BY DEF P!TransactSave
<1>3. P!Grown /\ P!ScopeInv' /\ revision' \in Nat /\ P!PlansInv'
  <2>1. CASE UNCHANGED P!stores
    <3>1. P!Grown /\ P!ScopeInv' /\ revision' \in Nat
      BY <1>1, <2>1, StoresSame DEF P!stores
    <3> QED BY <2>1, <3>1, Frames DEF P!stores
  <2>2. CASE P!Publish /\ P!InScope /\ revision = sent.command.expected
    BY <1>0, <1>1, <2>2, PublishOK
  <2> QED BY <1>2, <2>1, <2>2
<1>4. P!CallInv'
  BY <1>0, <1>2, <1>3, AnswerOK
<1>5. P!CountInv'
  BY <1>1, <1>2, CountFrame, SpendCounts
<1> QED BY <1>1, <1>3, <1>4, <1>5, Frames
           DEF P!PlanningInv, P!planner, P!console, P!loaded, P!chat, P!loop

LEMMA LaterIs ==
  ASSUME NEW a \in Nat, NEW b \in Nat PROVE P!Later(a, b) \in {a, b} /\ P!Later(a, b) \in Nat
BY DEF P!Later

LEMMA NoCallOK == ASSUME P!Grown, sent' = P!NoCall, revision' \in Nat, P!ScopeInv' PROVE P!CallInv'
<1>1. PICK c : c = P!NoCall
  OBVIOUS
<1>2. c.seen = 0 /\ c.scopeSeen = 0 /\ P!CommandHolds(c.command) /\ Len(scope') \in Nat
  BY <1>1, NoCommandOK DEF P!NoCall, P!CommandOK, P!ScopeInv, P!ScopeTypeOK
<1> QED BY <1>1, <1>2, CallOK

LEMMA PollStoreStep == ASSUME P!PlanningInv, P!PollStore PROVE P!PlanningInv'
<1>1. P!Grown /\ P!ScopeInv' /\ revision' \in Nat
  BY StoresSame DEF P!PollStore, P!stores
<1>2. P!CallInv'
  BY <1>1, NoCallOK DEF P!PollStore
<1>3. P!RetryInv'
  BY DEF P!PollStore, P!PlanningInv, P!RetryInv
<1>4. P!ViewsInv'
  <2>1. sent.seen \in Nat /\ sent.seen <= revision
        /\ sent.scopeSeen \in Nat /\ sent.scopeSeen <= Len(scope)
    BY DEF P!PlanningInv, P!CallInv, P!Calls, P!NoCall
  <2>2. UNCHANGED <<scope, revision>>
    BY DEF P!PollStore, P!scopeVars, P!stores
  <2>3. P!ViewsInv
    BY DEF P!PlanningInv
  <2>4. view' \in {view, sent.seen}
    BY <2>1, Views, LaterIs DEF P!PollStore
  <2>5. scopeView' \in {scopeView, sent.scopeSeen}
    BY <2>1, Views, LaterIs DEF P!PollStore
  <2> QED BY <2>1, <2>2, <2>3, <2>4, <2>5, Views DEF P!ViewsInv
<1>5. P!PlannerInv' /\ P!JobInv'
  <2>1. UNCHANGED <<previous, job, disk, made>> /\ draft' \in {draft, P!NoDraft}
    BY DEF P!PollStore, P!console
  <2>2. P!NoDraft \in P!Drafts /\ P!PlannerInv
    BY Constants DEF P!NoDraft, P!Drafts, P!PlanningInv
  <2>3. P!PlannerInv'
    BY <2>1, <2>2 DEF P!PlannerInv, P!PlannerTypeOK, P!Active, P!MadeAs
  <2> QED BY <1>1, <2>1, <2>3, Frames
<1> QED BY <1>1, <1>2, <1>3, <1>4, <1>5, Frames, CountFrame
           DEF P!PlanningInv, P!PollStore, P!planner, P!console, P!stores, P!chat

LEMMA RefreshStep == ASSUME P!PlanningInv, P!Refresh PROVE P!PlanningInv'
<1>1. P!Grown /\ P!ScopeInv' /\ revision' \in Nat
  BY StoresSame DEF P!Refresh, P!stores
<1>2. P!ViewsInv'
  BY Views DEF P!Refresh, P!ViewsInv, P!scopeVars, P!stores
<1> QED BY <1>1, <1>2, Frames, CountFrame
           DEF P!PlanningInv, P!Refresh, P!planner, P!console, P!stores, P!chat, P!loop, P!calls

-----------------------------------------------------------------------------
(* Chat turns that write the scope. *)

\* Where a session has a turn.
LEMMA TurnIs ==
  ASSUME P!PlanningInv, NEW s \in Sessions, turns[s].at # "none"
  PROVE  /\ turns[s] \in P!Turns /\ turns[s].request \in P!ScopeRequests
         /\ turns[s].seen <= Len(scope) /\ turns[s].request.by = "user"
BY DEF P!PlanningInv, P!TurnsInv, P!TurnOK, P!NoTurn, P!Turns

\* The turns that stand before the journal is touched.
LEMMA FreshTurnOK ==
  ASSUME P!PlanningInv, P!ScopeInv', NEW turn \in P!Turns, turn.seen = 0, turn.request.by = "user"
  PROVE  P!TurnOK(turn)'
BY DEF P!TurnOK, P!ScopeInv, P!ScopeTypeOK

\* A turn that moves on.
LEMMA MovedTurnOK ==
  ASSUME P!PlanningInv, P!Grown, P!ScopeInv', NEW s \in Sessions, turns[s].at # "none",
         NEW turn \in P!Turns, turn.seen = turns[s].seen, turn.request = turns[s].request
  PROVE  P!TurnOK(turn)'
<1>1. P!ScopeInv
  BY DEF P!PlanningInv
<1>2. turn.seen \in Nat /\ turn.seen <= Len(scope) /\ turn.request.by = "user"
  BY TurnIs DEF P!Turns
<1> QED BY <1>1, <1>2 DEF P!TurnOK, P!Grown, P!ScopeInv, P!ScopeTypeOK

LEMMA SayStep ==
  ASSUME P!PlanningInv, NEW s \in Sessions, NEW action \in P!Actions, P!Say(s,
         action) PROVE P!PlanningInv'
<1>1. P!Grown /\ P!ScopeInv' /\ revision' \in Nat
  BY StoresSame DEF P!Say, P!stores
<1>2. PICK r : r = P!ScopeRequest(used + 1, action, "user",
    IF action = "enter" THEN 0 ELSE scopeView)
  OBVIOUS
<1>3. r \in P!ScopeRequests /\ r.by = "user"
  <2>1. used < MaxIds /\ "user" \in Writers
    BY Constants DEF P!Say
  <2>2. (IF action = "enter" THEN 0 ELSE scopeView) \in Nat
    BY Views
  <2> QED BY <1>2, <2>1, <2>2, ScopeRequestOK
<1>4. PICK t : t = [at |-> "preparing", cancelled |-> FALSE, seen |-> 0, request |-> r]
  OBVIOUS
<1>5. t \in P!Turns /\ t.seen = 0 /\ t.request = r
  BY <1>3, <1>4 DEF P!Turns
<1>6. P!SetTurn(s, t)
  BY <1>2, <1>4 DEF P!Say
<1>7. P!TurnsInv'
  <2>1. P!TurnOK(t)'
    BY <1>1, <1>3, <1>5, FreshTurnOK
  <2> QED BY <1>1, <1>5, <1>6, <2>1, SetTurnOK
<1>8. P!CountInv' /\ P!WaitingInv'
  <2>1. P!WaitingInv'
    BY <1>6 DEF P!Say, P!WaitingInv, P!PlanningInv, P!TurnsInv, P!SetTurn, P!NoTurn, P!console
  <2> QED BY <2>1, SpendCounts DEF P!Say
<1> QED BY <1>1, <1>7, <1>8, Frames
           DEF P!PlanningInv, P!Say, P!planner, P!console, P!stores, P!loaded, P!calls, P!loop

LEMMA PrepareTurnStep ==
  ASSUME P!PlanningInv, NEW s \in Sessions, P!PrepareTurn(s) PROVE P!PlanningInv'
<1>1. P!Grown /\ P!ScopeInv' /\ revision' \in Nat
  BY StoresSame DEF P!PrepareTurn, P!stores
<1>2. PICK t : t \in {P!NoTurn, [turns[s] EXCEPT !.at = "ready"]} /\ P!SetTurn(s, t)
  BY DEF P!PrepareTurn
<1>3. turns[s] \in P!Turns /\ turns[s].at # "none" /\ P!WaitingInv'
  <2>1. P!WaitingInv'
    BY <1>2 DEF P!PrepareTurn, P!WaitingInv, P!PlanningInv, P!TurnsInv, P!SetTurn, P!console
  <2> QED BY <2>1, TurnIs DEF P!PrepareTurn
<1>4. CASE t = P!NoTurn
  BY <1>1, <1>2, <1>3, <1>4, NoTurnOK, SetTurnOK, Frames, CountFrame
     DEF P!PrepareTurn, P!PlanningInv, P!planner, P!console, P!stores, P!loaded, P!calls, P!loop
<1>5. CASE t = [turns[s] EXCEPT !.at = "ready"]
  <2>1. t \in P!Turns /\ t.seen = turns[s].seen /\ t.request = turns[s].request
    BY <1>3, <1>5 DEF P!Turns
  <2>2. P!TurnsInv'
    <3>1. P!TurnOK(t)'
      BY <1>1, <1>3, <2>1, MovedTurnOK
    <3> QED BY <1>1, <1>2, <2>1, <3>1, SetTurnOK
  <2> QED BY <1>1, <1>3, <2>2, Frames, CountFrame
             DEF P!PrepareTurn, P!PlanningInv, P!planner, P!console, P!stores, P!loaded, P!calls,
                 P!loop
<1> QED BY <1>2, <1>4, <1>5

LEMMA TurnCommandOK ==
  ASSUME P!PlanningInv, NEW s \in Sessions, NEW c, turns[s].at # "none",
         c = [op |-> "turn", id |-> turns[s].request.id, by |-> "user", saved |-> FALSE,
              session |-> s, request |-> turns[s].request]
  PROVE  P!CommandOK(c)
<1>1. turns[s].request \in P!ScopeRequests /\ turns[s].request.by = "user"
  BY TurnIs
<1>2. c \in P!TurnCommands /\ c.op = "turn" /\ c.request = turns[s].request
      /\ c.id = turns[s].request.id
  BY <1>1 DEF P!TurnCommands, P!ScopeRequests
<1> QED BY <1>1, <1>2 DEF P!CommandOK, P!Commands, P!CommandHolds

LEMMA StageTurnStep ==
  ASSUME P!PlanningInv, NEW s \in Sessions, P!StageTurn(s) PROVE P!PlanningInv'
<1>1. P!Grown /\ P!ScopeInv' /\ revision' \in Nat
  BY StoresSame DEF P!StageTurn, P!stores
<1>2. PICK c : c = [op |-> "turn", id |-> turns[s].request.id, by |-> "user", saved |-> FALSE,
                    session |-> s, request |-> turns[s].request]
  OBVIOUS
<1>3. P!CommandOK(c)
  BY <1>2, TurnCommandOK DEF P!StageTurn
<1>4. P!ConsoleInv' /\ P!WaitingInv'
  BY <1>1, <1>2, <1>3, PlacesOK DEF P!StageTurn, P!Submit, P!WaitingInv, P!chat
<1> QED BY <1>1, <1>4, Frames, CountFrame
           DEF P!PlanningInv, P!StageTurn, P!Submit, P!planner, P!stores, P!loaded, P!calls, P!chat,
               P!loop

LEMMA ResumeTurnStep == ASSUME P!PlanningInv, P!ResumeTurn PROVE P!PlanningInv'
<1>1. P!Grown /\ P!ScopeInv' /\ revision' \in Nat
  BY StoresSame DEF P!ResumeTurn, P!stores
<1>2. last \in P!TurnCommands /\ P!CommandOK(last)
  BY Kinds DEF P!PlanningInv, P!ConsoleInv, P!CommandOK, P!ResumeTurn
<1>3. last.session \in Sessions /\ last.request \in P!ScopeRequests /\ last.request.by = "user"
  BY <1>2 DEF P!TurnCommands, P!CommandOK, P!CommandHolds
<1>4. PICK t : t = [at |-> "ready", cancelled |-> FALSE, seen |-> 0, request |-> last.request]
  OBVIOUS
<1>5. t \in P!Turns /\ t.seen = 0 /\ t.request = last.request
  BY <1>3, <1>4 DEF P!Turns
<1>6. P!TurnsInv'
  <2>1. P!TurnOK(t)'
    BY <1>1, <1>3, <1>5, FreshTurnOK
  <2>2. P!SetTurn(last.session, t)
    BY <1>4 DEF P!ResumeTurn
  <2> QED BY <1>1, <1>3, <1>5, <2>1, <2>2, SetTurnOK
<1>7. P!ConsoleInv'
  BY <1>1, <1>2, PlacesOK DEF P!ResumeTurn
<1>8. P!CountInv' /\ P!WaitingInv'
  <2>1. last.request.id = last.id
    BY <1>2 DEF P!TurnCommands, P!CommandOK, P!CommandHolds
  <2>2. slot' = last /\ turns' = [turns EXCEPT ![last.session] = t]
    BY <1>4 DEF P!ResumeTurn, P!SetTurn
  <2>3. turns'[last.session] = t /\ t.at = "ready"
    BY <1>3, <1>4, <2>2 DEF P!PlanningInv, P!TurnsInv
  <2>4. P!WaitingInv'
    BY <1>5, <2>1, <2>2, <2>3 DEF P!WaitingInv
  <2> QED BY <2>4, SpendCounts DEF P!ResumeTurn
<1> QED BY <1>1, <1>6, <1>7, <1>8, Frames
           DEF P!PlanningInv, P!ResumeTurn, P!planner, P!stores, P!loaded, P!calls, P!loop

LEMMA WithdrawTurnStep ==
  ASSUME P!PlanningInv, NEW s \in Sessions, P!WithdrawTurn(s) PROVE P!PlanningInv'
<1>1. P!Grown /\ P!ScopeInv' /\ revision' \in Nat
  BY StoresSame DEF P!WithdrawTurn, P!stores
<1>2. P!TurnsInv'
  BY <1>1, NoTurnOK, SetTurnOK DEF P!WithdrawTurn
<1>3. P!ConsoleInv'
  BY <1>1, NoCommandOK, PlacesOK DEF P!WithdrawTurn, P!PlanningInv, P!ConsoleInv
<1>4. P!WaitingInv'
  BY DEF P!WithdrawTurn, P!WaitingInv, P!PlanningInv, P!TurnsInv, P!SetTurn, P!NoCommand
<1> QED BY <1>1, <1>2, <1>3, <1>4, Frames, CountFrame
           DEF P!PlanningInv, P!WithdrawTurn, P!planner, P!stores, P!loaded, P!calls, P!loop

LEMMA CancelTurnStep ==
  ASSUME P!PlanningInv, NEW s \in Sessions, P!CancelTurn(s) PROVE P!PlanningInv'
<1>1. P!Grown /\ P!ScopeInv' /\ revision' \in Nat
  BY StoresSame DEF P!CancelTurn, P!stores
<1>2. PICK t : t = [turns[s] EXCEPT !.cancelled = TRUE]
  OBVIOUS
<1>3. P!SetTurn(s, t) /\ turns[s].at # "none"
  BY <1>2 DEF P!CancelTurn
<1>4. t \in P!Turns /\ t.seen = turns[s].seen /\ t.request = turns[s].request
  BY <1>2, <1>3, TurnIs DEF P!Turns
<1>5. P!TurnsInv'
  <2>1. P!TurnOK(t)'
    BY <1>1, <1>3, <1>4, MovedTurnOK
  <2> QED BY <1>1, <1>3, <1>4, <2>1, SetTurnOK
<1>6. P!CountInv' /\ P!WaitingInv'
  <2>1. \A r \in Sessions : turns'[r].at = turns[r].at /\ turns'[r].request = turns[r].request
    BY <1>3, <1>4, <1>2, TurnIs DEF P!PlanningInv, P!TurnsInv, P!SetTurn, P!Turns
  <2>2. slot.op = "turn" => slot.session \in Sessions
    BY Kinds DEF P!PlanningInv, P!ConsoleInv, P!CommandOK, P!TurnCommands
  <2>3. P!WaitingInv'
    BY <2>1, <2>2 DEF P!CancelTurn, P!WaitingInv, P!PlanningInv, P!console
  <2> QED BY <2>3, SpendCounts DEF P!CancelTurn
<1> QED BY <1>1, <1>5, <1>6, Frames
           DEF P!PlanningInv, P!CancelTurn, P!planner, P!console, P!stores, P!loaded, P!calls,
               P!loop

LEMMA DispatchTurnStep == ASSUME P!PlanningInv, P!DispatchTurn PROVE P!PlanningInv'
<1>1. P!Grown /\ P!ScopeInv' /\ revision' \in Nat
  BY StoresSame DEF P!DispatchTurn, P!stores
<1>2. P!ConsoleInv'
  BY <1>1, Emptied DEF P!DispatchTurn
<1>3. P!TurnsInv'
  <2>1. PICK s : s = slot.session
    OBVIOUS
  <2>2. s \in Sessions
    BY <2>1, Kinds DEF P!DispatchTurn, P!Saved, P!PlanningInv, P!ConsoleInv, P!CommandOK,
           P!TurnCommands
  <2>3. PICK t : t = [turns[s] EXCEPT !.at = "writing"]
    OBVIOUS
  <2>4. P!SetTurn(s, t)
    BY <2>1, <2>3 DEF P!DispatchTurn
  <2>5. turns[s].at # "none"
    BY <2>1 DEF P!DispatchTurn, P!Saved, P!PlanningInv, P!WaitingInv
  <2>6. t \in P!Turns /\ t.seen = turns[s].seen /\ t.request = turns[s].request
    BY <2>2, <2>3, <2>5, TurnIs DEF P!Turns
  <2>7. P!TurnOK(t)'
    BY <1>1, <2>2, <2>5, <2>6, MovedTurnOK
  <2> QED BY <1>1, <2>2, <2>4, <2>6, <2>7, SetTurnOK
<1> QED BY <1>1, <1>2, <1>3, Frames, CountFrame
           DEF P!PlanningInv, P!DispatchTurn, P!planner, P!stores, P!loaded, P!calls, P!loop

LEMMA WriteScopeStep ==
  ASSUME P!PlanningInv, NEW s \in Sessions, P!WriteScope(s) PROVE P!PlanningInv'
<1>0. turns[s].at # "none" /\ turns[s].request \in P!ScopeRequests /\ turns[s].request.by = "user"
      /\ turns[s] \in P!Turns
  BY TurnIs DEF P!WriteScope
<1>1. P!Grown /\ P!ScopeInv' /\ revision' \in Nat
  <2>1. P!OwnRequest(turns[s].request)
    BY <1>0 DEF P!OwnRequest
  <2> QED BY <1>0, <2>1, ScopeWriteOK DEF P!WriteScope, P!stores
<1>2. PICK t : t = [turns[s] EXCEPT !.at = "written", !.seen = Len(scope')]
  OBVIOUS
<1>3. Len(scope') \in Nat
  BY <1>1 DEF P!ScopeInv, P!ScopeTypeOK
<1>4. t \in P!Turns /\ t.seen = Len(scope') /\ t.request.by = "user"
  BY <1>0, <1>2, <1>3 DEF P!Turns
<1>5. P!TurnsInv'
  <2>1. P!TurnOK(t)'
    BY <1>3, <1>4 DEF P!TurnOK
  <2>2. P!SetTurn(s, t)
    BY <1>2 DEF P!WriteScope
  <2> QED BY <1>1, <1>4, <2>1, <2>2, SetTurnOK
<1>6. P!WaitingInv'
  BY DEF P!WriteScope, P!WaitingInv, P!PlanningInv, P!TurnsInv, P!SetTurn, P!console
<1> QED BY <1>1, <1>5, <1>6, Frames, CountFrame
           DEF P!PlanningInv, P!WriteScope, P!planner, P!console, P!stores, P!loaded, P!calls,
               P!loop

LEMMA PollTurnStep ==
  ASSUME P!PlanningInv, NEW s \in Sessions, P!PollTurn(s) PROVE P!PlanningInv'
<1>0. turns[s] \in P!Turns /\ turns[s].request \in P!ScopeRequests /\ turns[s].seen <= Len(scope)
  BY TurnIs DEF P!PollTurn
<1>1. P!Grown /\ P!ScopeInv' /\ revision' \in Nat
  BY StoresSame DEF P!PollTurn, P!stores
<1>2. P!TurnsInv'
  BY <1>1, NoTurnOK, SetTurnOK DEF P!PollTurn
<1>3. P!ToldInv'
  <2>1. scope' = scope
    BY DEF P!PollTurn, P!scopeVars
  <2>2. turns[s].request.id \in 1..MaxIds
    BY <1>0 DEF P!ScopeRequests
  <2>3. CASE P!Receipted(scope, turns[s].request)
    <3>1. told' = told \cup {turns[s].request.id}
      BY <2>3 DEF P!PollTurn, P!Acknowledged
    <3> QED BY <2>1, <2>2, <2>3, <3>1 DEF P!PlanningInv, P!ToldInv, P!ToldIsWritten, P!Receipted
  <2>4. CASE ~P!Receipted(scope, turns[s].request)
    <3>1. told' = told
      BY <2>4 DEF P!PollTurn, P!Acknowledged
    <3> QED BY <1>1, <3>1, Frames
  <2> QED BY <2>3, <2>4
<1>4. P!ViewsInv'
  <2>1. turns[s].seen \in Nat
    BY <1>0 DEF P!Turns
  <2>2. scopeView' \in {scopeView, turns[s].seen}
    <3>1. scopeView \in Nat
      BY Views
    <3>2. scopeView' = P!Later(scopeView, turns[s].seen)
      BY DEF P!PollTurn
    <3> QED BY <2>1, <3>1, <3>2, LaterIs
  <2> QED BY <1>0, <2>1, <2>2, Views
             DEF P!PollTurn, P!ViewsInv, P!PlanningInv, P!stores, P!scopeVars
<1>5. P!WaitingInv'
  BY DEF P!PollTurn, P!WaitingInv, P!PlanningInv, P!TurnsInv, P!SetTurn, P!console
<1> QED BY <1>1, <1>2, <1>3, <1>4, <1>5, Frames, CountFrame
           DEF P!PlanningInv, P!PollTurn, P!planner, P!console, P!stores, P!calls, P!loop

LEMMA UserClearStep == ASSUME P!PlanningInv, P!UserClear PROVE P!PlanningInv'
<1>1. P!Grown /\ P!ScopeInv' /\ revision' \in Nat
  BY ClearFlowOK DEF P!UserClear, P!stores
<1>2. P!ViewsInv'
  BY Views DEF P!UserClear, P!ClearFlow, P!ViewsInv, P!PlanningInv, P!stores
<1>3. P!CountInv'
  BY SpendCounts DEF P!UserClear
<1> QED BY <1>1, <1>2, <1>3, Frames
           DEF P!PlanningInv, P!UserClear, P!planner, P!console, P!stores, P!calls, P!chat, P!loop

-----------------------------------------------------------------------------
(* The autopilot. *)

LEMMA LoopFacts ==
  ASSUME P!PlanningInv
  PROVE  /\ auto \in P!AutoStates
         /\ refused \in 0..TransientLimit /\ (P!Planned => auto.failures < PlanAttempts)
         /\ P!Planned /\ ~auto.paused => refused < TransientLimit
BY DEF P!PlanningInv, P!LoopInv, P!LoopTypeOK

LEMMA BeginOK ==
  ASSUME P!PlanningInv, NEW stage \in {"scoping", "saving"}, P!Begin(stage) PROVE P!LoopInv'
<1>1. refused' = 0 /\ 0 \in 0..TransientLimit /\ 0 < TransientLimit
  BY Constants DEF P!Begin, P!Forget
<1>2. /\ auto.plans + 1 \in Nat /\ 0 \in 0..PlanAttempts /\ 0 \in 0..MaxIds /\ 0 < PlanAttempts
  BY LoopFacts, Constants DEF P!AutoStates
<1>3. auto' = [phase |-> stage, paused |-> FALSE, plan |-> 0, save |-> 0, failures |-> 0,
               plans |-> auto.plans + 1]
  BY DEF P!Begin, P!Idle
<1>4. auto' \in P!AutoStates /\ auto'.failures = 0
  BY <1>2, <1>3 DEF P!AutoStates
<1> QED BY <1>1, <1>2, <1>4 DEF P!LoopInv, P!LoopTypeOK

\* What the autopilot leaves alone: all but its console and its state.
LEMMA QuietOK ==
  ASSUME P!PlanningInv, UNCHANGED P!Quiet
  PROVE  /\ P!Grown /\ P!ScopeInv' /\ revision' \in Nat
         /\ P!ToldInv' /\ P!ViewsInv' /\ P!CallInv' /\ P!RetryInv' /\ P!TurnsInv' /\ P!PlansInv'
         /\ UNCHANGED <<made, revision, turns>>
<1>1. UNCHANGED <<P!scopeVars, P!stores, P!loaded, P!calls, P!chat, made>>
  BY DEF P!Quiet
<1>2. P!Grown /\ P!ScopeInv' /\ revision' \in Nat
  BY <1>1, StoresSame DEF P!stores
<1> QED BY <1>1, <1>2, Frames DEF P!stores, P!calls, P!chat

\* A decision of the user about the loop.
LEMMA DriveStep ==
  ASSUME P!PlanningInv, UNCHANGED P!Quiet, UNCHANGED <<P!planner, P!console, used>>, P!LoopInv',
         bounds' = bounds \/ P!Spend("driven")
  PROVE  P!PlanningInv'
<1>1. /\ P!Grown /\ P!ScopeInv' /\ revision' \in Nat
      /\ P!ToldInv' /\ P!ViewsInv' /\ P!CallInv' /\ P!RetryInv' /\ P!TurnsInv' /\ P!PlansInv'
      /\ UNCHANGED <<made, revision, turns>>
  BY QuietOK
<1>2. P!CountInv'
  BY CountFrame, SpendCounts
<1> QED BY <1>1, <1>2, Frames DEF P!PlanningInv, P!planner, P!console

LEMMA GoStep == ASSUME P!PlanningInv, P!Go PROVE P!PlanningInv'
BY BeginOK, DriveStep DEF P!Go, P!Begin

LEMMA GoDraftStep == ASSUME P!PlanningInv, P!GoDraft PROVE P!PlanningInv'
BY BeginOK, DriveStep DEF P!GoDraft, P!Begin

LEMMA PauseStep == ASSUME P!PlanningInv, P!Pause PROVE P!PlanningInv'
<1>1. auto' = [auto EXCEPT !.paused = TRUE] /\ refused' = refused
  BY DEF P!Pause
<1>2. P!LoopInv'
  BY <1>1, LoopFacts DEF P!LoopInv, P!LoopTypeOK, P!AutoStates, P!Planned
<1> QED BY <1>2, DriveStep DEF P!Pause

LEMMA ResumeStep == ASSUME P!PlanningInv, P!Resume PROVE P!PlanningInv'
<1>1. PICK n : auto' = [auto EXCEPT !.paused = FALSE, !.plan = n] /\ n \in {0, auto.plan}
  BY DEF P!Resume
<1>2. refused' = 0
  BY DEF P!Resume, P!Forget
<1>3. n \in 0..MaxIds /\ 0 \in 0..TransientLimit /\ 0 < TransientLimit
  BY <1>1, LoopFacts, Constants DEF P!Jobs, P!AutoStates
<1>4. auto' \in P!AutoStates
      /\ auto'.phase = auto.phase /\ auto'.failures = auto.failures
  BY <1>1, <1>3, LoopFacts DEF P!Jobs, P!AutoStates
<1>5. P!LoopInv'
  BY <1>2, <1>3, <1>4, LoopFacts DEF P!LoopInv, P!LoopTypeOK, P!AutoStates, P!Planned
<1> QED BY <1>5, DriveStep DEF P!Resume, P!Forget

LEMMA StopStep == ASSUME P!PlanningInv, P!Stop PROVE P!PlanningInv'
<1>1. PICK n : auto' = [auto EXCEPT !.paused = TRUE, !.plan = n] /\ n \in {0, auto.plan}
  <2>1. CASE auto.phase = "planning" /\ auto.plan # 0 /\ P!Active /\ P!Kept = P!NoDraft
    BY <2>1 DEF P!Stop
  <2>2. CASE ~(auto.phase = "planning" /\ auto.plan # 0 /\ P!Active /\ P!Kept = P!NoDraft)
    <3>1. auto' = [auto EXCEPT !.paused = TRUE]
      BY <2>2 DEF P!Stop
    <3>2. auto' = [auto EXCEPT !.paused = TRUE, !.plan = auto.plan]
      BY <3>1, LoopFacts
    <3> QED BY <3>2
  <2> QED BY <2>1, <2>2
<1>2. refused' = refused
  BY DEF P!Stop
<1>3. auto' \in P!AutoStates
      /\ auto'.phase = auto.phase /\ auto'.failures = auto.failures /\ auto'.paused
  <2>1. n \in 0..MaxIds
    BY <1>1, LoopFacts, Constants DEF P!AutoStates
  <2> QED BY <1>1, <2>1, LoopFacts DEF P!AutoStates
<1>4. P!LoopInv'
  BY <1>2, <1>3, LoopFacts DEF P!LoopInv, P!LoopTypeOK, P!AutoStates, P!Planned
<1>5. /\ P!Grown /\ P!ScopeInv' /\ revision' \in Nat
      /\ P!ToldInv' /\ P!ViewsInv' /\ P!CallInv' /\ P!RetryInv' /\ P!TurnsInv' /\ P!PlansInv'
      /\ UNCHANGED <<made, revision, turns>>
  BY QuietOK DEF P!Stop
<1>6. P!PlannerInv' /\ P!JobInv'
  <2>1. CASE UNCHANGED P!planner
    BY <1>5, <2>1, Frames DEF P!planner, P!Stop, P!console
  <2>2. CASE P!StopGeneration
    BY <1>5, <2>2, StopOK DEF P!Stop, P!console
  <2> QED BY <2>1, <2>2 DEF P!Stop
<1>7. P!CountInv'
  BY SpendCounts DEF P!Stop
<1> QED BY <1>4, <1>5, <1>6, <1>7, Frames DEF P!PlanningInv, P!Stop, P!console

LEMMA AdvanceOK ==
  ASSUME P!PlanningInv, P!Running, NEW stage \in {"planning", "saving", "running"}, P!Advance(stage)
  PROVE  P!LoopInv'
<1>1. auto' = [auto EXCEPT !.phase = stage] /\ refused' = refused
  BY DEF P!Advance
<1>2. /\ auto' \in P!AutoStates
      /\ auto'.failures = auto.failures
  BY <1>1, LoopFacts DEF P!Jobs, P!AutoStates
<1> QED BY <1>1, <1>2, LoopFacts DEF P!LoopInv, P!LoopTypeOK, P!AutoStates, P!Running

LEMMA AdvanceStep ==
  ASSUME P!PlanningInv, P!Running, NEW stage \in {"planning", "saving", "running"}, P!Advance(stage)
  PROVE  P!PlanningInv'
BY AdvanceOK, DriveStep DEF P!Advance

LEMMA FailStep == ASSUME P!PlanningInv, P!Fail PROVE P!PlanningInv'
<1>1. auto' = [auto EXCEPT !.phase = "failed"] /\ refused' = refused
  BY DEF P!Fail
<1>2. P!LoopInv'
  BY <1>1, LoopFacts DEF P!LoopInv, P!LoopTypeOK, P!AutoStates, P!Planned
<1> QED BY <1>2, DriveStep DEF P!Fail

\* A submission, or the pause that stands in its place.
LEMMA ProposeStep ==
  ASSUME P!PlanningInv, P!Running, NEW key, NEW command, NEW state, P!Propose(key, command, state),
         UNCHANGED P!Quiet,
         used < MaxIds => P!CommandOK(command) /\ command.op # "turn",
         used < MaxIds =>
            /\ state \in P!AutoStates
            /\ state.failures = auto.failures
  PROVE  P!PlanningInv'
<1>0. used < MaxIds /\ used' = used + 1 /\ UNCHANGED <<P!planner, bounds>>
  BY DEF P!Propose
<1>1. /\ P!Grown /\ P!ScopeInv' /\ revision' \in Nat
      /\ P!ToldInv' /\ P!ViewsInv' /\ P!CallInv' /\ P!RetryInv' /\ P!TurnsInv' /\ P!PlansInv'
      /\ UNCHANGED <<made, revision, turns>>
  BY QuietOK
<1> DEFINE transient == lastAuto # P!NoCommand /\ lastAuto.transient
<1>2. PICK halts \in BOOLEAN :
         /\ transient /\ refused + 1 >= TransientLimit => halts
         /\ refused' = IF transient THEN refused + 1 ELSE 0
         /\ auto' = IF halts THEN [state EXCEPT !.paused = TRUE] ELSE state
         /\ IF halts THEN UNCHANGED <<lastAuto, slot, last, disk>> ELSE P!Submit(command)
  <2> DEFINE counted == IF transient THEN [tries EXCEPT ![lastAuto.key] = P!Later(@, 1) - 1]
                    ELSE tries
             h == P!Exhausted(transient, counted[key])
  <2>1. /\ transient /\ refused + 1 >= TransientLimit => h
        /\ refused' = IF transient THEN refused + 1 ELSE 0
        /\ auto' = IF h THEN [state EXCEPT !.paused = TRUE] ELSE state
        /\ IF h THEN UNCHANGED <<lastAuto, slot, last, disk>> ELSE P!Submit(command)
    BY DEF P!Propose, P!Exhausted
  <2>2. h \in BOOLEAN
    BY DEF P!Exhausted
  <2> HIDE DEF h, transient
  <2> QED BY <2>1, <2>2
<1> HIDE DEF transient
<1>3. P!ConsoleInv' /\ P!WaitingInv' /\ UNCHANGED disk
  <2>1. CASE halts
    BY <1>1, <1>2, <2>1, Frames
  <2>2. CASE ~halts
    <3>1. slot' = command /\ last' = command /\ UNCHANGED disk
      BY <1>2, <2>2 DEF P!Submit
    <3> QED BY <1>0, <1>1, <3>1, PlacesOK DEF P!WaitingInv
  <2> QED BY <2>1, <2>2
<1>4. refused < TransientLimit /\ refused \in Nat /\ TransientLimit \in Nat /\ 0 < TransientLimit
  BY LoopFacts, Constants DEF P!Running
<1>5. refused' \in 0..TransientLimit /\ (halts \/ refused' < TransientLimit)
  BY <1>2, <1>4
<1>6. /\ auto' \in P!AutoStates
      /\ auto'.failures = auto.failures /\ (halts => auto'.paused)
  BY <1>0, <1>2 DEF P!Jobs, P!AutoStates
<1>7. P!LoopInv'
  BY <1>5, <1>6, LoopFacts DEF P!LoopInv, P!LoopTypeOK, P!AutoStates, P!Running
<1> QED BY <1>0, <1>1, <1>3, <1>7, Frames, CountFrame DEF P!PlanningInv, P!planner

LEMMA SeenAgrees ==
  ASSUME P!PlanningInv
  PROVE  /\ Len(P!SeenScope) = scopeView /\ DOMAIN P!SeenScope = 1..scopeView
         /\ \A i \in 1..scopeView : P!SeenScope[i] = scope[i] /\ i \in DOMAIN scope
<1>1. scope \in Seq(P!Receipt) /\ scopeView \in 0..Len(scope) /\ Len(scope) \in Nat
  BY Views
<1> QED BY <1>1 DEF P!SeenScope

LEMMA ScopingStep == ASSUME P!PlanningInv, P!Scoping PROVE P!PlanningInv'
<1>1. CASE P!Fail
  BY <1>1, FailStep
<1>2. CASE P!Advance("planning")
  BY <1>2, AdvanceStep DEF P!Scoping, P!Tick
<1>3. CASE ~P!Fail /\ ~P!Advance("planning")
  <2>1. PICK action \in {"confirm", "draft"} :
           /\ action = "confirm" <=> P!Pending(P!SeenScope) /\ P!Author(P!SeenScope) = "autopilot"
           /\ P!Propose(action, P!ScopeCommand(P!ScopeRequest(used + 1, action, "autopilot",
               scopeView)),
                      auto)
    BY <1>3 DEF P!Scoping
  <2>2. PICK r : r = P!ScopeRequest(used + 1, action, "autopilot", scopeView)
    OBVIOUS
  <2>3. used < MaxIds /\ "autopilot" \in Writers /\ scopeView \in Nat /\ action \in P!Actions
    BY <2>1, Views, Constants DEF P!Propose, P!Actions
  <2>4. /\ r \in P!ScopeRequests /\ r.by = "autopilot" /\ r.action = action
        /\ r.expected = scopeView
    BY <2>2, <2>3, ScopeRequestOK
  <2>5. P!OwnRequest(r)
    <3> SUFFICES ASSUME action = "confirm"
                 PROVE  scopeView \in DOMAIN scope /\ scope[scopeView].by = "autopilot"
      BY <2>4 DEF P!OwnRequest
    <3>1. P!SeenScope # <<>> /\ P!DraftRevision(P!SeenScope) = Len(P!SeenScope)
          /\ P!SeenScope[P!DraftRevision(P!SeenScope)].by = "autopilot"
      BY <2>1 DEF P!Pending, P!HasBrief, P!DraftRevision, P!Author
    <3>2. scopeView \in 1..scopeView
      BY <3>1, SeenAgrees, Views
    <3> QED BY <3>1, <3>2, SeenAgrees
  <2>6. P!CommandOK(P!ScopeCommand(r)) /\ P!ScopeCommand(r).op # "turn"
    BY <2>4, <2>5, ScopeCommandOK
  <2>7. P!Propose(action, P!ScopeCommand(r), auto) /\ P!Running /\ UNCHANGED P!Quiet
    BY <2>1, <2>2 DEF P!Scoping, P!Tick, P!Propose
  <2> QED BY <2>6, <2>7, LoopFacts, ProposeStep
<1> QED BY <1>1, <1>2, <1>3

LEMMA PlanFailedOK == ASSUME P!PlanningInv, P!Running, P!PlanFailed PROVE P!LoopInv'
<1>1. PICK stage \in {auto.phase, "failed"} :
         /\ auto' = [auto EXCEPT !.failures = @ + 1, !.plan = 0, !.phase = stage]
         /\ auto.failures + 1 >= PlanAttempts => stage = "failed"
  <2>1. CASE auto.failures + 1 >= PlanAttempts
    BY <2>1 DEF P!PlanFailed
  <2>2. CASE ~(auto.failures + 1 >= PlanAttempts)
    <3>1. auto' = [auto EXCEPT !.failures = @ + 1, !.plan = 0]
      BY <2>2 DEF P!PlanFailed
    <3>2. auto' = [auto EXCEPT !.failures = @ + 1, !.plan = 0, !.phase = auto.phase]
      BY <3>1, LoopFacts
    <3> QED BY <2>2, <3>2
  <2> QED BY <2>1, <2>2
<1>2. auto.failures + 1 \in 0..PlanAttempts /\ 0 \in 0..MaxIds
      /\ auto.failures \in Nat /\ PlanAttempts \in Nat
  BY LoopFacts, Constants DEF P!Running, P!Jobs, P!AutoStates
<1>3. stage \in {"none", "scoping", "planning", "saving", "running", "failed"}
  BY <1>1, LoopFacts DEF P!Jobs, P!AutoStates
<1>4. /\ auto' \in P!AutoStates
      /\ auto'.failures = auto.failures + 1 /\ auto'.phase = stage /\ auto'.paused = auto.paused
  BY <1>1, <1>2, <1>3, LoopFacts DEF P!Jobs, P!AutoStates
<1>5. refused' = refused
  BY DEF P!PlanFailed
<1> QED BY <1>1, <1>2, <1>4, <1>5, LoopFacts
           DEF P!LoopInv, P!LoopTypeOK, P!AutoStates, P!Running, P!Planned

LEMMA PlanningStepStep == ASSUME P!PlanningInv, P!PlanningStep PROVE P!PlanningInv'
<1>0. P!Running /\ ~P!Active
  BY DEF P!PlanningStep, P!Tick
<1>1. CASE P!Advance("saving")
  BY <1>0, <1>1, AdvanceStep
<1>2. CASE P!Fail
  BY <1>2, FailStep
<1>3. CASE draft' \in {draft, P!NoDraft} /\ UNCHANGED <<previous, job>> /\ P!PlanFailed
  <2>1. /\ P!Grown /\ P!ScopeInv' /\ revision' \in Nat
        /\ P!ToldInv' /\ P!ViewsInv' /\ P!CallInv' /\ P!RetryInv' /\ P!TurnsInv' /\ P!PlansInv'
        /\ UNCHANGED <<made, revision, turns>>
    BY <1>3, QuietOK DEF P!PlanFailed
  <2>2. UNCHANGED <<P!console, used, bounds>>
    BY <1>3 DEF P!PlanFailed
  <2>3. P!PlannerInv /\ P!NoDraft \in P!Drafts
    BY Constants DEF P!PlanningInv, P!NoDraft, P!Drafts
  <2>4. P!PlannerInv'
    BY <1>0, <1>3, <2>1, <2>2, <2>3 DEF P!PlannerInv, P!PlannerTypeOK, P!Active, P!MadeAs, P!console
  <2> QED BY <1>0, <1>3, <2>1, <2>2, <2>4, PlanFailedOK, Frames, CountFrame
             DEF P!PlanningInv, P!console
<1>4. CASE P!Propose("plan", P!PlanCommand("autopilot"), [auto EXCEPT !.plan = used + 1])
  <2>1. used < MaxIds /\ UNCHANGED P!Quiet
    BY <1>4 DEF P!Propose
  <2>2. used + 1 \in 0..MaxIds
    BY <2>1, Views, Constants
  <2>3. [auto EXCEPT !.plan = used + 1].failures = auto.failures
    BY LoopFacts
  <2>4. [auto EXCEPT !.plan = used + 1]
           \in P!AutoStates
    BY <2>2, LoopFacts DEF P!Jobs, P!AutoStates
  <2>5. P!CommandOK(P!PlanCommand("autopilot")) /\ P!PlanCommand("autopilot").op # "turn"
    BY <2>1, PlanCommandOK
  <2> QED BY <1>0, <1>4, <2>1, <2>3, <2>4, <2>5, ProposeStep
<1> QED BY <1>1, <1>2, <1>3, <1>4 DEF P!PlanningStep, P!planner

LEMMA SavingStep == ASSUME P!PlanningInv, P!Saving PROVE P!PlanningInv'
<1>0. P!Running /\ ~P!Active
  BY DEF P!Saving, P!Tick
<1>1. CASE P!Advance("running")
  BY <1>0, <1>1, AdvanceStep
<1>2. CASE P!Fail
  BY <1>2, FailStep
<1>3. CASE P!Kept # P!NoDraft
           /\ P!Propose("save", P!SaveCommand("autopilot"), [auto EXCEPT !.save = used + 1])
  <2>1. used < MaxIds /\ UNCHANGED P!Quiet
    BY <1>3 DEF P!Propose
  <2>2. used + 1 \in 0..MaxIds
    BY <2>1, Views, Constants
  <2>3. [auto EXCEPT !.save = used + 1].failures = auto.failures
    BY LoopFacts
  <2>4. [auto EXCEPT !.save = used + 1]
           \in P!AutoStates
    BY <2>2, LoopFacts DEF P!Jobs, P!AutoStates
  <2>5. P!CommandOK(P!SaveCommand("autopilot")) /\ P!SaveCommand("autopilot").op # "turn"
    BY <1>0, <1>3, <2>1, KeptDraft, SaveCommandOK
  <2> QED BY <1>0, <1>3, <2>1, <2>3, <2>4, <2>5, ProposeStep
<1> QED BY <1>1, <1>2, <1>3 DEF P!Saving

-----------------------------------------------------------------------------
(* The rest of the world. *)

LEMMA OthersWriteStep == ASSUME P!PlanningInv, P!OthersWrite PROVE P!PlanningInv'
<1>0. P!PlansInv /\ P!ScopeInv /\ revision \in Nat /\ revision' = revision + 1
      /\ UNCHANGED <<P!scopeVars, plans, made>>
  BY Views DEF P!PlanningInv, P!OthersWrite
<1>1. P!Grown /\ P!ScopeInv' /\ revision' \in Nat
  <2>1. P!ScopeInv' /\ Len(scope) \in Nat
    BY <1>0, ScopeFrame, Views
  <2> QED BY <1>0, <2>1 DEF P!Grown, P!scopeVars
<1>2. P!CountInv'
  BY SpendCounts DEF P!OthersWrite
<1> QED BY <1>1, <1>2, Frames DEF P!PlanningInv, P!OthersWrite, P!planner, P!console, P!calls,
               P!chat, P!loop

LEMMA OthersScopeStep ==
  ASSUME P!PlanningInv, NEW action \in P!Actions, P!OthersScope(action) PROVE P!PlanningInv'
<1>1. PICK r : r = P!ScopeRequest(used + 1, action, "elsewhere", Len(scope)) /\ P!ScopeWrite(r)
  BY DEF P!OthersScope
<1>2. used < MaxIds /\ "elsewhere" \in Writers /\ Len(scope) \in Nat
  BY Views, Constants DEF P!OthersScope
<1>3. r \in P!ScopeRequests /\ r.by = "elsewhere"
  BY <1>1, <1>2, ScopeRequestOK
<1>4. P!Grown /\ P!ScopeInv' /\ revision' \in Nat
  <2>1. P!OwnRequest(r)
    BY <1>3 DEF P!OwnRequest
  <2> QED BY <1>1, <1>3, <2>1, ScopeWriteOK DEF P!OthersScope, P!stores
<1>5. P!CountInv'
  BY SpendCounts DEF P!OthersScope
<1> QED BY <1>4, <1>5, Frames DEF P!PlanningInv, P!OthersScope, P!planner, P!console, P!stores,
               P!loaded, P!calls, P!chat, P!loop

LEMMA CrashStep == ASSUME P!PlanningInv, P!Crash PROVE P!PlanningInv'
<1>1. P!Grown /\ P!ScopeInv' /\ revision' \in Nat
  BY StoresSame DEF P!Crash, P!stores
<1>2. P!ConsoleInv' /\ P!CallInv' /\ P!RetryInv'
  BY <1>1, Emptied, NoCallOK DEF P!Crash, P!RetryInv
<1>3. P!TurnsInv'
  BY DEF P!Crash, P!TurnsInv, P!TurnOK
<1>4. P!ViewsInv'
  BY Views DEF P!Crash, P!ViewsInv, P!scopeVars, P!stores
<1>5. P!PlannerInv' /\ P!JobInv'
  <2>1. P!NoDraft \in P!Drafts /\ P!PlannerInv /\ P!NoJob.at = "none"
        /\ P!NoJob \in P!Jobs
    BY Constants DEF P!NoDraft, P!Drafts, P!PlanningInv, P!NoJob, P!Jobs, P!AutoStates
  <2>2. draft' = disk /\ previous' = P!NoDraft /\ job' = P!NoJob /\ UNCHANGED <<disk, made>>
    BY DEF P!Crash
  <2>3. P!PlannerTypeOK'
    BY <2>1, <2>2 DEF P!PlannerInv, P!PlannerTypeOK
  <2> QED BY <2>1, <2>2, <2>3 DEF P!PlannerInv, P!Active, P!MadeAs, P!JobInv
<1>6. P!LoopInv'
  <2>1. refused' = 0 /\ auto' = IF P!Planned THEN [auto EXCEPT !.paused = TRUE] ELSE auto
    BY DEF P!Crash, P!Forget
  <2>2. 0 \in 0..TransientLimit
    BY Constants
  <2>3. CASE P!Planned
    BY <2>1, <2>2, <2>3, LoopFacts DEF P!LoopInv, P!LoopTypeOK, P!AutoStates, P!Planned
  <2>4. CASE ~P!Planned
    BY <2>1, <2>2, <2>4, LoopFacts DEF P!LoopInv, P!LoopTypeOK, P!AutoStates, P!Planned
  <2> QED BY <2>3, <2>4
<1>7. P!CountInv'
  BY SpendCounts DEF P!Crash
<1> QED BY <1>1, <1>2, <1>3, <1>4, <1>5, <1>6, <1>7, Frames DEF P!PlanningInv, P!Crash, P!stores

-----------------------------------------------------------------------------
(* The invariant. *)

LEMMA InitHolds == ASSUME P!PlanningConstants, P!ScopeConstants, P!Init PROVE P!PlanningInv
<1>0. /\ MaxIds \in Nat /\ MaxReceipts \in Nat /\ PlanAttempts \in Nat \ {0}
      /\ TransientLimit \in Nat \ {0} /\ Limited \subseteq P!Limits
  BY DEF P!PlanningConstants, P!ScopeConstants
<1>1. P!ScopeInv /\ P!ToldInv /\ P!ViewsInv
  BY <1>0 DEF P!Init, P!ScopeInit, P!ScopeInv, P!ScopeTypeOK, P!Coherent, P!OthersDecide,
         P!RoomToAgree, P!Pending, P!HasBrief, P!ToldInv, P!ToldIsWritten, P!ViewsInv
<1>2. P!ConsoleInv /\ P!RetryInv /\ P!WaitingInv
  BY NoCommandOK DEF P!Init, P!ConsoleInv, P!RetryInv, P!WaitingInv, P!NoCommand
<1>3. P!CallInv
  BY <1>0, NoCommandOK DEF P!Init, P!ScopeInit, P!CallInv, P!CommandOK, P!NoCall
<1>4. P!TurnsInv
  BY DEF P!Init, P!TurnsInv, P!TurnOK
<1>5. P!PlannerInv /\ P!JobInv
  <2>1. P!NoDraft \in P!Drafts /\ P!NoJob \in P!Jobs /\ P!NoJob.at = "none"
    BY <1>0 DEF P!NoDraft, P!Drafts, P!NoJob, P!Jobs
  <2> QED BY <2>1 DEF P!Init, P!PlannerInv, P!PlannerTypeOK, P!Active, P!MadeAs, P!JobInv
<1>6. P!PlansInv
  BY DEF P!Init, P!PlansInv, P!PublishedAsPlanned
<1>7. P!LoopInv
  BY <1>0 DEF P!Init, P!LoopInv, P!LoopTypeOK, P!AutoStates, P!Idle, P!Planned
<1>8. P!CountInv
  BY <1>0 DEF P!Init, P!CountInv
<1> QED BY <1>1, <1>2, <1>3, <1>4, <1>5, <1>6, <1>7, <1>8 DEF P!PlanningInv

LEMMA StutterStep == ASSUME P!PlanningInv, UNCHANGED P!vars PROVE P!PlanningInv'
<1>1. P!Grown /\ P!ScopeInv' /\ revision' \in Nat
  BY StoresSame DEF P!vars, P!stores
<1> QED BY <1>1, Frames, CountFrame
           DEF P!vars, P!PlanningInv, P!planner, P!console, P!stores, P!loaded, P!calls, P!chat,
               P!loop

LEMMA InvStep == ASSUME P!PlanningInv, [P!Next]_(P!vars) PROVE P!PlanningInv'
<1>1. CASE P!PlannerStep
  BY <1>1, CheckRevisionStep, CaptureScopeStep, AdmitModelStep, ReplyStep, PollPlannerStep
     DEF P!PlannerStep
<1>2. CASE P!Barrier
  BY <1>2, SaveConversationStep, DispatchPlanStep, DispatchCancelStep, DispatchStoreStep,
     DispatchTurnStep DEF P!Barrier
<1>3. CASE P!Transaction
  BY <1>3, TransactSaveStep, TransactScopeStep, ReadStoresStep, PollStoreStep DEF P!Transaction
<1>4. ASSUME NEW s \in Sessions, P!Router(s) PROVE P!PlanningInv'
  BY <1>4, PrepareTurnStep, StageTurnStep, WithdrawTurnStep, WriteScopeStep, PollTurnStep
     DEF P!Router
<1>5. CASE P!Loop
  BY <1>5, ScopingStep, PlanningStepStep, SavingStep DEF P!Loop
<1>6. CASE P!User
  <2>1. CASE P!UserPlan \/ P!UserRevise \/ P!UserCancel \/ P!UserSave \/ P!UserRefresh
             \/ P!UserClear
    BY <2>1, UserPlanStep, UserReviseStep, UserCancelStep, UserSaveStep, UserRefreshStep,
       UserClearStep
  <2>2. CASE P!Retry \/ P!ResumeTurn \/ \E action \in P!Actions : P!UserScope(action)
    BY <2>2, RetryStep, ResumeTurnStep, UserScopeStep
  <2>3. CASE P!Go \/ P!GoDraft \/ P!Pause \/ P!Stop \/ P!Resume
    BY <2>3, GoStep, GoDraftStep, PauseStep, StopStep, ResumeStep
  <2> QED BY <1>6, <2>1, <2>2, <2>3 DEF P!User
<1>7. ASSUME NEW s \in Sessions, P!Speaks(s) PROVE P!PlanningInv'
  BY <1>7, CancelTurnStep, SayStep DEF P!Speaks
<1>8. CASE P!Others
  BY <1>8, OthersWriteStep, OthersScopeStep DEF P!Others
<1> QED BY <1>1, <1>2, <1>3, <1>4, <1>5, <1>6, <1>7, <1>8, RefreshStep, CrashStep, StutterStep
           DEF P!Next, P!System

LEMMA InvImplies ==
  ASSUME P!PlanningInv
  PROVE  P!ScopeIsOwn /\ P!RoomToAgree /\ P!Coherent /\ P!PublishedAsPlanned
<1>1. P!CommandsTypeOK /\ P!PlannerTypeOK /\ P!LoopTypeOK
  BY DEF P!PlanningInv, P!CommandsTypeOK, P!ConsoleInv, P!CommandOK, P!CallInv, P!RetryInv,
         P!TurnsInv, P!ToldInv, P!PlannerInv, P!LoopInv
<1>2. P!TypeOK
  BY <1>1 DEF P!PlanningInv, P!TypeOK, P!ScopeInv, P!ViewsInv, P!PlansInv, P!CountInv
<1> QED BY <1>2 DEF P!PlanningInv, P!ScopeIsOwn, P!ScopeInv, P!ToldInv, P!PlansInv

-----------------------------------------------------------------------------
(* How a draft leaves. *)

\* The alternatives of the property, as one action.
LEMMA DraftStep ==
  ASSUME P!PlanningInv,
         [P!Next]_(P!vars) PROVE P!LeavesBy(retry # P!NoSave /\ P!PlanSaved(retry.id))
<1> SUFFICES ASSUME P!Kept # P!NoDraft, P!Kept' # P!Kept, bounds'.crashes = bounds.crashes
             PROVE  \/ P!Saved({"plan", "revise", "cancel"}) /\ slot.base = P!Kept.number
                    \/ job.at = "good"
                    \/ auto'.failures > auto.failures
                    \/ retry # P!NoSave /\ P!PlanSaved(retry.id)
  BY DEF P!LeavesBy
<1>0. ~(UNCHANGED <<draft, previous>>)
  BY KeptStays
<1>1. ~P!StopGeneration
  BY DEF P!StopGeneration, P!HandedBack, P!Kept
<1>2. CASE P!PlannerStep
  BY <1>0, <1>1, <1>2 DEF P!PlannerStep, P!CheckRevision, P!CaptureScope, P!AdmitModel, P!Reply,
         P!PollPlanner, P!JobStep
<1>3. CASE P!Barrier
  <2>1. CASE P!DispatchPlan
    BY <1>0, <2>1, Zenon DEF P!DispatchPlan, P!planner, P!Generates, P!SameDraft, P!Saved
  <2>2. CASE P!DispatchCancel
    BY <1>0, <1>1, <2>2, Zenon DEF P!DispatchCancel, P!planner, P!SameDraft, P!Saved
  <2> QED BY <1>0, <1>3, <2>1, <2>2
             DEF P!Barrier, P!SaveConversation, P!DispatchStore, P!DispatchTurn, P!planner
<1>4. CASE P!Transaction
  <2>1. CASE P!PollStore
    BY <1>0, <2>1 DEF P!PollStore, P!PlanSaved
  <2> QED BY <1>0, <1>4, <2>1 DEF P!Transaction, P!TransactSave, P!TransactScope, P!ReadStores,
                 P!planner
<1>5. ASSUME NEW s \in Sessions, P!Router(s) PROVE FALSE
  BY <1>0, <1>5 DEF P!Router, P!PrepareTurn, P!StageTurn, P!WithdrawTurn, P!WriteScope, P!PollTurn,
         P!planner
<1>6. CASE P!Loop
  <2>1. ASSUME NEW stage, P!Advance(stage) PROVE FALSE
    BY <1>0, <2>1 DEF P!Advance, P!planner
  <2>2. ~P!Fail
    BY <1>0 DEF P!Fail, P!planner
  <2>3. ASSUME NEW key, NEW command, NEW state, P!Propose(key, command, state) PROVE FALSE
    BY <1>0, <2>3 DEF P!Propose, P!planner
  <2>4. ASSUME P!PlanFailed, P!Running PROVE auto'.failures > auto.failures
    BY <2>4, LoopFacts, Constants DEF P!PlanFailed, P!AutoStates
  <2> QED BY <1>6, <2>1, <2>2, <2>3, <2>4 DEF P!Loop, P!Scoping, P!PlanningStep, P!Saving, P!Tick
<1>7. CASE P!User
  <2>1. ASSUME NEW command, P!Typed(command) PROVE FALSE
    BY <1>0, <2>1 DEF P!Typed, P!planner
  <2>2. ASSUME NEW stage, P!Begin(stage) PROVE FALSE
    BY <1>0, <2>2 DEF P!Begin, P!planner
  <2>3. CASE P!UserPlan \/ P!UserRevise \/ P!UserCancel \/ P!UserSave
             \/ \E action \in P!Actions : P!UserScope(action)
    BY <2>1, <2>3 DEF P!UserPlan, P!UserRevise, P!UserCancel, P!UserSave, P!UserScope
  <2>4. CASE P!UserRefresh \/ P!UserClear \/ P!Retry \/ P!ResumeTurn
    BY <1>0, <2>4 DEF P!UserRefresh, P!UserClear, P!Retry, P!ResumeTurn, P!planner
  <2>5. CASE P!Go \/ P!GoDraft \/ P!Pause \/ P!Stop \/ P!Resume
    BY <1>0, <1>1, <2>2, <2>5 DEF P!Go, P!GoDraft, P!Pause, P!Stop, P!Resume, P!planner
  <2> QED BY <1>7, <2>3, <2>4, <2>5 DEF P!User
<1>8. ASSUME NEW s \in Sessions, P!Speaks(s) PROVE FALSE
  BY <1>0, <1>8 DEF P!Speaks, P!CancelTurn, P!Say, P!planner
<1>9. CASE P!Others
  BY <1>0, <1>9 DEF P!Others, P!OthersWrite, P!OthersScope, P!planner
<1>10. ~P!Crash
  BY Crashed DEF P!Crash
<1>11. ~P!Refresh /\ ~(UNCHANGED P!vars)
  BY <1>0 DEF P!Refresh, P!vars, P!planner
<1> QED BY <1>2, <1>3, <1>4, <1>5, <1>6, <1>7, <1>8, <1>9, <1>10, <1>11 DEF P!Next, P!System

-----------------------------------------------------------------------------
(* The theorems. *)

\* Every state of Planning has the invariant.
THEOREM PlanningHolds ==
  ASSUME P!PlanningConstants, P!ScopeConstants PROVE P!Spec => []P!PlanningInv
<1>1. P!Init => P!PlanningInv
  BY InitHolds
<1>2. P!PlanningInv /\ [P!Next]_(P!vars) => P!PlanningInv'
  BY InvStep
<1> QED BY <1>1, <1>2, PTL DEF P!Spec

\* A draft of the scope that somebody else wrote is never confirmed by the
\* autopilot, and a chat turn is told that its prompt was applied only if it was.
THEOREM ScopeOwn ==
  ASSUME P!PlanningConstants, P!ScopeConstants PROVE P!Spec => []P!ScopeIsOwn
<1>1. P!PlanningInv => P!ScopeIsOwn
  BY InvImplies
<1> QED BY <1>1, PlanningHolds, PTL

\* Whatever the journal has accepted, its draft can still be agreed on, and read()
\* believes the file.
THEOREM RoomIsLeft ==
  ASSUME P!PlanningConstants, P!ScopeConstants PROVE P!Spec => [](P!RoomToAgree /\ P!Coherent)
<1>1. P!PlanningInv => P!RoomToAgree /\ P!Coherent
  BY InvImplies
<1> QED BY <1>1, PlanningHolds, PTL

\* A plan is saved for the revision and the scope it was made for, and a complete
\* draft leaves only by what was meant for it.
THEOREM PlansKept ==
  ASSUME P!PlanningConstants, P!ScopeConstants PROVE P!Spec => P!PlansHold
<1>1. P!PlanningInv => P!PublishedAsPlanned
  BY InvImplies
<1>2. P!PlanningInv /\ [P!Next]_(P!vars)
        => [P!LeavesBy(retry # P!NoSave /\ P!PlanSaved(retry.id))]_(P!vars)
  BY DraftStep
<1> QED BY <1>1, <1>2, PlanningHolds, PTL DEF P!Spec, P!PlansHold, P!DraftsAreKept
=============================================================================
