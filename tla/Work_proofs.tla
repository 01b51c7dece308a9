----------------------------- MODULE Work_proofs -----------------------------
(***************************************************************************)
(* Proofs about a piece of work.  First a coding worker's run (Work): its  *)
(* check, its model request and what it publishes, for any number of       *)
(* retries, frames and files.  Then the plan that the work comes from      *)
(* (Planning): what is saved, and what the copies of a draft still say.    *)
(***************************************************************************)
EXTENDS Work, PlanningInvariant, SequenceTheorems, TLAPS

-----------------------------------------------------------------------------
(* The check.  What the launcher knows of the processes at each of its      *)
(* steps, so that a status it reports is true when it reports it.           *)

\* Where the processes can live.
TreeHolds ==
    /\ child = "inside" => leader = "running" /\ ~host
    /\ child \in {"member", "escaped"} => host
    /\ leader # "none" /\ ~host => Required \subseteq boundary
    /\ leader = "none" => child = "none"

\* What the launcher is about to conclude.
LauncherHolds ==
    /\ step = "off" => leader = "none" /\ capture = "open"
    /\ step \in {"term", "grace", "kill"} =>
          aim \in {"Cancelled", "OutputLimit", "TimedOut", "Lost"}
    /\ final \notin {"Lost", "Completed"}
    /\ step = "join" /\ final # "Unknown" => ~GroupLive /\ (final = "none" => capture # "open")
    /\ step # "over" => receipt = "none"

\* What its receipt says.
ReceiptHolds ==
    /\ receipt \in Known /\ text => ~Runs
    /\ receipt = "completed" => code = "zero" /\ capture # "open" /\ ~Runs

ExecInv == ExecutionTypeOK /\ TreeHolds /\ LauncherHolds /\ ReceiptHolds

LEMMA ExecUnchanged ==
    ASSUME ExecInv, UNCHANGED execution
    PROVE  ExecInv'
  BY DEF ExecInv, ExecutionTypeOK, TreeHolds, LauncherHolds, ReceiptHolds, GroupLive, Runs,
         execution, tree, output, launcher

LEMMA ProcessKeeps ==
    ASSUME ExecInv, ProcessStep
    PROVE  ExecInv'
<1> USE DEF setting, tree, output, launcher
<1>1. ExecutionTypeOK'
  BY DEF ExecInv, ExecutionTypeOK, ProcessStep, Fork, Leave, LeaderEnds, ChildEnds, Killed,
         Garble, Flood, Ends, ChildGone, Living
<1>2. TreeHolds'
  <2>1. CASE Fork
    BY <2>1 DEF ExecInv, TreeHolds, ExecutionTypeOK, Fork
  <2>2. CASE Leave \/ ChildEnds
    BY <2>2 DEF ExecInv, TreeHolds, Leave, ChildEnds, ChildGone, Living
  <2>3. CASE LeaderEnds \/ Killed
    <3>1. leader # "none" /\ UNCHANGED setting
      BY <2>3 DEF LeaderEnds, Killed, ExecInv, TreeHolds
    <3>2. \/ leader' = "zombie" /\ (child' = child \/ child' = "gone")
             /\ (child = "inside" /\ ~host => child' = "gone")
          \/ leader' = leader /\ child' = "gone"
      BY <2>3 DEF LeaderEnds, Killed, Ends, ChildGone, DiesWithLeader, Required,
         ExecInv, TreeHolds
    <3> QED BY <3>1, <3>2 DEF ExecInv, TreeHolds
  <2>4. CASE Garble \/ Flood
    <3>1. UNCHANGED <<setting, tree>>
      BY <2>4, Zenon DEF Garble, Flood
    <3> QED BY <3>1 DEF ExecInv, TreeHolds
  <2> QED BY <2>1, <2>2, <2>3, <2>4 DEF ProcessStep
<1>3. /\ step' = step /\ aim' = aim /\ final' = final /\ receipt' = receipt
      /\ leader = "running" \/ child \in Living
      /\ leader' = "running" => leader = "running"
      /\ child' = "inside" => child = "inside" \/ leader = "running"
      /\ child' = "member" => child = "member" \/ leader = "running"
      /\ capture' = "open" => capture = "open"
      /\ code' = code \/ leader = "running"
      /\ text' => text
  <2>1. CASE Fork \/ Leave \/ ChildEnds
    BY <2>1 DEF Fork, Leave, ChildEnds, ChildGone, Living
  <2>2. CASE LeaderEnds \/ Killed
    BY <2>2 DEF LeaderEnds, Killed, Ends, ChildGone, Living
  <2>3. CASE Garble
    BY <2>3 DEF Garble, Talks
  <2>4. CASE Flood
    <3>1. /\ UNCHANGED <<setting, tree, launcher>> /\ Talks /\ capture' = "capped"
          /\ text' = text \/ text' = FALSE
      BY <2>4, Zenon DEF Flood
    <3> QED BY <3>1 DEF Talks
  <2> QED BY <2>1, <2>2, <2>3, <2>4 DEF ProcessStep
<1>4. leader # "none"
  BY <1>3 DEF ExecInv, TreeHolds, Living
<1>5. LauncherHolds'
  BY <1>3, <1>4 DEF ExecInv, LauncherHolds, GroupLive
<1>6. ReceiptHolds'
  <2>1. Runs' => Runs
    BY <1>3 DEF Runs
  <2> QED BY <1>3, <2>1 DEF ExecInv, ReceiptHolds, Runs
<1> QED BY <1>1, <1>2, <1>5, <1>6 DEF ExecInv

LEMMA LaunchKeeps ==
    ASSUME ExecInv, Launch
    PROVE  ExecInv'
<1> USE DEF setting, tree, output, launcher
<1>1. ExecutionTypeOK'
  BY DEF ExecInv, ExecutionTypeOK, Launch, Refuses, StartFails, Starts
<1>2. TreeHolds' /\ LauncherHolds' /\ ReceiptHolds'
  BY DEF ExecInv, TreeHolds, LauncherHolds, ReceiptHolds, Launch, Refuses, StartFails, Starts,
         Accepted, BoundaryComplete, GroupLive, Runs, Known
<1> QED BY <1>1, <1>2 DEF ExecInv

LEMMA LauncherKeeps ==
    ASSUME ExecInv, NEW wanted, LauncherStep(wanted)
    PROVE  ExecInv'
<1> USE DEF setting, tree, output, launcher
<1>1. CASE \/ Poll(wanted) \/ Limit \/ WaitFails \/ Deadline \/ Turn
  <2>1. ExecutionTypeOK'
    BY <1>1 DEF ExecInv, ExecutionTypeOK, Poll, Limit, WaitFails, Deadline, Turn,
                Terminate, Goes, Statuses
  <2>2. TreeHolds' /\ LauncherHolds' /\ ReceiptHolds'
    BY <1>1 DEF ExecInv, TreeHolds, LauncherHolds, ReceiptHolds, Poll, Limit, WaitFails,
                Deadline, Turn, Terminate, Goes, GroupLive, Runs
  <2> QED BY <2>1, <2>2 DEF ExecInv
<1>2. CASE Wait
  <2>1. ExecutionTypeOK'
    BY <1>2 DEF ExecInv, ExecutionTypeOK, Wait
  <2>2. TreeHolds' /\ LauncherHolds' /\ ReceiptHolds'
    BY <1>2 DEF ExecInv, TreeHolds, LauncherHolds, ReceiptHolds, Wait, Finished, GroupLive, Runs
  <2> QED BY <2>1, <2>2 DEF ExecInv
<1>3. CASE Term \/ Grace \/ Kill
  <2>1. /\ leader' \in {leader, "reaped"} /\ (leader = "running" => leader' = "running")
        /\ (leader = "none" => leader' = "none")
        /\ UNCHANGED <<setting, code, child, holds, output>>
        /\ signal' \in {signal, "term", "kill"}
        /\ receipt = "none"
    BY <1>3 DEF Term, Grace, Kill, Reaped, ExecInv, LauncherHolds
  <2>2. \/ /\ step' \in {"grace", "kill"} /\ UNCHANGED <<final, receipt, aim>>
        \/ /\ step' = "over" /\ receipt' = "outcome-unknown" /\ final' = "none" /\ aim' = "none"
        \/ /\ step' = "join" /\ UNCHANGED <<receipt, aim>> /\ final' = "Unknown"
        \/ /\ step' = "join" /\ UNCHANGED <<receipt, aim>> /\ final' = aim /\ ~GroupLive
           /\ aim \in {"Cancelled", "OutputLimit", "TimedOut"}
    BY <1>3 DEF Term, Grace, Kill, Proved, Unproved, Concluded, Returned, ExecInv, LauncherHolds
  <2>3. ExecutionTypeOK'
    BY <2>1, <2>2 DEF ExecInv, ExecutionTypeOK, Statuses
  <2>4. TreeHolds' /\ LauncherHolds' /\ ReceiptHolds'
    BY <1>3, <2>1, <2>2 DEF ExecInv, TreeHolds, LauncherHolds, ReceiptHolds, GroupLive, Runs,
       Known, Term, Grace, Kill
  <2> QED BY <2>3, <2>4 DEF ExecInv
<1>4. CASE Join
  <2>1. /\ step = "join" /\ step' = "over" /\ final' = "none" /\ aim' = "none"
        /\ \/ receipt' = IF capture = "open" THEN "outcome-unknown" ELSE Named(Verdict)
           \/ receipt' = "no-receipt"
        /\ UNCHANGED <<setting, tree, output, signal>>
    BY <1>4 DEF Join, Returned
  <2>2. final \in {"none", "Cancelled", "TimedOut", "OutputLimit", "Unknown"}
    BY DEF ExecInv, ExecutionTypeOK, LauncherHolds, Statuses
  <2>3. \/ Verdict = "OutputLimit" /\ ~text
        \/ Verdict = final /\ final # "none" /\ text
        \/ Verdict = "OutputLimit" /\ final = "none" /\ text
        \/ Verdict = "Completed" /\ final = "none" /\ text
    BY DEF Verdict, ExecInv, ExecutionTypeOK
  <2>4. Named(Verdict) \in Known \cup {"outcome-unknown"}
    BY <2>2, <2>3 DEF Named, Known
  <2>5. ExecutionTypeOK'
    BY <2>1, <2>4 DEF ExecInv, ExecutionTypeOK
  <2>6. final # "Unknown" => ~Runs
    BY <2>1 DEF ExecInv, LauncherHolds, TreeHolds, GroupLive, Runs
  <2>7. Verdict = "Completed" => final = "none" /\ text
    BY <2>2, <2>3
  <2>8. Named(Verdict) = "completed" => Verdict = "Completed" /\ code = "zero"
    BY <2>2, <2>3 DEF Named
  <2>9. Verdict = "Unknown" => Named(Verdict) = "outcome-unknown"
    BY DEF Named
  <2>10. text /\ final = "Unknown" => Verdict = "Unknown"
    BY <2>3
  <2>11. ReceiptHolds'
    BY <2>1, <2>6, <2>7, <2>8, <2>9, <2>10 DEF ReceiptHolds, Runs, Known
  <2>12. TreeHolds' /\ LauncherHolds'
    BY <2>1 DEF ExecInv, TreeHolds, LauncherHolds
  <2> QED BY <2>5, <2>11, <2>12 DEF ExecInv
<1> QED BY <1>1, <1>2, <1>3, <1>4 DEF LauncherStep

LEMMA CaptureKeeps ==
    ASSUME ExecInv, CaptureEnds
    PROVE  ExecInv'
<1> USE DEF setting, tree, output, launcher
<1>1. ExecutionTypeOK'
  BY DEF ExecInv, ExecutionTypeOK, CaptureEnds
<1> QED BY <1>1 DEF ExecInv, TreeHolds, LauncherHolds, ReceiptHolds, CaptureEnds, GroupLive, Runs

-----------------------------------------------------------------------------
(* The model request and the worker that hears it.                          *)

\* The channel holds what the server said in this try and the worker has not
\* heard; only its last event can be the end of the request.
ChannelHolds ==
    /\ request \in {"queued", "admitted", "sending", "waiting"} => came = "nothing"
    /\ request = "waiting" => sends <= MaxRetries
    /\ came # "text" => spoken = <<>>
    /\ request # "off" => Len(spoken) = Len(answer) + Len(events)
    /\ Len(answer) <= Len(spoken)
    /\ \A i \in 1..Len(answer) : answer[i] = spoken[i]
    /\ \A i \in 1..Len(events) :
          /\ i < Len(events) \/ request # "off" => events[i].kind = "text"
          /\ events[i].kind = "text" =>
                /\ Len(answer) + i <= Len(spoken)
                /\ events[i].of = spoken[Len(answer) + i]
          /\ events[i].kind = "done" => Len(spoken) = Len(answer) + i - 1
          /\ events[i].kind = "unreachable" => spoken = <<>>

\* A frame of text: its try and its place in it.
TextFrames == Nat \X Nat

Before == {"preparing", "reading", "prompting"}

HearingHolds ==
    /\ at \in Before => /\ request = "off" /\ came = "nothing" /\ spoken = <<>>
                        /\ answer = <<>> /\ events = <<>>
    /\ at \in Before \cup {"asking"} => ~done /\ evidence.failure = "none"
    /\ at \in {"stopping", "answering"} /\ done => request = "off" /\ answer = spoken
    /\ evidence.failure = "model-unreachable" => answer = <<>>
    /\ at \notin Before \cup {"asking", "stopping"} => request = "off"

StreamTypeOK == /\ ProviderTypeOK /\ at \in Places /\ answer \in Seq(Nat \X Nat)
                /\ done \in BOOLEAN /\ evidence \in Evidence

StreamInv == StreamTypeOK /\ ChannelHolds /\ HearingHolds

\* What the request does to the channel: it goes on, it ends with an event, the
\* server thinks or says a frame, or it is sent again.
GoesOn == /\ request' \in {"admitted", "sending", "streaming", "waiting"}
          /\ request' # "streaming" => came = "nothing"
          /\ request' = "waiting" => sends <= MaxRetries
          /\ UNCHANGED <<sends, came, spoken, events>>

EndsWith(kind) == /\ request' = "off" /\ UNCHANGED <<sends, came, spoken>> /\ Emit(kind)
                  /\ kind = "unreachable" => spoken = <<>>

Stops == \E kind \in {"done", "failed", "unreachable"} : EndsWith(kind)

Thinks == /\ request = "streaming" /\ came' = "thinking" /\ came = "nothing"
          /\ UNCHANGED <<request, sends, spoken, events>>

LEMMA ModelCases ==
    ASSUME StreamInv, NEW wanted, ModelStep(wanted)
    PROVE  request # "off" /\ (GoesOn \/ Stops \/ Thinks \/ Text \/ Again)
<1>1. \A kind \in {"failed", "done"} : Fails(kind) => Stops
  BY DEF Fails, Stops, EndsWith
<1>2. spoken = <<>> => (Fails("unreachable") => Stops)
  BY DEF Fails, Stops, EndsWith
<1>3. ASSUME NEW kind \in {"failed", "unreachable"}, spoken = <<>>, came = "nothing",
             Retries(kind)
      PROVE  GoesOn \/ Stops
  BY <1>1, <1>2, <1>3 DEF Retries, GoesOn
<1>4. came = "nothing" => spoken = <<>>
  BY DEF StreamInv, ChannelHolds
<1>5. request \in {"queued", "admitted", "sending", "waiting"} => came = "nothing" /\ spoken = <<>>
  BY <1>4 DEF StreamInv, ChannelHolds
<1>6. CASE Granted
  BY <1>1, <1>5, <1>6 DEF Granted, GoesOn
<1>7. CASE Check(wanted)
  BY <1>1, <1>5, <1>7 DEF Check, GoesOn
<1>8. CASE Send
  <2>1. \A kind \in {"failed", "unreachable"} : Retries(kind) => GoesOn \/ Stops
    BY <1>3, <1>5, <1>8 DEF Send
  <2> QED BY <1>1, <1>8, <2>1 DEF Send, GoesOn
<1>9. CASE Thinking
  BY <1>9 DEF Thinking, Thinks
<1>10. CASE Text
  BY <1>10 DEF Text
<1>11. CASE Done
  <2>1. Done => request = "streaming" /\ Stops
    BY <1>1 DEF Done, Stops, EndsWith
  <2> QED BY <1>11, <2>1
<1>12. CASE Broken
  <2>1. CASE came = "nothing"
    BY <1>3, <1>4, <1>12, <2>1 DEF Broken, Breaks
  <2>2. CASE came # "nothing"
    BY <1>1, <1>12, <2>2 DEF Broken, Breaks
  <2> QED BY <1>12, <2>1, <2>2 DEF Broken
<1>13. CASE Stalled \/ Expires
  BY <1>1, <1>13 DEF Stalled, Expires
<1>14. CASE Again
  BY <1>14 DEF Again
<1> QED
  BY <1>6, <1>7, <1>8, <1>9, <1>10, <1>11, <1>12, <1>13, <1>14 DEF ModelStep

LEMMA SayTyped ==
    ASSUME StreamTypeOK, NEW kind \in {"done", "failed", "unreachable"}, Emit(kind)
    PROVE  /\ events' \in Seq(Event) /\ Len(events') = Len(events) + 1
           /\ \A i \in 1..Len(events) : events'[i] = events[i]
           /\ events'[Len(events) + 1].kind = kind
<1>1. [kind |-> kind, of |-> <<0, 0>>] \in Event
  BY DEF Event
<1> QED BY <1>1 DEF Emit, StreamTypeOK, ProviderTypeOK

LEMMA Extended ==
    ASSUME NEW S, NEW s \in Seq(S), NEW e \in S
    PROVE  /\ Append(s, e) \in Seq(S) /\ Len(Append(s, e)) = Len(s) + 1
           /\ \A i \in 1..Len(s) : Append(s, e)[i] = s[i]
           /\ Append(s, e)[Len(s) + 1] = e
  OBVIOUS

LEMMA SamePoints ==
    ASSUME NEW S, NEW s \in Seq(S), NEW u \in Seq(S), Len(s) = Len(u),
           \A i \in 1..Len(s) : s[i] = u[i]
    PROVE  s = u
  BY SeqEqual

LEMMA StreamsKeep ==
    ASSUME StreamInv, NEW wanted, ModelStep(wanted),
           UNCHANGED <<at, answer, done, evidence>>
    PROVE  StreamInv'
<1>1. /\ request # "off" /\ at \in {"asking", "stopping"} /\ ~(at = "stopping" /\ done)
  BY ModelCases DEF StreamInv, HearingHolds
<1>2. /\ Len(spoken) = Len(answer) + Len(events) /\ events \in Seq(Event)
      /\ Len(answer) \in Nat /\ Len(events) \in Nat /\ spoken \in Seq(TextFrames)
      /\ sends \in 0..(MaxRetries + 1) /\ sends \in Nat /\ Len(spoken) \in Nat
      /\ answer \in Seq(TextFrames)
  BY <1>1, ProviderAssumption DEF StreamInv, StreamTypeOK, ChannelHolds, ProviderTypeOK, TextFrames
<1>3. HearingHolds'
  BY <1>1 DEF StreamInv, HearingHolds, Before
<1>4. CASE GoesOn
  <2>1. StreamTypeOK'
    BY <1>4 DEF GoesOn, StreamInv, StreamTypeOK, ProviderTypeOK, Requests
  <2>2. ChannelHolds'
    BY <1>1, <1>4 DEF GoesOn, StreamInv, ChannelHolds
  <2> QED BY <1>3, <2>1, <2>2 DEF StreamInv
<1>5. ASSUME NEW kind \in {"done", "failed", "unreachable"}, EndsWith(kind)
      PROVE  StreamInv'
  <2> USE <1>5 DEF EndsWith
  <2>1. /\ events' \in Seq(Event) /\ Len(events') = Len(events) + 1
        /\ \A i \in 1..Len(events) : events'[i] = events[i]
        /\ events'[Len(events) + 1].kind = kind
    BY <1>5, SayTyped DEF StreamInv
  <2>2. StreamTypeOK'
    BY <1>5, <2>1 DEF StreamInv, StreamTypeOK, ProviderTypeOK, Requests
  <2>3. ASSUME NEW i \in 1..Len(events')
        PROVE  /\ i < Len(events') => events'[i].kind = "text"
               /\ events'[i].kind = "text" =>
                     /\ Len(answer) + i <= Len(spoken)
                     /\ events'[i].of = spoken[Len(answer) + i]
               /\ events'[i].kind = "done" => Len(spoken) = Len(answer) + i - 1
               /\ events'[i].kind = "unreachable" => spoken = <<>>
    <3>1. CASE i \in 1..Len(events)
      <4>1. events'[i].kind = "text"
        BY <1>1, <2>1, <3>1 DEF StreamInv, ChannelHolds
      <4> QED BY <2>1, <3>1, <4>1 DEF StreamInv, ChannelHolds
    <3>2. CASE i = Len(events) + 1
      BY <1>2, <1>5, <2>1, <3>2
    <3> QED BY <1>2, <2>1, <3>1, <3>2
  <2>4. ChannelHolds'
    BY <1>5, <2>3 DEF StreamInv, ChannelHolds
  <2> QED BY <1>3, <2>2, <2>4 DEF StreamInv
<1>6. CASE Thinks
  <2>1. StreamTypeOK'
    BY <1>6 DEF Thinks, StreamInv, StreamTypeOK, ProviderTypeOK
  <2>2. ChannelHolds'
    BY <1>1, <1>6 DEF Thinks, StreamInv, ChannelHolds
  <2> QED BY <1>3, <2>1, <2>2 DEF StreamInv
<1>7. CASE Text
  <2> DEFINE frame == <<sends, Len(spoken) + 1>>
             event == [kind |-> "text", of |-> frame]
  <2>1. frame \in TextFrames /\ event \in Event
    BY <1>2 DEF Event, TextFrames
  <2>2. event.kind = "text" /\ event.of = frame
    OBVIOUS
  <2>3. /\ spoken' = Append(spoken, frame) /\ events' = Append(events, event)
        /\ request = "streaming" /\ came' = "text" /\ UNCHANGED <<request, sends>>
    BY <1>7 DEF Text
  <2> HIDE DEF frame, event
  <2>4. /\ spoken' \in Seq(TextFrames) /\ Len(spoken') = Len(spoken) + 1
        /\ \A i \in 1..Len(spoken) : spoken'[i] = spoken[i]
        /\ spoken'[Len(spoken) + 1] = frame
    <3>1. spoken \in Seq(TextFrames) /\ frame \in TextFrames /\ spoken' = Append(spoken, frame)
      BY <1>2, <2>1, <2>3
    <3> QED BY ONLY <3>1, Extended
  <2>5. /\ events' \in Seq(Event) /\ Len(events') = Len(events) + 1
        /\ \A i \in 1..Len(events) : events'[i] = events[i]
        /\ events'[Len(events) + 1] = event
    BY <1>2, <2>1, <2>3
  <2>6. StreamTypeOK'
    BY <2>3, <2>4, <2>5 DEF StreamInv, StreamTypeOK, ProviderTypeOK, TextFrames
  <2>7. ASSUME NEW i \in 1..Len(events')
        PROVE  /\ events'[i].kind = "text" /\ Len(answer) + i <= Len(spoken')
               /\ events'[i].of = spoken'[Len(answer) + i]
    <3>1. CASE i \in 1..Len(events)
      <4>1. events[i].kind = "text"
        BY <1>1, <3>1 DEF StreamInv, ChannelHolds
      <4>2. Len(answer) + i <= Len(spoken) /\ events[i].of = spoken[Len(answer) + i]
        BY <3>1, <4>1 DEF StreamInv, ChannelHolds
      <4>3. Len(answer) + i \in 1..Len(spoken)
        BY <1>2, <3>1, <4>2
      <4>4. spoken'[Len(answer) + i] = spoken[Len(answer) + i]
        BY <2>4, <4>3
      <4>5. events'[i] = events[i] /\ Len(spoken') >= Len(spoken)
        BY <1>2, <2>4, <2>5, <3>1
      <4>6. Len(answer) + i <= Len(spoken')
        BY <1>2, <2>4, <3>1, <4>2, <4>5
      <4> QED BY <4>1, <4>2, <4>4, <4>5, <4>6
    <3>2. CASE i = Len(events) + 1
      <4>1. Len(answer) + i = Len(spoken) + 1
        BY <1>2, <3>2
      <4> QED BY <1>2, <2>2, <2>4, <2>5, <3>2, <4>1
    <3> QED BY <1>2, <2>5, <3>1, <3>2
  <2>8. /\ Len(spoken') = Len(answer) + Len(events') /\ Len(answer) <= Len(spoken')
        /\ \A i \in 1..Len(answer) : answer[i] = spoken'[i]
    <3>1. Len(answer) <= Len(spoken) /\ \A i \in 1..Len(answer) : answer[i] = spoken[i]
      BY DEF StreamInv, ChannelHolds
    <3>2. \A i \in 1..Len(answer) : i \in 1..Len(spoken)
      BY <1>2, <3>1
    <3> QED BY <1>2, <2>4, <2>5, <3>1, <3>2
  <2>9. ChannelHolds'
    BY <2>3, <2>7, <2>8 DEF ChannelHolds
  <2> QED BY <1>3, <2>6, <2>9 DEF StreamInv
<1>8. CASE Again
  <2>1. spoken = <<>> /\ sends <= MaxRetries
    BY <1>8 DEF Again, StreamInv, ChannelHolds
  <2>2. StreamTypeOK'
    BY <1>2, <1>8, <2>1, ProviderAssumption
    DEF Again, StreamInv, StreamTypeOK, ProviderTypeOK, Requests
  <2>3. ChannelHolds'
    BY <1>8, <2>1 DEF Again, StreamInv, ChannelHolds
  <2> QED BY <1>3, <2>2, <2>3 DEF StreamInv
<1> QED BY <1>4, <1>5, <1>6, <1>7, <1>8, ModelCases DEF Stops

LEMMA HearKeeps ==
    ASSUME StreamInv, Hear
    PROVE  StreamInv'
<1>1. /\ events \in Seq(Event) /\ answer \in Seq(TextFrames) /\ spoken \in Seq(TextFrames)
      /\ Len(answer) \in Nat /\ Len(events) \in Nat /\ Len(spoken) \in Nat
      /\ at = "asking" /\ ~done /\ evidence \in Evidence /\ evidence.failure = "none"
      /\ UNCHANGED <<request, sends, came, spoken>>
  BY DEF Hear, StreamInv, StreamTypeOK, ProviderTypeOK, HearingHolds, TextFrames
<1>2. CASE cancel
  <2>1. UNCHANGED <<answer, done, events, evidence>> /\ at' = "stopping"
    BY <1>2 DEF Hear
  <2>2. StreamTypeOK'
    BY <1>1, <2>1 DEF StreamInv, StreamTypeOK, ProviderTypeOK, Places
  <2>3. ChannelHolds'
    BY <1>1, <2>1 DEF StreamInv, ChannelHolds
  <2>4. HearingHolds'
    BY <1>1, <2>1 DEF StreamInv, HearingHolds, Before
  <2> QED BY <2>2, <2>3, <2>4 DEF StreamInv
<1>3. CASE ~cancel
  <2> DEFINE event == Head(events)
  <2>1. /\ events # <<>> /\ events' = Tail(events)
        /\ answer' = IF event.kind = "text" THEN Append(answer, event.of) ELSE answer
        /\ done' = (event.kind = "done")
        /\ at' = IF event.kind = "text" THEN at ELSE "stopping"
        /\ evidence' = IF event.kind = "unreachable"
                       THEN [evidence EXCEPT !.failure = "model-unreachable"] ELSE evidence
    BY <1>3 DEF Hear
  <2>2. /\ event = events[1] /\ event \in Event /\ Len(events) >= 1
        /\ Len(events') = Len(events) - 1 /\ events' \in Seq(Event)
        /\ \A i \in 1..Len(events') : i + 1 \in 1..Len(events) /\ events'[i] = events[i + 1]
    BY <1>1, <2>1
  <2>3. event.of \in TextFrames /\ event.kind \in {"text", "done", "unreachable", "failed"}
    BY <2>2 DEF Event, TextFrames
  <2> HIDE DEF event
  <2>4. /\ evidence' \in Evidence
        /\ evidence'.failure = IF event.kind = "unreachable" THEN "model-unreachable" ELSE "none"
    <3>1. [evidence EXCEPT !.failure = "model-unreachable"] \in Evidence
          /\ [evidence EXCEPT !.failure = "model-unreachable"].failure = "model-unreachable"
      BY <1>1 DEF Evidence
    <3> QED BY <1>1, <2>1, <3>1
  <2>5. CASE event.kind = "text"
    <3>1. /\ answer' \in Seq(TextFrames) /\ Len(answer') = Len(answer) + 1
          /\ \A i \in 1..Len(answer) : answer'[i] = answer[i]
          /\ answer'[Len(answer) + 1] = event.of
      BY <1>1, <2>1, <2>3, <2>5
    <3>2. event.of = spoken[Len(answer) + 1] /\ Len(answer) + 1 <= Len(spoken)
      BY <1>1, <2>2, <2>5 DEF StreamInv, ChannelHolds
    <3>3. \A i \in 1..Len(answer') : answer'[i] = spoken[i]
      <4>1. \A i \in 1..Len(answer) : answer[i] = spoken[i]
        BY DEF StreamInv, ChannelHolds
      <4>2. ASSUME NEW i \in 1..Len(answer'), i # Len(answer) + 1
            PROVE  i \in 1..Len(answer)
        BY <1>1, <3>1, <4>2
      <4> QED BY <3>1, <3>2, <4>1, <4>2
    <3>4. ASSUME NEW i \in 1..Len(events')
          PROVE  /\ i < Len(events') \/ request # "off" => events'[i].kind = "text"
                 /\ events'[i].kind = "text" =>
                       /\ Len(answer') + i <= Len(spoken)
                       /\ events'[i].of = spoken[Len(answer') + i]
                 /\ events'[i].kind = "done" => Len(spoken) = Len(answer') + i - 1
                 /\ events'[i].kind = "unreachable" => spoken = <<>>
      <4>1. /\ i + 1 \in 1..Len(events) /\ events'[i] = events[i + 1]
            /\ (i < Len(events') => i + 1 < Len(events))
            /\ Len(answer') + i = Len(answer) + (i + 1)
        BY <1>1, <2>2, <3>1
      <4> QED BY <4>1 DEF StreamInv, ChannelHolds
    <3>5. ChannelHolds'
      <4>1. /\ request # "off" => Len(spoken) = Len(answer') + Len(events')
            /\ Len(answer') <= Len(spoken)
        BY <1>1, <2>2, <3>1, <3>2 DEF StreamInv, ChannelHolds
      <4> QED BY <1>1, <3>3, <3>4, <4>1 DEF StreamInv, ChannelHolds
    <3>6. StreamTypeOK'
      BY <1>1, <2>1, <2>2, <2>4, <2>5, <3>1 DEF StreamInv, StreamTypeOK, ProviderTypeOK, TextFrames
    <3>7. HearingHolds'
      BY <1>1, <2>1, <2>4, <2>5 DEF StreamInv, HearingHolds, Before
    <3> QED BY <3>5, <3>6, <3>7 DEF StreamInv
  <2>6. CASE event.kind # "text"
    <3>1. Len(events) = 1 /\ request = "off"
      <4>1. 1 \in 1..Len(events) /\ events[1].kind # "text"
        BY <1>1, <2>2, <2>6
      <4>2. ~(1 < Len(events)) /\ request = "off"
        BY <4>1 DEF StreamInv, ChannelHolds
      <4>3. Len(events) = 1
        BY <1>1, <2>2, <4>2
      <4> QED BY <4>2, <4>3
    <3>2. Len(events') = 0 /\ answer' = answer /\ at' = "stopping"
      BY <1>1, <2>1, <2>2, <2>6, <3>1
    <3>3. event.kind = "done" => answer = spoken
      <4>1. event.kind = "done" => Len(spoken) = Len(answer) + 1 - 1
        BY <2>2 DEF StreamInv, ChannelHolds
      <4>2. event.kind = "done" => Len(spoken) = Len(answer)
        BY <1>1, <4>1
      <4>3. \A i \in 1..Len(answer) : answer[i] = spoken[i]
        BY DEF StreamInv, ChannelHolds
      <4> QED BY <1>1, <4>2, <4>3, SamePoints
    <3>4. event.kind = "unreachable" => answer = <<>>
      <4>1. event.kind = "unreachable" => spoken = <<>> /\ Len(answer) <= Len(spoken)
        BY <2>2 DEF StreamInv, ChannelHolds
      <4> QED BY <1>1, <4>1
    <3>5. ChannelHolds'
      BY <1>1, <3>1, <3>2 DEF StreamInv, ChannelHolds
    <3>6. StreamTypeOK'
      BY <1>1, <2>1, <2>2, <2>4, <3>2 DEF StreamInv, StreamTypeOK, ProviderTypeOK, Places
    <3>7. HearingHolds'
      BY <1>1, <2>1, <2>4, <3>1, <3>2, <3>3, <3>4 DEF StreamInv, HearingHolds, Before
    <3> QED BY <3>5, <3>6, <3>7 DEF StreamInv
  <2> QED BY <2>5, <2>6
<1> QED BY <1>2, <1>3

-----------------------------------------------------------------------------
(* The worker.                                                              *)

Early == {"preparing", "reading", "prompting", "asking", "stopping", "answering", "writing"}

WorkerTypeOK ==
    /\ {alone, cancel, done, stopped, meddled} \subseteq BOOLEAN
    /\ kept \in {"none", "cut", "whole"} /\ written \in 0..Files
    /\ worktree \subseteq Marks /\ checked \subseteq Marks
    /\ outcome \in {"none", "ok", "error"}

\* What is not yet there while the worker is on its way to the check.
WayHolds ==
    /\ at \in Early => step = "off" /\ ~alone
    /\ ~alone => ~host
    /\ at = "answering" => done
    /\ at \in {"answering", "writing"} => kept = "whole"
    /\ at = "checking" /\ ~alone => kept = "whole" /\ written = Files
    /\ at \in Early \cup {"checking", "inspecting"} => outcome = "none"
    /\ at \in Early \cup {"checking", "inspecting", "settling"} => evidence.status = "none"

\* What a good outcome rests on.
OutcomeHolds ==
    at = "inspecting" \/ outcome = "ok" =>
        ~alone /\ receipt = "completed" /\ kept = "whole" /\ written = Files

\* Nobody but another program changes the worktree after a passed check.
WorktreeHolds ==
    /\ receipt = "completed" /\ ~meddled /\ ~alone => worktree = checked
    /\ ~meddled => "other" \notin worktree
    /\ outcome = "ok" /\ ~meddled => worktree \subseteq {"answer", "check"}

\* What is shown is what is committed.
EvidenceHolds ==
    evidence.status = "ReviewReady" =>
        /\ outcome = "ok"
        /\ at \in {"snapshot", "saving", "saved"} =>
              evidence.patch # {} /\ (~meddled => evidence.patch = worktree)
        /\ at \in {"saving", "saved"} => evidence.candidate = evidence.patch

WorkHolds == WayHolds /\ OutcomeHolds /\ WorktreeHolds /\ EvidenceHolds

WorkInv == ExecInv /\ StreamInv /\ WorkerTypeOK /\ WorkHolds

\* The channel is not touched where the worker goes on without it.
LEMMA StreamStays ==
    ASSUME StreamInv, UNCHANGED <<model, answer, done>>,
           at' \in Places, evidence' \in Evidence,
           evidence'.failure = evidence.failure \/
              evidence'.failure \in {"file-too-large", "sandbox-unavailable"},
           \/ at' = at /\ evidence'.failure = evidence.failure
           \/ at \in Before /\ at' \in Before /\ evidence'.failure = evidence.failure
           \/ /\ request = "off" /\ at' \notin Before \cup {"asking", "stopping"}
              /\ at' = "answering" /\ done => answer = spoken
    PROVE  StreamInv'
<1>1. StreamTypeOK' /\ ChannelHolds'
  BY DEF StreamInv, StreamTypeOK, ProviderTypeOK, ChannelHolds, model
<1>2. HearingHolds'
  BY DEF StreamInv, HearingHolds, Before, model
<1> QED BY <1>1, <1>2 DEF StreamInv

\* The text and the request are dropped together.
LEMMA HangUpKeeps ==
    ASSUME StreamTypeOK, HangUp, at' \in Places, evidence' \in Evidence,
           at' \notin Before \cup {"asking"}
    PROVE  StreamInv'
<1>1. StreamTypeOK'
  BY ProviderAssumption DEF StreamTypeOK, ProviderTypeOK, HangUp, Requests
<1>2. ChannelHolds' /\ HearingHolds'
  BY DEF ChannelHolds, HearingHolds, HangUp, Before
<1> QED BY <1>1, <1>2 DEF StreamInv

\* A sandboxed check that passed has left nothing that could still write.
LEMMA CheckedIsStill ==
    ASSUME WorkInv, receipt = "completed", ~alone
    PROVE  leader # "running" /\ child \notin Living
  BY DEF WorkInv, WorkHolds, WayHolds, ExecInv, ReceiptHolds, TreeHolds, Runs, Living

\* What the supervision of the check changes.
LEMMA SuperviseMoves ==
    ASSUME ExecInv, LauncherStep(cancel) \/ CaptureEnds
    PROVE  /\ step # "off" /\ UNCHANGED setting
           /\ receipt' # receipt => receipt = "none" /\ step' = "over"
           /\ step' # "off"
<1> USE DEF setting
<1>1. CASE LauncherStep(cancel)
  <2>1. CASE \/ Poll(cancel) \/ Limit \/ WaitFails \/ Deadline \/ Turn
    BY <2>1 DEF Poll, Limit, WaitFails, Deadline, Turn, Terminate, Goes
  <2>2. CASE Wait
    BY <2>2 DEF Wait
  <2>3. CASE Term \/ Grace \/ Kill
    BY <2>3 DEF Term, Grace, Kill, Proved, Unproved, Concluded, Returned, ExecInv, LauncherHolds
  <2>4. CASE Join
    BY <2>4 DEF Join, Returned, ExecInv, LauncherHolds
  <2> QED BY <1>1, <2>1, <2>2, <2>3, <2>4 DEF LauncherStep
<1>2. CASE CaptureEnds
  BY <1>2 DEF CaptureEnds, launcher
<1> QED BY <1>1, <1>2
-----------------------------------------------------------------------------
LEMMA InitWork == WorkInit => WorkInv
<1> SUFFICES ASSUME WorkInit PROVE WorkInv
  OBVIOUS
<1>1. /\ host \in BOOLEAN /\ boundary \subseteq Required /\ alone \in BOOLEAN
      /\ ~alone => ~host /\ at = "preparing"
      /\ alone => at = "checking"
      /\ evidence = [status |-> "none", failure |-> "none", patch |-> {}, candidate |-> {"none"}]
  <2>1. host \in BOOLEAN /\ alone \in BOOLEAN
    BY DEF WorkInit
  <2>2. boundary \subseteq Required
    BY DEF WorkInit
  <2>3. evidence = [status |-> "none", failure |-> "none", patch |-> {}, candidate |-> {"none"}]
    BY DEF WorkInit, NoEvidence
  <2>4. (~alone => ~host /\ at = "preparing") /\ (alone => at = "checking")
    BY DEF WorkInit
  <2> QED BY <2>1, <2>2, <2>3, <2>4
<1>0. /\ cancel = FALSE /\ done = FALSE /\ stopped = FALSE /\ meddled = FALSE
      /\ answer = <<>> /\ kept = "none" /\ written = 0 /\ worktree = {} /\ checked = {}
      /\ outcome = "none" /\ ExecutionInit /\ ProviderInit
  BY DEF WorkInit
<1> USE <1>0 DEF ExecutionInit, ProviderInit
<1>2. ExecInv
  BY <1>1 DEF ExecInv, ExecutionTypeOK, TreeHolds, LauncherHolds, ReceiptHolds, Runs, Known,
     GroupLive, Living
<1>3. StreamInv
  <2>1. evidence \in Evidence
    BY <1>1 DEF Evidence
  <2>2. StreamTypeOK
    <3>1. sends \in 0..(MaxRetries + 1) /\ at \in Places /\ request \in Requests
      BY <1>1, ProviderAssumption DEF Places, Requests
    <3>2. spoken \in Seq(Nat \X Nat) /\ answer \in Seq(Nat \X Nat) /\ events \in Seq(Event)
      BY EmptySeq, Zenon
    <3>3. came \in {"nothing", "thinking", "text"} /\ done \in BOOLEAN
      OBVIOUS
    <3> QED BY <2>1, <3>1, <3>2, <3>3, Zenon DEF StreamTypeOK, ProviderTypeOK
  <2>3. ChannelHolds /\ HearingHolds
    BY <1>1 DEF ChannelHolds, HearingHolds, Before
  <2> QED BY <2>2, <2>3 DEF StreamInv
<1>4. WorkerTypeOK
  <2>1. {alone, cancel, done, stopped, meddled} \subseteq BOOLEAN
    BY <1>1
  <2>2. written \in 0..Files
    BY WorkAssumption
  <2> QED BY <2>1, <2>2, Zenon DEF WorkerTypeOK
<1>5. WorkHolds
  <2>1. WayHolds
    BY <1>1 DEF WayHolds, Early
  <2>2. OutcomeHolds /\ WorktreeHolds
    BY <1>1 DEF OutcomeHolds, WorktreeHolds
  <2>3. EvidenceHolds
    BY <1>1 DEF EvidenceHolds
  <2> QED BY <2>1, <2>2, <2>3 DEF WorkHolds
<1> QED BY <1>2, <1>3, <1>4, <1>5 DEF WorkInv

\* Before the model is asked.
LEMMA BeforeKeeps ==
    ASSUME WorkInv, AddWorktree \/ ReadFiles \/ Prompt
    PROVE  WorkInv'
<1> USE DEF Returns
<1>1. /\ UNCHANGED <<alone, execution, cancel, answer, done, stopped, kept, written, worktree,
                     meddled, checked>>
      /\ at \in Before
      /\ \/ at' = "reading" /\ UNCHANGED <<outcome, evidence, model>>
         \/ at' = "prompting" /\ UNCHANGED <<outcome, evidence, model>>
         \/ at' = "asking" /\ UNCHANGED <<outcome, evidence>> /\ Ask
         \/ /\ at' = "settling" /\ outcome' = "error" /\ UNCHANGED model
            /\ evidence' = evidence \/ evidence' = [evidence EXCEPT !.failure = "file-too-large"]
  BY DEF AddWorktree, ReadFiles, Prompt, Before, conversation
<1>2. evidence \in Evidence /\ request = "off" /\ step = "off"
  BY <1>1 DEF WorkInv, StreamInv, StreamTypeOK, HearingHolds, WorkHolds, WayHolds, Before, Early
<1>3. /\ evidence' \in Evidence /\ evidence'.status = evidence.status
      /\ evidence'.failure \in {evidence.failure, "file-too-large"}
  BY <1>1, <1>2 DEF Evidence
<1>4. ExecInv'
  BY <1>1, ExecUnchanged DEF WorkInv
<1>5. StreamInv'
  <2>1. CASE at' = "asking" /\ UNCHANGED <<outcome, evidence>> /\ Ask
    <3>1. StreamTypeOK'
      BY <1>1, <1>3, <2>1, ProviderAssumption
      DEF WorkInv, StreamInv, StreamTypeOK, ProviderTypeOK, Ask, Places, Requests
    <3>2. ChannelHolds' /\ HearingHolds'
      BY <1>1, <2>1 DEF WorkInv, StreamInv, ChannelHolds, HearingHolds, Ask, Before
    <3> QED BY <3>1, <3>2 DEF StreamInv
  <2>2. CASE at' \in Before \cup {"settling"} /\ UNCHANGED model
    <3>1. at' \in Places /\ (at' # "settling" => evidence' = evidence)
      BY <1>1, <2>2 DEF Places, Before
    <3> QED BY <1>1, <1>2, <1>3, <2>2, <3>1, StreamStays DEF WorkInv, Before
  <2> QED BY <1>1, <2>1, <2>2 DEF Before
<1>6. WorkerTypeOK'
  BY <1>1 DEF WorkInv, WorkerTypeOK
<1>7. WorkHolds'
  <2>1. step' = step /\ host' = host /\ receipt' = receipt
    BY <1>1 DEF execution, launcher
  <2> QED BY <1>1, <1>2, <1>3, <2>1 DEF WorkInv, WorkHolds, WayHolds, OutcomeHolds,
      WorktreeHolds, EvidenceHolds, Early, Before
<1> QED BY <1>4, <1>5, <1>6, <1>7 DEF WorkInv

\* A step that touches neither the check nor what the outcome rests on.
Aside == UNCHANGED <<alone, execution, kept, written, worktree, outcome, meddled, checked>>

\* While the model is heard.
LEMMA ModelKeeps ==
    ASSUME WorkInv, Streams \/ Hear \/ Abort
    PROVE  WorkInv'
<1>1. /\ Aside /\ cancel' = cancel /\ stopped' \in {stopped, TRUE}
      /\ evidence' = evidence \/ evidence' = [evidence EXCEPT !.failure = "model-unreachable"]
      /\ at' = at \/ (at = "asking" /\ at' = "stopping")
      /\ done' = done \/ at = "asking"
  <2>1. CASE Streams
    BY <2>1 DEF Streams, conversation, Aside
  <2>2. CASE Hear
    <3>1. Aside /\ cancel' = cancel /\ at = "asking"
      BY <2>2 DEF Hear, Aside
    <3>2. CASE cancel
      BY <2>2, <3>1, <3>2 DEF Hear
    <3>3. CASE ~cancel
      <4>1. /\ stopped' = stopped /\ at' \in {at, "stopping"}
            /\ evidence' = evidence \/ evidence' = [evidence EXCEPT !.failure = "model-unreachable"]
        BY <2>2, <3>3 DEF Hear
      <4>2. done' = (Head(events).kind = "done")
        BY <2>2, <3>3 DEF Hear
      <4> QED BY <3>1, <4>1, <4>2
    <3> QED BY <3>2, <3>3
  <2>3. CASE Abort
    BY <2>3 DEF Abort, conversation, Aside
  <2> QED BY <2>1, <2>2, <2>3
<1>2. evidence \in Evidence
  BY DEF WorkInv, StreamInv, StreamTypeOK
<1>3. evidence' \in Evidence /\ evidence'.status = evidence.status
  BY <1>1, <1>2 DEF Evidence
<1>4. ExecInv'
  BY <1>1, ExecUnchanged DEF WorkInv, Aside
<1>5. StreamInv'
  <2>1. CASE Streams
    BY <2>1, StreamsKeep DEF Streams, conversation, WorkInv
  <2>2. CASE Hear
    BY <2>2, HearKeeps DEF WorkInv
  <2>3. CASE Abort
    BY <2>3 DEF Abort, Dropped, conversation, WorkInv, StreamInv, StreamTypeOK, ProviderTypeOK,
                ChannelHolds, HearingHolds, Before, Requests
  <2> QED BY <2>1, <2>2, <2>3
<1>6. WorkerTypeOK'
  <2>1. done' \in BOOLEAN /\ stopped' \in BOOLEAN
    BY <1>1, <1>5, Zenon DEF StreamInv, StreamTypeOK, WorkInv, WorkerTypeOK
  <2> QED BY <1>1, <2>1, Zenon DEF WorkInv, WorkerTypeOK, Aside
<1>7. WorkHolds'
  <2>1. step' = step /\ host' = host /\ receipt' = receipt
    BY <1>1 DEF Aside, execution, launcher
  <2>2. WayHolds'
    <3>1. at = "asking" \/ at = "stopping" => outcome = "none" /\ evidence.status = "none"
             /\ step = "off" /\ ~alone
      BY DEF WorkInv, WorkHolds, WayHolds, Early
    <3> QED BY <1>1, <1>3, <2>1, <3>1 DEF WorkInv, WorkHolds, WayHolds, Early, Aside
  <2>3. OutcomeHolds' /\ WorktreeHolds'
    BY <1>1, <2>1 DEF WorkInv, WorkHolds, OutcomeHolds, WorktreeHolds, Aside
  <2>4. EvidenceHolds'
    <3>1. evidence.status = "ReviewReady" => at' = at
      BY <1>1 DEF WorkInv, WorkHolds, WayHolds, Early
    <3>2. evidence'.patch = evidence.patch /\ evidence'.candidate = evidence.candidate
      BY <1>1, <1>2 DEF Evidence
    <3> QED BY <1>1, <1>3, <3>1, <3>2 DEF WorkInv, WorkHolds, EvidenceHolds, Aside
  <2> QED BY <2>2, <2>3, <2>4 DEF WorkHolds
<1> QED BY <1>4, <1>5, <1>6, <1>7 DEF WorkInv

LEMMA RetainKeeps ==
    ASSUME WorkInv, Retain
    PROVE  WorkInv'
<1> USE DEF Returns
<1>1. /\ UNCHANGED <<alone, execution, model, cancel, answer, done, stopped, written,
                     worktree, evidence, meddled, checked>>
      /\ at = "stopping" /\ request = "off"
      /\ \/ done /\ kept' = "whole" /\ at' = "answering" /\ UNCHANGED outcome
         \/ kept' \in {"none", "cut"} /\ at' = "settling" /\ outcome' = "error"
  BY DEF Retain, Gone
<1>2. ExecInv'
  BY <1>1, ExecUnchanged DEF WorkInv
<1>3. StreamInv'
  <2>1. done => answer = spoken
    BY <1>1 DEF WorkInv, StreamInv, HearingHolds
  <2>2. at' \in Places /\ at' \notin Before \cup {"asking", "stopping"}
    BY <1>1 DEF Places, Before
  <2>3. evidence' \in Evidence /\ evidence'.failure = evidence.failure
    BY <1>1 DEF WorkInv, StreamInv, StreamTypeOK
  <2> QED BY <1>1, <2>1, <2>2, <2>3, StreamStays DEF WorkInv
<1>4. WorkerTypeOK'
  BY <1>1 DEF WorkInv, WorkerTypeOK
<1>5. WorkHolds'
  <2>1. step' = step /\ host' = host /\ receipt' = receipt
    BY <1>1 DEF execution, launcher
  <2>2. outcome = "none" /\ evidence.status = "none" /\ step = "off" /\ ~alone
    BY <1>1 DEF WorkInv, WorkHolds, WayHolds, Early
  <2> QED BY <1>1, <2>1, <2>2 DEF WorkInv, WorkHolds, WayHolds, OutcomeHolds, WorktreeHolds,
      EvidenceHolds, Early
<1> QED BY <1>2, <1>3, <1>4, <1>5 DEF WorkInv

\* The answer's files.
LEMMA FilesKeep ==
    ASSUME WorkInv, Resolve \/ WriteFile \/ Written
    PROVE  WorkInv'
<1> USE DEF Returns
<1>1. /\ UNCHANGED <<alone, execution, cancel, done, stopped, kept, evidence, meddled, checked>>
      /\ HangUp \/ UNCHANGED <<model, answer>>
      /\ at \in {"answering", "writing"}
      /\ worktree' \in {worktree, worktree \cup {"answer"}} /\ written' \in {written, written + 1}
      /\ written' = written \/ written < Files
      /\ \/ at' = "writing" /\ UNCHANGED outcome
         \/ at' = "checking" /\ UNCHANGED outcome /\ written' = Files
         \/ at' = "settling" /\ outcome' = "error"
  <2>1. CASE Resolve
    BY <2>1 DEF Resolve, HangUp
  <2>2. CASE WriteFile
    <3>1. /\ UNCHANGED <<alone, execution, model, cancel, conversation, evidence, meddled, checked>>
          /\ at = "writing" /\ written < Files
          /\ worktree' = worktree \/ worktree' = worktree \cup {"answer"}
      BY <2>2, Zenon DEF WriteFile
    <3>2. /\ written' = written \/ written' = written + 1
          /\ (at' = at /\ outcome' = outcome) \/ (at' = "settling" /\ outcome' = "error")
      BY <2>2 DEF WriteFile
    <3> QED BY <3>1, <3>2 DEF conversation
  <2>3. CASE Written
    BY <2>3 DEF Written, conversation
  <2> QED BY <2>1, <2>2, <2>3
<1>2. /\ outcome = "none" /\ evidence.status = "none" /\ step = "off" /\ ~alone /\ ~host
      /\ kept = "whole" /\ receipt = "none" /\ request = "off" /\ written \in 0..Files
      /\ worktree \subseteq Marks
  BY <1>1 DEF WorkInv, WorkHolds, WayHolds, Early, ExecInv, LauncherHolds, StreamInv,
              HearingHolds, Before, WorkerTypeOK
<1>3. ExecInv'
  BY <1>1, ExecUnchanged DEF WorkInv
<1>4. StreamInv'
  <2>1. at' \in Places /\ at' \notin Before \cup {"asking", "stopping", "answering"}
    BY <1>1 DEF Places, Before
  <2>2. evidence' \in Evidence /\ evidence'.failure = evidence.failure /\ StreamTypeOK
    BY <1>1 DEF WorkInv, StreamInv, StreamTypeOK
  <2>3. CASE HangUp
    BY <2>1, <2>2, <2>3, HangUpKeeps
  <2>4. CASE UNCHANGED <<model, answer>>
    BY <1>1, <1>2, <2>1, <2>2, <2>4, StreamStays DEF WorkInv
  <2> QED BY <1>1, <2>3, <2>4
<1>5. WorkerTypeOK'
  <2>1. worktree' \subseteq Marks
    BY <1>1, <1>2 DEF Marks
  <2>2. written' \in 0..Files
    BY <1>1, <1>2, WorkAssumption
  <2> QED BY <1>1, <2>1, <2>2 DEF WorkInv, WorkerTypeOK
<1>6. WorkHolds'
  <2>1. step' = step /\ host' = host /\ receipt' = receipt
    BY <1>1 DEF execution, launcher
  <2> QED BY <1>1, <1>2, <2>1 DEF WorkInv, WorkHolds, WayHolds, OutcomeHolds, WorktreeHolds,
      EvidenceHolds, Early
<1> QED BY <1>3, <1>4, <1>5, <1>6 DEF WorkInv

\* The check: it is started, supervised, it runs and it writes.
LEMMA CheckKeeps ==
    ASSUME WorkInv, StartCheck \/ Supervise \/ Process \/ CheckWrites
    PROVE  WorkInv'
<1>1. /\ UNCHANGED <<alone, model, at, cancel, conversation, written, outcome, evidence, meddled>>
      /\ worktree' = worktree \/ CheckWrites
      /\ checked' = checked \/ Supervise
  <2>1. CASE StartCheck \/ Process
    BY <2>1 DEF StartCheck, Process
  <2>2. CASE Supervise
    BY <2>2 DEF Supervise
  <2>3. CASE CheckWrites
    BY <2>3 DEF CheckWrites
  <2> QED BY <2>1, <2>2, <2>3
<1>2. StreamInv'
  <2>1. at \in Places /\ evidence \in Evidence
    BY DEF WorkInv, StreamInv, StreamTypeOK
  <2> QED BY <1>1, <2>1, StreamStays DEF WorkInv, conversation
<1>3. ExecInv'
  <2>1. CASE StartCheck
    BY <2>1, LaunchKeeps DEF StartCheck, WorkInv
  <2>2. CASE Supervise
    BY <2>2, LauncherKeeps, CaptureKeeps DEF Supervise, WorkInv
  <2>3. CASE Process
    BY <2>3, ProcessKeeps DEF Process, WorkInv
  <2>4. CASE CheckWrites
    BY <2>4, ExecUnchanged DEF CheckWrites, WorkInv
  <2> QED BY <2>1, <2>2, <2>3, <2>4
<1>4. worktree' \subseteq Marks
  <2>1. CASE CheckWrites
    BY <2>1 DEF CheckWrites, Marks
  <2> QED BY <1>1, <2>1 DEF WorkInv, WorkerTypeOK
<1>5. WorkerTypeOK'
  <2>1. checked' \subseteq Marks
    <3>1. CASE Supervise
      BY <3>1 DEF Supervise, WorkInv, WorkerTypeOK
    <3> QED BY <1>1, <3>1 DEF WorkInv, WorkerTypeOK
  <2> QED BY <1>1, <1>4, <2>1, Zenon DEF WorkInv, WorkerTypeOK, conversation
\* The receipt is made once, and the launcher is idle before the check.
<1>6. /\ host' = host
      /\ at \in Early => step' = step
      /\ receipt' # receipt /\ receipt' = "completed" => receipt = "none" /\ checked' = worktree'
      /\ receipt = "completed" => receipt' = receipt
  <2>1. CASE StartCheck
    BY <2>1 DEF StartCheck, Launch, Refuses, StartFails, Starts, setting, Early, WorkInv,
                ExecInv, LauncherHolds
  <2>2. CASE Supervise
    <3>1. /\ step # "off" /\ UNCHANGED setting
          /\ receipt' # receipt => receipt = "none" /\ step' = "over"
      BY <2>2, SuperviseMoves DEF Supervise, WorkInv
    <3>2. step' = "over" => checked' = worktree /\ worktree' = worktree
      BY <2>2 DEF Supervise
    <3> QED BY <3>1, <3>2 DEF setting, WorkInv, WorkHolds, WayHolds
  <2>3. CASE Process
    BY <2>3 DEF Process, ProcessStep, Fork, Leave, LeaderEnds, ChildEnds, Killed, Garble, Flood,
                setting, launcher
  <2>4. CASE CheckWrites
    BY <2>4 DEF CheckWrites, execution, setting, launcher
  <2> QED BY <2>1, <2>2, <2>3, <2>4
\* Nothing writes once a sandboxed check has passed.
<1>7. ~alone /\ receipt = "completed" => worktree' = worktree /\ checked' \in {checked, worktree}
  <2>1. CASE CheckWrites
    BY <2>1, CheckedIsStill DEF CheckWrites
  <2>2. CASE Supervise
    BY <2>2 DEF Supervise
  <2>3. CASE StartCheck \/ Process
    BY <2>3 DEF StartCheck, Process
  <2> QED BY <2>1, <2>2, <2>3
<1>8. "other" \in worktree' => "other" \in worktree
  <2>1. CASE CheckWrites
    BY <2>1 DEF CheckWrites
  <2> QED BY <1>1, <2>1
<1>9. WorkHolds'
  <2>1. kept' = kept /\ done' = done
    BY <1>1 DEF conversation
  <2>2. WayHolds' /\ OutcomeHolds'
    BY <1>1, <1>6, <2>1 DEF WorkInv, WorkHolds, WayHolds, OutcomeHolds
  <2>3. outcome = "ok" => ~alone /\ receipt = "completed"
    BY DEF WorkInv, WorkHolds, OutcomeHolds
  <2>4. WorktreeHolds'
    BY <1>1, <1>6, <1>7, <1>8, <2>3 DEF WorkInv, WorkHolds, WorktreeHolds
  <2>5. EvidenceHolds'
    BY <1>1, <1>7, <2>3 DEF WorkInv, WorkHolds, EvidenceHolds
  <2> QED BY <2>2, <2>4, <2>5 DEF WorkHolds
<1> QED BY <1>2, <1>3, <1>5, <1>9 DEF WorkInv

\* What the worker makes of the check.
LEMMA JudgeKeeps ==
    ASSUME WorkInv, AfterCheck \/ Inspect
    PROVE  WorkInv'
<1> USE DEF Returns
<1>1. /\ UNCHANGED <<alone, execution, model, cancel, conversation, written, worktree, meddled,
                     checked>>
      /\ evidence' \in {evidence, [evidence EXCEPT !.failure = "sandbox-unavailable"]}
      /\ \/ /\ at = "checking" /\ at' = "saved" /\ alone /\ UNCHANGED outcome
         \/ /\ at = "checking" /\ at' = "inspecting" /\ ~alone /\ receipt = "completed"
            /\ UNCHANGED outcome
         \/ /\ at \in {"checking", "inspecting"} /\ at' = "settling" /\ outcome' = "error"
         \/ /\ at = "inspecting" /\ at' = "settling" /\ outcome' = "ok"
            /\ NoGitlinks /\ NothingOutside
  <2>1. CASE AfterCheck
    BY <2>1 DEF AfterCheck, CheckPassed
  <2>2. CASE Inspect
    BY <2>2 DEF Inspect
  <2> QED BY <2>1, <2>2
<1>2. /\ evidence \in Evidence /\ outcome = "none" /\ evidence.status = "none" /\ request = "off"
      /\ worktree \subseteq Marks
  BY <1>1 DEF WorkInv, StreamInv, StreamTypeOK, HearingHolds, Before, WorkHolds, WayHolds,
              WorkerTypeOK
<1>3. /\ evidence' \in Evidence /\ evidence'.status = evidence.status
      /\ evidence'.failure \in {evidence.failure, "sandbox-unavailable"}
  BY <1>1, <1>2 DEF Evidence
<1>4. ExecInv'
  BY <1>1, ExecUnchanged DEF WorkInv
<1>5. StreamInv'
  <2>1. at' \in Places /\ at' \notin Before \cup {"asking", "stopping", "answering"}
    BY <1>1 DEF Places, Before
  <2> QED BY <1>1, <1>2, <1>3, <2>1, StreamStays DEF WorkInv, conversation
<1>6. WorkerTypeOK'
  BY <1>1, <1>2, Zenon DEF WorkInv, WorkerTypeOK, conversation
<1>7. WorkHolds'
  <2>1. step' = step /\ host' = host /\ receipt' = receipt /\ kept' = kept /\ done' = done
    BY <1>1 DEF execution, launcher, conversation
  <2>2. WayHolds'
    BY <1>1, <1>2, <1>3, <2>1 DEF WorkInv, WorkHolds, WayHolds, Early
  <2>3. OutcomeHolds'
    BY <1>1, <1>2, <2>1 DEF WorkInv, WorkHolds, OutcomeHolds, WayHolds
  <2>4. WorktreeHolds'
    <3>1. NoGitlinks /\ NothingOutside /\ ~meddled => worktree \subseteq {"answer", "check"}
      BY <1>2 DEF NoGitlinks, NothingOutside, WorkInv, WorkHolds, WorktreeHolds, Marks
    <3> QED BY <1>1, <1>2, <2>1, <3>1 DEF WorkInv, WorkHolds, WorktreeHolds
  <2>5. EvidenceHolds'
    BY <1>2, <1>3 DEF EvidenceHolds
  <2> QED BY <2>2, <2>3, <2>4, <2>5 DEF WorkHolds
<1> QED BY <1>4, <1>5, <1>6, <1>7 DEF WorkInv

\* The end: status, patch, candidate, the record.
LEMMA EndKeeps ==
    ASSUME WorkInv, Settle \/ Diff \/ Snapshot \/ Save
    PROVE  WorkInv'
<1>1. /\ UNCHANGED <<alone, execution, cancel, done, stopped, kept, written, worktree, outcome,
                     meddled, checked>>
      /\ HangUp \/ UNCHANGED <<model, answer>>
      /\ at \in {"settling", "diffing", "snapshot", "saving"}
      /\ at' \in {"diffing", "snapshot", "saving", "saved", "uncertain"}
  <2>1. CASE Settle
    BY <2>1 DEF Settle, HangUp
  <2>2. CASE Diff \/ Snapshot \/ Save
    BY <2>2 DEF Diff, Snapshot, Save, conversation
  <2> QED BY <2>1, <2>2
<1>2. /\ evidence \in Evidence /\ request = "off" /\ worktree \subseteq Marks
  BY <1>1 DEF WorkInv, StreamInv, StreamTypeOK, HearingHolds, Before, WorkerTypeOK
<1>3. PICK s, f, p, c : /\ evidence = [status |-> s, failure |-> f, patch |-> p, candidate |-> c]
                        /\ s \in {"none", "ReviewReady", "Cancelled", "Failed"}
                        /\ f \in {"none", "file-too-large", "model-unreachable",
                                  "sandbox-unavailable"}
                        /\ p \subseteq Marks /\ c \subseteq Marks \cup {"none"}
  BY <1>2 DEF Evidence
<1>4. /\ evidence' \in Evidence /\ evidence'.failure = evidence.failure
      /\ EvidenceHolds'
  <2>1. CASE Settle
    <3>1. evidence' = [status |-> IF outcome = "ok" THEN "ReviewReady"
                                  ELSE IF cancel THEN "Cancelled" ELSE "Failed",
                       failure |-> f, patch |-> p, candidate |-> c] /\ at' = "diffing"
      BY <1>3, <2>1 DEF Settle
    <3> QED BY <1>1, <1>3, <3>1 DEF Evidence, EvidenceHolds
  <2>2. CASE Diff
    <3>1. at = "diffing" /\ at' = "snapshot"
      BY <2>2 DEF Diff
    <3>2. \/ evidence' = [status |-> s, failure |-> f, patch |-> worktree, candidate |-> c]
             /\ worktree # {}
          \/ \E q \in {p, worktree}, t \in {"none", "Cancelled", "Failed"} :
                evidence' = [status |-> t, failure |-> f, patch |-> q, candidate |-> c]
      <4>1. [evidence EXCEPT !.patch = worktree]
               = [status |-> s, failure |-> f, patch |-> worktree, candidate |-> c]
        BY <1>3
      <4> QED BY <1>3, <2>2, <4>1 DEF Diff, WithoutPatch, Demoted
    <3>3. s = "ReviewReady" => outcome = "ok"
      BY <1>3 DEF WorkInv, WorkHolds, EvidenceHolds
    <3> QED BY <1>1, <1>2, <1>3, <3>1, <3>2, <3>3 DEF Evidence, EvidenceHolds
  <2>3. CASE Snapshot
    <3>1. at = "snapshot" /\ at' = "saving"
      BY <2>3 DEF Snapshot
    <3>2. \/ evidence' = evidence /\ s # "ReviewReady"
          \/ evidence' = [status |-> s, failure |-> f, patch |-> p, candidate |-> worktree]
             /\ worktree = p
          \/ evidence' = [status |-> "Failed", failure |-> f, patch |-> p, candidate |-> c]
      <4>1. [evidence EXCEPT !.candidate = worktree]
               = [status |-> s, failure |-> f, patch |-> p, candidate |-> worktree]
        BY <1>3
      <4>2. [evidence EXCEPT !.status = "Failed"]
               = [status |-> "Failed", failure |-> f, patch |-> p, candidate |-> c]
        BY <1>3
      <4> QED BY <1>3, <2>3, <4>1, <4>2 DEF Snapshot, Verified, Demoted
    <3>3. s = "ReviewReady" => outcome = "ok" /\ p # {} /\ (~meddled => p = worktree)
      BY <1>3, <3>1 DEF WorkInv, WorkHolds, EvidenceHolds
    <3> QED BY <1>1, <1>2, <1>3, <3>1, <3>2, <3>3 DEF Evidence, EvidenceHolds
  <2>4. CASE Save
    <3>1. at = "saving" /\ evidence' = evidence
      BY <2>4 DEF Save
    <3> QED BY <1>1, <1>2, <3>1 DEF WorkInv, WorkHolds, EvidenceHolds
  <2> QED BY <2>1, <2>2, <2>3, <2>4
<1>5. ExecInv'
  BY <1>1, ExecUnchanged DEF WorkInv
<1>6. StreamInv'
  <2>1. at' \in Places /\ at' \notin Before \cup {"asking", "stopping", "answering"}
    BY <1>1 DEF Places, Before
  <2>2. CASE HangUp
    BY <1>4, <2>1, <2>2, HangUpKeeps DEF WorkInv, StreamInv
  <2>3. CASE UNCHANGED <<model, answer>>
    BY <1>1, <1>2, <1>4, <2>1, <2>3, StreamStays DEF WorkInv
  <2> QED BY <1>1, <2>2, <2>3
<1>7. WorkerTypeOK'
  BY <1>1, <1>2, Zenon DEF WorkInv, WorkerTypeOK
<1>8. WorkHolds'
  <2>1. step' = step /\ host' = host /\ receipt' = receipt
    BY <1>1 DEF execution, launcher
  <2> QED BY <1>1, <1>4, <2>1 DEF WorkInv, WorkHolds, WayHolds, OutcomeHolds, WorktreeHolds, Early
<1> QED BY <1>5, <1>6, <1>7, <1>8 DEF WorkInv

LEMMA OthersKeep ==
    ASSUME WorkInv, Cancel \/ Meddle \/ UNCHANGED workVars
    PROVE  WorkInv'
<1>1. /\ UNCHANGED <<alone, execution, model, at, conversation, written, outcome, evidence,
                     checked>>
      /\ cancel' \in {cancel, TRUE}
      /\ \/ UNCHANGED <<worktree, meddled>>
         \/ meddled' = TRUE /\ worktree' \subseteq worktree \cup {"other", "outside"}
            /\ at \in {"inspecting", "settling", "diffing", "snapshot", "saving"} /\ ~meddled
  <2>1. CASE Cancel
    BY <2>1 DEF Cancel
  <2>2. CASE Meddle
    BY <2>2 DEF Meddle
  <2>3. CASE UNCHANGED workVars
    BY <2>3 DEF workVars
  <2> QED BY <2>1, <2>2, <2>3
<1>2. ExecInv'
  BY <1>1, ExecUnchanged DEF WorkInv
<1>3. StreamInv'
  <2>1. at \in Places /\ evidence \in Evidence
    BY DEF WorkInv, StreamInv, StreamTypeOK
  <2> QED BY <1>1, <2>1, StreamStays DEF WorkInv, conversation
<1>4. WorkerTypeOK'
  <2>1. worktree' \subseteq Marks
    BY <1>1 DEF WorkInv, WorkerTypeOK, Marks
  <2>2. cancel' \in BOOLEAN /\ meddled' \in BOOLEAN
    BY <1>1, Zenon DEF WorkInv, WorkerTypeOK
  <2> QED BY <1>1, <2>1, <2>2, Zenon DEF WorkInv, WorkerTypeOK, conversation
<1>5. WorkHolds'
  <2>1. step' = step /\ host' = host /\ receipt' = receipt /\ kept' = kept /\ done' = done
    BY <1>1 DEF execution, launcher, conversation
  <2> QED BY <1>1, <2>1 DEF WorkInv, WorkHolds, WayHolds, OutcomeHolds, WorktreeHolds, EvidenceHolds
<1> QED BY <1>2, <1>3, <1>4, <1>5 DEF WorkInv

LEMMA NextWork == WorkInv /\ [WorkNext]_workVars => WorkInv'
<1> SUFFICES ASSUME WorkInv, [WorkNext]_workVars PROVE WorkInv'
  OBVIOUS
<1>1. CASE WorkerStep
  BY <1>1, BeforeKeeps, ModelKeeps, RetainKeeps, FilesKeep, CheckKeeps, JudgeKeeps, EndKeeps
  DEF WorkerStep
<1>2. CASE Streams \/ Process \/ CheckWrites \/ Cancel \/ Meddle \/ Over \/ UNCHANGED workVars
  BY <1>2, ModelKeeps, CheckKeeps, OthersKeep DEF Over
<1> QED BY <1>1, <1>2 DEF WorkNext

LEMMA Inductive == WorkSpec => []WorkInv
  BY InitWork, NextWork, PTL DEF WorkSpec

\* Work is offered for review only when it was earned: one whole answer of one
\* stream, a check that ended with zero, a patch that is not empty, and a
\* candidate commit equal to that patch and to what the check left, whatever
\* else was running (worker.rs, perform and the end of start_checked).
THEOREM SuccessEarned == WorkSpec => []SuccessIsEarned
<1>1. WorkInv => SuccessIsEarned
  <2> SUFFICES ASSUME WorkInv PROVE SuccessIsEarned
    OBVIOUS
  <2>1. AnswerOfOneStream
    BY DEF AnswerOfOneStream, WorkInv, WorkHolds, WayHolds, StreamInv, HearingHolds
  <2>2. ASSUME evidence.status = "ReviewReady", at \in {"saving", "saved"}
        PROVE  /\ kept = "whole" /\ receipt = "completed" /\ code = "zero" /\ written = Files
               /\ evidence.patch # {} /\ evidence.candidate = evidence.patch
               /\ ~meddled => /\ evidence.candidate = checked
                              /\ evidence.candidate \subseteq {"answer", "check"}
    BY <2>2 DEF WorkInv, WorkHolds, OutcomeHolds, WorktreeHolds, EvidenceHolds, ExecInv,
                ReceiptHolds
  <2> QED BY <2>1, <2>2 DEF SuccessIsEarned
<1> QED BY <1>1, Inductive, PTL

\* A receipt with a known outcome was made when nothing of the check could run
\* any more, and the request gave its capacity back before the answer was used
\* (execution.rs, terminate_child and the polling loop; worker.rs, perform).
THEOREM NothingLeft == WorkSpec => []NothingRunsOn
<1>1. WorkInv => NothingRunsOn
  <2> SUFFICES ASSUME WorkInv PROVE NothingRunsOn
    OBVIOUS
  <2>1. WorkTypeOK
    BY Zenon DEF WorkTypeOK, WorkInv, WorkerTypeOK, ExecInv, StreamInv, StreamTypeOK
  <2> QED BY <2>1 DEF NothingRunsOn, WorkInv, ExecInv, ReceiptHolds, StreamInv, HearingHolds, Before
<1> QED BY <1>1, Inductive, PTL


-----------------------------------------------------------------------------
(***************************************************************************)
(* The plan the work comes from: proofs about Planning, for any number of  *)
(* commands, chat turns, writes of others, failures and restarts.          *)
(*                                                                         *)
(* The argument follows the copies.  A draft is copied to the barrier, to  *)
(* a retry, to a transaction and to the disk, and a copy outlives by far   *)
(* the stores it was made from; but the stores only grow, and what a copy  *)
(* says of them stays true as long as it names the revision it means.      *)
(***************************************************************************)

-----------------------------------------------------------------------------
(* What stays while the stores grow. *)

\* The assumptions on the constants, as one fact.
LEMMA Constants ==
  ASSUME PlanningInv
  PROVE  /\ Writers = {"user", "autopilot", "elsewhere"}
         /\ PlanAttempts \in Nat \ {0} /\ Attempts \in Nat \ {0} /\ TransientLimit \in Nat \ {0}
         /\ MaxIds \in Nat /\ MaxReceipts \in Nat /\ MaxReceipts >= 3
BY DEF PlanningInv, PlanningConstants, ScopeConstants

LEMMA MadeAsStays ==
  ASSUME NEW d, MadeAs(d), Grown PROVE MadeAs(d)'
BY DEF MadeAs, Grown

LEMMA OwnRequestStays ==
  ASSUME NEW asked, OwnRequest(asked), Grown PROVE OwnRequest(asked)'
BY DEF OwnRequest, Grown

LEMMA CommandStays ==
  ASSUME NEW command, CommandHolds(command), Grown PROVE CommandHolds(command)'
<1>1. command.op = "save" => SaveHolds(command)'
  BY MadeAsStays DEF CommandHolds, SaveHolds
<1>2. command.op = "scope" => OwnRequest(command.request)'
  BY OwnRequestStays DEF CommandHolds
<1> QED BY <1>1, <1>2 DEF CommandHolds

LEMMA CommandOKStays ==
  ASSUME NEW command, CommandOK(command), Grown PROVE CommandOK(command)'
BY CommandStays DEF CommandOK

LEMMA ScopeFrame == ScopeInv /\ UNCHANGED scopeVars => ScopeInv'
BY DEF ScopeInv, scopeVars, ScopeTypeOK, Coherent, OthersDecide, RoomToAgree, Pending, HasBrief,
       Confirmed, Placeholder, DraftRevision

LEMMA ToldFrame == ToldInv /\ Grown /\ UNCHANGED told => ToldInv'
BY DEF ToldInv, Grown, ToldIsWritten, Receipted

LEMMA ViewsFrame ==
  ASSUME ScopeInv, ScopeInv', ViewsInv, revision' \in Nat, Grown, UNCHANGED loaded PROVE ViewsInv'
BY DEF ViewsInv, Grown, loaded, ScopeInv, ScopeTypeOK

LEMMA ConsoleFrame == ConsoleInv /\ Grown /\ UNCHANGED <<slot, last>> => ConsoleInv'
<1> SUFFICES ASSUME ConsoleInv, Grown, slot' = slot, last' = last PROVE ConsoleInv'
  OBVIOUS
<1>1. PICK s, l : s = slot /\ l = last
  OBVIOUS
<1>2. CommandOK(s)' /\ CommandOK(l)'
  BY <1>1, CommandOKStays DEF ConsoleInv
<1> QED BY <1>1, <1>2 DEF ConsoleInv, CommandOK, CommandHolds, SaveHolds, OwnRequest, MadeAs

LEMMA CallFrame ==
  ASSUME CallInv, Grown, UNCHANGED call, revision \in Nat, revision' \in Nat, ScopeInv, ScopeInv'
  PROVE  CallInv'
<1>1. PICK c : c = call.command
  OBVIOUS
<1>2. CommandHolds(c)'
  BY <1>1, CommandStays DEF CallInv
<1>3. CommandHolds(call.command)'
  BY <1>1, <1>2 DEF CommandHolds, SaveHolds, OwnRequest, MadeAs
<1>4. call.seen \in Nat /\ call.scopeSeen \in Nat
  BY DEF CallInv, Calls, NoCall
<1> QED BY <1>3, <1>4 DEF CallInv, Grown, ScopeInv, ScopeTypeOK

LEMMA TurnStays ==
  ASSUME NEW turn, TurnOK(turn), Grown, ScopeInv, ScopeInv' PROVE TurnOK(turn)'
BY DEF TurnOK, Grown, ScopeInv, ScopeTypeOK, Turns

LEMMA TurnsFrame == TurnsInv /\ Grown /\ ScopeInv /\ ScopeInv' /\ UNCHANGED turns => TurnsInv'
BY TurnStays DEF TurnsInv, TurnOK

LEMMA PlannerFrame ==
  ASSUME PlannerInv, Grown, UNCHANGED <<planner, disk, made>> PROVE PlannerInv'
BY DEF PlannerInv, Grown, PlannerTypeOK, Active, MadeAs, planner

LEMMA JobFrame ==
  ASSUME JobInv, Grown, PlannerTypeOK, revision \in Nat, revision' \in Nat, UNCHANGED job
  PROVE  JobInv'
BY DEF JobInv, Grown, PlannerTypeOK, Jobs

LEMMA PlansFrame ==
  ASSUME PlansInv, Grown, UNCHANGED plans PROVE PlansInv'
BY DEF PlansInv, Grown, PublishedAsPlanned

LEMMA LoopFrame == LoopInv /\ UNCHANGED <<auto, refused>> => LoopInv'
BY DEF LoopInv, LoopTypeOK, Planned

\* The parts of the invariant that a step need not look at.
LEMMA Frames ==
  ASSUME PlanningInv, Grown, ScopeInv', revision' \in Nat
  PROVE  /\ UNCHANGED told => ToldInv'
         /\ UNCHANGED loaded => ViewsInv'
         /\ UNCHANGED <<slot, last>> => ConsoleInv'
         /\ UNCHANGED call => CallInv'
         /\ UNCHANGED retry => RetryInv'
         /\ UNCHANGED turns => TurnsInv'
         /\ slot' = NoCommand \/ UNCHANGED <<slot, turns>> => WaitingInv'
         /\ UNCHANGED <<planner, disk, made>> => PlannerInv'
         /\ UNCHANGED job => JobInv'
         /\ UNCHANGED plans => PlansInv'
         /\ UNCHANGED <<auto, refused>> => LoopInv'
<1>0. /\ ScopeInv /\ ToldInv /\ ViewsInv /\ ConsoleInv /\ CallInv /\ RetryInv /\ TurnsInv
      /\ PlannerInv /\ JobInv /\ PlansInv /\ LoopInv
  BY DEF PlanningInv
<1>1. revision \in Nat /\ PlannerTypeOK
  BY <1>0 DEF ViewsInv, PlannerInv
<1>2. /\ UNCHANGED retry => RetryInv'
      /\ slot' = NoCommand \/ UNCHANGED <<slot, turns>> => WaitingInv'
  BY <1>0 DEF RetryInv, WaitingInv, NoCommand, PlanningInv
<1>3. /\ UNCHANGED told => ToldInv'
      /\ UNCHANGED loaded => ViewsInv'
      /\ UNCHANGED <<slot, last>> => ConsoleInv'
      /\ UNCHANGED call => CallInv'
  BY <1>0, <1>1, ToldFrame, ViewsFrame, ConsoleFrame, CallFrame
<1>4. /\ UNCHANGED turns => TurnsInv'
      /\ UNCHANGED <<planner, disk, made>> => PlannerInv'
      /\ UNCHANGED job => JobInv'
      /\ UNCHANGED plans => PlansInv'
      /\ UNCHANGED <<auto, refused>> => LoopInv'
  BY <1>0, <1>1, TurnsFrame, PlannerFrame, JobFrame, PlansFrame, LoopFrame
<1> QED BY <1>2, <1>3, <1>4

\* A step that writes no store.
LEMMA StoresSame ==
  ASSUME PlanningInv, UNCHANGED <<scopeVars, revision, made>>
  PROVE  Grown /\ ScopeInv' /\ revision' \in Nat
<1>1. ScopeInv /\ ViewsInv /\ PlannerInv
  BY DEF PlanningInv
<1>2. revision \in Nat /\ Len(journal) \in Nat
  BY <1>1 DEF ViewsInv, ScopeInv, ScopeTypeOK
<1>3. ScopeInv'
  BY <1>1, ScopeFrame
<1> QED BY <1>2, <1>3 DEF Grown, scopeVars

LEMMA CountFrame ==
  ASSUME PlanningInv, bounds' = bounds,
         used' = used \/ (used < MaxIds /\ used' = used + 1)
  PROVE  CountInv'
BY Constants DEF PlanningInv, CountInv

LEMMA SpendCounts ==
  ASSUME PlanningInv,
         NEW what \in {"typed", "spoken", "driven", "others", "faults", "crashes"}, Spend(what),
         used' = used \/ (used < MaxIds /\ used' = used + 1)
  PROVE  CountInv'
<1>1. used' \in 0..MaxIds
  BY Constants DEF PlanningInv, CountInv
<1>2. bounds' \in Limits
  BY DEF PlanningInv, CountInv, Spend, Limits
<1> QED BY <1>1, <1>2 DEF CountInv

LEMMA Crashed ==
  ASSUME PlanningInv, Spend("crashes") PROVE bounds'.crashes # bounds.crashes
BY DEF PlanningInv, CountInv, Spend, Limits

\* What a step that keeps the draft shows.
LEMMA KeptStays ==
  ASSUME UNCHANGED <<draft, previous>> PROVE ~(Kept' # Kept)
BY DEF Kept

-----------------------------------------------------------------------------
(* Commands by their kind. *)

LEMMA Kinds ==
  ASSUME NEW command \in Commands \cup {NoCommand}
  PROVE  /\ command.op = "none" <=> command = NoCommand
         /\ command.op \in {"plan", "revise"} <=> command \in PlanCommands
         /\ command.op = "cancel" <=> command \in CancelCommands
         /\ command.op = "save" <=> command \in SaveCommands
         /\ command.op = "scope" <=> command \in ScopeCommands
         /\ command.op = "turn" <=> command \in TurnCommands
BY DEF Commands, PlanCommands, CancelCommands, SaveCommands, ScopeCommands, TurnCommands, NoCommand

LEMMA NoCommandOK == CommandOK(NoCommand)
BY DEF CommandOK, CommandHolds, NoCommand

\* A command that was saved is the same command.
LEMMA SavedOK ==
  ASSUME NEW command, command # NoCommand, CommandOK(command)
  PROVE  CommandOK([command EXCEPT !.saved = TRUE])
<1> DEFINE c == [command EXCEPT !.saved = TRUE]
<1>1. command \in Commands /\ CommandHolds(command)
  BY DEF CommandOK
<1>2. CASE command \in PlanCommands
  <2>1. c \in PlanCommands
    BY <1>2 DEF PlanCommands
  <2> QED BY <2>1 DEF CommandOK, Commands, CommandHolds, PlanCommands
<1>3. CASE command \in CancelCommands
  <2>1. c \in CancelCommands
    BY <1>3 DEF CancelCommands
  <2> QED BY <2>1 DEF CommandOK, Commands, CommandHolds, CancelCommands
<1>4. CASE command \in SaveCommands
  <2>1. c \in SaveCommands /\ c.draft = command.draft /\ c.expected = command.expected
    BY <1>4 DEF SaveCommands
  <2>2. SaveHolds(command) /\ c.op = "save"
    BY <1>1, <1>4, <2>1 DEF SaveCommands, CommandHolds
  <2>3. SaveHolds(c)
    BY <2>1, <2>2 DEF SaveHolds
  <2> HIDE DEF c
  <2>4. CommandOK(c)
    BY <2>1, <2>2, <2>3 DEF CommandOK, Commands, CommandHolds
  <2> QED BY <2>4 DEF c
<1>5. CASE command \in ScopeCommands
  <2>1. c \in ScopeCommands /\ c.request = command.request
    BY <1>5 DEF ScopeCommands
  <2>2. OwnRequest(command.request) /\ c.op = "scope"
    BY <1>1, <1>5, <2>1 DEF ScopeCommands, CommandHolds
  <2> HIDE DEF c
  <2>4. CommandOK(c)
    BY <2>1, <2>2 DEF CommandOK, Commands, CommandHolds
  <2> QED BY <2>4 DEF c
<1>6. CASE command \in TurnCommands
  <2>1. c \in TurnCommands /\ c.request = command.request
    BY <1>6 DEF TurnCommands
  <2>2. c.id = command.id /\ c.op = "turn"
        /\ command.request.by = "user" /\ command.request.id = command.id
    BY <1>1, <1>6, <2>1 DEF TurnCommands, CommandHolds
  <2> HIDE DEF c
  <2>4. CommandOK(c)
    BY <2>1, <2>2 DEF CommandOK, Commands, CommandHolds
  <2> QED BY <2>4 DEF c
<1> QED BY <1>1, <1>2, <1>3, <1>4, <1>5, <1>6 DEF Commands

\* The place of a command that a step puts down keeps what it holds.
LEMMA PlacesOK ==
  ASSUME Grown, NEW s, NEW l, CommandOK(s), CommandOK(l), slot' = s, last' = l
  PROVE  ConsoleInv'
<1>1. CommandOK(s)' /\ CommandOK(l)'
  BY CommandOKStays
<1> QED BY <1>1 DEF ConsoleInv, CommandOK, CommandHolds, SaveHolds, OwnRequest, MadeAs

\* The same for a transaction.
LEMMA CallOK ==
  ASSUME Grown, NEW c \in Calls \cup {NoCall}, CommandHolds(c.command), call' = c,
         c.seen <= revision', c.scopeSeen <= Len(journal')
  PROVE  CallInv'
<1>1. PICK d : d = c.command
  OBVIOUS
<1>2. CommandHolds(d)'
  BY <1>1, CommandStays
<1> QED BY <1>1, <1>2 DEF CallInv, CommandHolds, SaveHolds, OwnRequest, MadeAs

\* A turn in place of another.
LEMMA SetTurnOK ==
  ASSUME PlanningInv, Grown, ScopeInv', NEW s \in Sessions, NEW turn \in Turns \cup {NoTurn},
         TurnOK(turn)', SetTurn(s, turn)
  PROVE  TurnsInv'
<1>1. TurnsInv /\ ScopeInv
  BY DEF PlanningInv
<1>2. turns' \in [Sessions -> Turns \cup {NoTurn}]
  BY <1>1 DEF TurnsInv, SetTurn
<1>3. ASSUME NEW r \in Sessions PROVE TurnOK(turns[r])'
  <2>1. CASE r = s
    <3>1. turns'[r] = turn
      BY <1>1, <2>1 DEF TurnsInv, SetTurn
    <3> QED BY <3>1 DEF TurnOK
  <2>2. CASE r # s
    <3>1. PICK t : t = turns[r]
      OBVIOUS
    <3>2. turns'[r] = t /\ TurnOK(t)
      BY <1>1, <2>2, <3>1 DEF TurnsInv, SetTurn
    <3>3. TurnOK(t)'
      BY <1>1, <3>2, TurnStays
    <3> QED BY <3>2, <3>3 DEF TurnOK
  <2> QED BY <2>1, <2>2
<1> QED BY <1>2, <1>3 DEF TurnsInv, TurnOK

LEMMA NoTurnOK == TurnOK(NoTurn)' /\ TurnOK(NoTurn)
BY DEF TurnOK

-----------------------------------------------------------------------------
(* The planner. *)

\* The generation moves on over the same drafts.
LEMMA JobMoves ==
  ASSUME PlanningInv, Active, JobStep, UNCHANGED made,
         bounds' = bounds \/ Spend("faults"),
         job'.at # "none", JobInv',
         job' \in Jobs
  PROVE  PlanningInv'
<1>1. Grown /\ ScopeInv' /\ revision' \in Nat
  BY StoresSame DEF JobStep, stores
<1>2. PlannerInv'
  BY <1>1 DEF PlanningInv, PlannerInv, PlannerTypeOK, MadeAs, Active, JobStep, console
<1>3. CountInv'
  BY CountFrame, SpendCounts DEF JobStep
<1> QED BY <1>1, <1>2, <1>3, Frames
        DEF PlanningInv, JobStep, stores, loaded, console, calls, chat, loop

LEMMA JobFacts ==
  ASSUME PlanningInv
  PROVE  /\ job \in Jobs
         /\ JobInv /\ revision \in Nat /\ Len(journal) \in 0..MaxReceipts
BY Constants DEF PlanningInv, PlannerInv, PlannerTypeOK, ViewsInv, ScopeInv, ScopeTypeOK

LEMMA CheckRevisionStep == ASSUME PlanningInv, CheckRevision PROVE PlanningInv'
<1>1. /\ job'.at \in {"scope", "bad"} /\ (job'.at = "scope" => job'.expected = revision)
      /\ job' \in Jobs
  BY JobFacts DEF CheckRevision, Jobs
<1>2. JobInv'
  BY <1>1, JobFacts DEF JobInv, CheckRevision, JobStep, stores
<1> QED BY <1>1, <1>2, JobMoves DEF CheckRevision, Active

LEMMA CaptureScopeStep == ASSUME PlanningInv, CaptureScope PROVE PlanningInv'
<1>1. /\ job'.at = "admit" /\ job'.found = revision /\ job'.expected = job.expected
      /\ job' \in Jobs
  BY JobFacts DEF CaptureScope, Jobs
<1>2. JobInv'
  BY <1>1, JobFacts DEF JobInv, CaptureScope, JobStep, stores
<1> QED BY <1>1, <1>2, JobMoves DEF CaptureScope, Active

LEMMA AdmitModelStep == ASSUME PlanningInv, AdmitModel PROVE PlanningInv'
<1>1. /\ job'.at \in {"model", "bad"} /\ (job'.at = "model" => job'.expected = revision)
      /\ job'.found = job.found /\ job'.expected = job.expected
      /\ job' \in Jobs
  BY JobFacts DEF AdmitModel, Jobs
<1>2. JobInv'
  BY <1>1, JobFacts DEF JobInv, AdmitModel, JobStep, stores, Jobs
<1> QED BY <1>1, <1>2, JobMoves DEF AdmitModel, Active

LEMMA ReplyStep == ASSUME PlanningInv, Reply PROVE PlanningInv'
<1>1. /\ job'.at \in {"good", "bad", "admit"}
      /\ job'.found = job.found /\ job'.expected = job.expected
      /\ job' \in Jobs
  BY JobFacts DEF Reply, Jobs
<1>2. JobInv'
  BY <1>1, JobFacts DEF JobInv, Reply, JobStep, stores
<1>3. bounds' = bounds \/ Spend("faults")
  BY DEF Reply
<1> QED BY <1>1, <1>2, <1>3, JobMoves DEF Reply, Active

\* A generation that stops hands its earlier draft back.
LEMMA StopOK ==
  ASSUME PlanningInv, Grown, StopGeneration, UNCHANGED <<disk, made>>
  PROVE  PlannerInv' /\ JobInv'
<1>1. PlannerInv /\ NoDraft \in Drafts
  BY Constants DEF PlanningInv, Drafts, NoDraft
<1>2. draft' \in {draft, previous} /\ previous' = NoDraft /\ job' = NoJob /\ disk' = disk
  BY DEF StopGeneration, HandedBack
<1>3. NoJob \in Jobs
  BY Constants DEF NoJob, Jobs
<1>4. PlannerTypeOK'
  BY <1>1, <1>2, <1>3 DEF PlannerInv, PlannerTypeOK, NoJob
<1>5. MadeAs(draft)' /\ MadeAs(previous)' /\ MadeAs(disk)'
  BY <1>1, <1>2 DEF PlannerInv, MadeAs
<1>6. PlannerInv'
  BY <1>2, <1>4, <1>5 DEF PlannerInv, Active, NoJob
<1> QED BY <1>2, <1>6 DEF JobInv, NoJob

LEMMA PollPlannerStep == ASSUME PlanningInv, PollPlanner PROVE PlanningInv'
<1>0. PlannerInv /\ JobInv /\ PlansInv /\ ScopeInv
  BY DEF PlanningInv
<1>1. CASE job.at # "good"
  <2>1. Grown /\ ScopeInv' /\ revision' \in Nat
    BY <1>1, StoresSame DEF PollPlanner, stores
  <2>2. PlannerInv' /\ JobInv'
    BY <1>1, <2>1, StopOK DEF PollPlanner, console
  <2> QED BY <2>1, <2>2, Frames, CountFrame
          DEF PlanningInv, PollPlanner, stores, loaded, console, calls, chat, loop
<1>2. CASE job.at = "good"
  <2> DEFINE note == [revision |-> job.found, scope |-> job.scope]
  <2>1. made \in Seq([revision : Nat, scope : 0..MaxReceipts])
        /\ note \in [revision : Nat, scope : 0..MaxReceipts]
    BY <1>0, JobFacts DEF PlannerInv, PlannerTypeOK, Jobs
  <2>2. made' = Append(made, note)
    BY <1>2 DEF PollPlanner
  <2>3. /\ made' \in Seq([revision : Nat, scope : 0..MaxReceipts])
        /\ Len(made') = Len(made) + 1 /\ made'[Len(made')] = note /\ Len(made') \in DOMAIN made'
        /\ \A i \in DOMAIN made : i \in DOMAIN made' /\ made'[i] = made[i]
    BY <2>1, <2>2
  <2>4. UNCHANGED <<journal, cleared, revision, disk>>
    BY DEF PollPlanner, scopeVars, stores, console
  <2>5. Grown /\ ScopeInv' /\ revision' \in Nat
    <3>1. ScopeInv'
      BY <1>0, <2>4, ScopeFrame DEF scopeVars
    <3> QED BY <2>3, <2>4, <3>1, JobFacts DEF Grown
  <2>6. job.found = job.expected /\ job.found \in Nat /\ job.scope \in 0..MaxReceipts
    BY <1>0, <1>2, JobFacts DEF JobInv, Jobs
  <2>7. draft' = [number |-> Len(made'), revision |-> job.expected, scope |-> job.scope,
                  origin |-> job.origin]
        /\ previous' = NoDraft /\ job' = NoJob
    BY <1>2 DEF PollPlanner
  <2>8. MadeAs(draft)'
    BY <2>3, <2>6, <2>7 DEF MadeAs
  <2>9. MadeAs(disk)' /\ MadeAs(previous)'
    BY <1>0, <2>3, <2>4, <2>7 DEF PlannerInv, MadeAs
  <2>10. draft' \in Drafts /\ NoDraft \in Drafts /\ Len(made') \in Nat
    BY <2>1, <2>3, <2>6, <2>7, JobFacts, Constants DEF Drafts, NoDraft, Jobs
  <2>11. NoJob \in Jobs
    BY Constants DEF NoJob, Jobs
  <2>12. PlannerTypeOK'
    BY <1>0, <2>3, <2>4, <2>7, <2>10, <2>11 DEF PlannerInv, PlannerTypeOK
  <2>13. PlannerInv' /\ JobInv'
    BY <2>7, <2>8, <2>9, <2>12 DEF PlannerInv, JobInv, Active, NoJob
  <2> QED BY <2>5, <2>13, Frames, CountFrame
          DEF PlanningInv, PollPlanner, stores, loaded, console, calls, chat, loop
<1> QED BY <1>1, <1>2

-----------------------------------------------------------------------------
(* What the user types. *)

LEMMA Views ==
  ASSUME PlanningInv
  PROVE  /\ view \in Nat /\ revision \in Nat /\ scopeView \in 0..Len(journal)
         /\ journal \in Seq(Receipt) /\ Len(journal) \in 0..MaxReceipts
         /\ used \in 0..MaxIds
BY Constants DEF PlanningInv, ViewsInv, ScopeInv, ScopeTypeOK, CountInv

LEMMA TypedStep ==
  ASSUME PlanningInv, NEW command, command.op # "turn", CommandOK(command), Typed(command)
  PROVE  PlanningInv'
<1>1. Grown /\ ScopeInv' /\ revision' \in Nat
  BY StoresSame DEF Typed, stores
<1>2. ConsoleInv'
  BY <1>1, PlacesOK DEF Typed, Submit
<1>3. CountInv' /\ WaitingInv'
  BY SpendCounts DEF Typed, WaitingInv, Submit
<1> QED BY <1>1, <1>2, <1>3, Frames
        DEF PlanningInv, Typed, Submit, planner, stores, loaded, calls, chat, loop

LEMMA KeptDraft ==
  ASSUME PlanningInv PROVE Kept \in Drafts /\ Kept.number \in Nat /\ (~Active => Kept = draft)
BY DEF PlanningInv, PlannerInv, PlannerTypeOK, Kept, Drafts

LEMMA PlanCommandOK ==
  ASSUME PlanningInv, used < MaxIds, NEW by \in {"user", "autopilot"}
  PROVE  /\ CommandOK(PlanCommand(by)) /\ PlanCommand(by).op = "plan"
         /\ CommandOK([PlanCommand(by) EXCEPT !.op = "revise"])
         /\ [PlanCommand(by) EXCEPT !.op = "revise"].op = "revise"
<1>1. used + 1 \in 1..MaxIds
  BY Views, Constants
<1>2. /\ PlanCommand(by) \in PlanCommands /\ PlanCommand(by).op = "plan"
      /\ [PlanCommand(by) EXCEPT !.op = "revise"] \in PlanCommands
      /\ [PlanCommand(by) EXCEPT !.op = "revise"].op = "revise"
  BY <1>1, Views, KeptDraft DEF PlanCommand, PlanCommands
<1> QED BY <1>2 DEF CommandOK, Commands, CommandHolds

LEMMA SaveCommandOK ==
  ASSUME PlanningInv, used < MaxIds, NEW by \in {"user", "autopilot"}, draft # NoDraft
  PROVE  CommandOK(SaveCommand(by)) /\ SaveCommand(by).op = "save"
<1>1. used + 1 \in 1..MaxIds /\ draft \in Drafts /\ MadeAs(draft)
  BY Views, Constants DEF PlanningInv, PlannerInv, PlannerTypeOK
<1>2. SaveCommand(by) \in SaveCommands /\ SaveCommand(by).op = "save"
      /\ SaveCommand(by).draft = draft /\ SaveCommand(by).expected = draft.revision
  BY <1>1 DEF SaveCommand, SaveCommands, DraftedRevision, Drafts
<1> QED BY <1>1, <1>2 DEF CommandOK, Commands, CommandHolds, SaveHolds

LEMMA ScopeCommandOK ==
  ASSUME PlanningInv, NEW asked \in ScopeRequests, asked.by \in {"user", "autopilot"},
         OwnRequest(asked)
  PROVE  CommandOK(ScopeCommand(asked)) /\ ScopeCommand(asked).op = "scope"
<1>1. ScopeCommand(asked) \in ScopeCommands /\ ScopeCommand(asked).op = "scope"
      /\ ScopeCommand(asked).request = asked
  BY DEF ScopeCommand, ScopeCommands, ScopeRequests
<1> QED BY <1>1 DEF CommandOK, Commands, CommandHolds

LEMMA ScopeRequestOK ==
  ASSUME PlanningInv, used < MaxIds, NEW action \in Actions, NEW by \in Writers, NEW e \in Nat
  PROVE  /\ ScopeRequest(used + 1, action, by, e) \in ScopeRequests
         /\ ScopeRequest(used + 1, action, by, e).by = by
         /\ ScopeRequest(used + 1, action, by, e).action = action
         /\ ScopeRequest(used + 1, action, by, e).expected = e
BY Views, Constants DEF ScopeRequest, ScopeRequests

LEMMA UserPlanStep == ASSUME PlanningInv, UserPlan PROVE PlanningInv'
BY PlanCommandOK, TypedStep DEF UserPlan, Typed

LEMMA UserReviseStep == ASSUME PlanningInv, UserRevise PROVE PlanningInv'
BY PlanCommandOK, TypedStep DEF UserRevise, Typed

LEMMA UserCancelStep == ASSUME PlanningInv, UserCancel PROVE PlanningInv'
<1> DEFINE c == [op |-> "cancel", id |-> used + 1, by |-> "user", saved |-> FALSE,
                 generation |-> job.origin, base |-> Kept.number]
<1>1. Typed(c) /\ used < MaxIds
  BY DEF UserCancel, Typed
<1>2. c \in CancelCommands
  BY <1>1, Views, Constants, KeptDraft, JobFacts DEF CancelCommands, Jobs
<1>3. CommandOK(c) /\ c.op = "cancel"
  BY <1>2 DEF CommandOK, Commands, CommandHolds
<1> QED BY <1>1, <1>3, TypedStep

LEMMA UserSaveStep == ASSUME PlanningInv, UserSave PROVE PlanningInv'
BY SaveCommandOK, TypedStep DEF UserSave, Typed

LEMMA UserScopeStep ==
  ASSUME PlanningInv, NEW action \in Actions, UserScope(action) PROVE PlanningInv'
<1> DEFINE r == ScopeRequest(used + 1, action, "user", scopeView)
<1>1. r \in ScopeRequests /\ r.by = "user" /\ Typed(ScopeCommand(r))
  <2>1. Typed(ScopeCommand(r)) /\ used < MaxIds
    BY DEF UserScope, Typed
  <2>2. "user" \in Writers /\ scopeView \in Nat
    BY Views, Constants
  <2> QED BY <2>1, <2>2, ScopeRequestOK
<1>2. OwnRequest(r)
  BY <1>1 DEF OwnRequest
<1> HIDE DEF r
<1> QED BY <1>1, <1>2, ScopeCommandOK, TypedStep

LEMMA RetryStep == ASSUME PlanningInv, Retry PROVE PlanningInv'
<1>1. Grown /\ ScopeInv' /\ revision' \in Nat
  BY StoresSame DEF Retry, stores
<1>2. ConsoleInv'
  BY <1>1, PlacesOK DEF Retry, PlanningInv, ConsoleInv
<1>3. CountInv'
  BY SpendCounts DEF Retry
<1>4. WaitingInv'
  BY DEF Retry, WaitingInv
<1> QED BY <1>1, <1>2, <1>3, <1>4, Frames
        DEF PlanningInv, Retry, planner, stores, loaded, calls, chat, loop

-----------------------------------------------------------------------------
(* The barrier. *)

LEMMA KeptMade == ASSUME PlanningInv PROVE MadeAs(Kept)
BY DEF PlanningInv, PlannerInv, Kept

LEMMA SaveConversationStep == ASSUME PlanningInv, SaveConversation PROVE PlanningInv'
<1>1. Grown /\ ScopeInv' /\ revision' \in Nat
  BY StoresSame DEF SaveConversation, stores
<1>2. CommandOK(slot') /\ CommandOK(last)
  <2>1. CommandOK(slot) /\ CommandOK(last)
    BY DEF PlanningInv, ConsoleInv
  <2> QED BY <2>1, SavedOK DEF SaveConversation
<1>3. ConsoleInv'
  <2>1. PICK s, l : s = slot' /\ l = last
    OBVIOUS
  <2> QED BY <1>1, <1>2, <2>1, PlacesOK DEF SaveConversation
<1>4. PlannerInv'
  <2>1. UNCHANGED <<draft, previous, job, made>> /\ disk' = Kept
    BY DEF SaveConversation, planner
  <2>2. MadeAs(disk)'
    BY <2>1, KeptMade DEF MadeAs
  <2> QED BY <2>1, <2>2, KeptDraft DEF PlanningInv, PlannerInv, PlannerTypeOK, Active, MadeAs
<1>5. WaitingInv'
  <2>1. slot = NoCommand \/ slot \in Commands
    BY DEF PlanningInv, ConsoleInv, CommandOK
  <2>2. CASE slot \in TurnCommands
    BY <2>2 DEF SaveConversation, WaitingInv, PlanningInv, TurnCommands, chat
  <2>3. CASE slot' = slot
    BY <1>1, <2>3, Frames DEF SaveConversation, chat
  <2>4. CASE slot' = [slot EXCEPT !.saved = TRUE] /\ slot \in Commands /\ slot \notin TurnCommands
    <3>1. slot'.op # "turn"
      BY <2>4, Kinds DEF Commands, PlanCommands, CancelCommands, SaveCommands, ScopeCommands
    <3> QED BY <3>1 DEF WaitingInv
  <2> QED BY <2>1, <2>2, <2>3, <2>4 DEF SaveConversation
<1> QED BY <1>1, <1>3, <1>4, <1>5, Frames, CountFrame
        DEF PlanningInv, SaveConversation, planner, stores, loaded, calls, chat, loop

\* The barrier is emptied.
LEMMA Emptied ==
  ASSUME PlanningInv, Grown, slot' = NoCommand, last' = last PROVE ConsoleInv'
BY NoCommandOK, PlacesOK DEF PlanningInv, ConsoleInv

LEMMA DispatchPlanStep == ASSUME PlanningInv, DispatchPlan PROVE PlanningInv'
<1>1. Grown /\ ScopeInv' /\ revision' \in Nat
  BY StoresSame DEF DispatchPlan, stores
<1>2. ConsoleInv'
  BY <1>1, Emptied DEF DispatchPlan
<1>3. PlannerInv' /\ JobInv'
  <2>1. CASE Generates
    <3>1. slot \in PlanCommands
      BY Kinds DEF DispatchPlan, Saved, PlanningInv, ConsoleInv, CommandOK
    <3>2. /\ job' = [NoJob EXCEPT !.at = "check", !.origin = slot.id, !.expected = slot.expected]
          /\ previous' \in {draft, NoDraft} /\ draft' = NoDraft /\ UNCHANGED <<disk, made>>
      BY <2>1 DEF DispatchPlan
    <3>3. /\ job' \in Jobs
          /\ job'.at = "check"
      <4>1. slot.id \in 0..MaxIds /\ slot.expected \in Nat /\ 0 \in 0..MaxReceipts /\ 0 \in Nat
        BY <3>1, Constants DEF PlanCommands
      <4>2. job' = [at |-> "check", origin |-> slot.id, expected |-> slot.expected,
                    scope |-> 0, found |-> 0]
        BY <3>2 DEF NoJob
      <4> QED BY <4>1, <4>2 DEF Jobs
    <3>4. NoDraft \in Drafts /\ PlannerInv
      BY Constants DEF NoDraft, Drafts, PlanningInv
    <3>5. PlannerTypeOK'
      BY <3>2, <3>3, <3>4 DEF PlannerInv, PlannerTypeOK
    <3>6. MadeAs(draft)' /\ MadeAs(previous)' /\ MadeAs(disk)'
      BY <3>2, <3>4 DEF PlannerInv, MadeAs
    <3> QED BY <3>2, <3>3, <3>5, <3>6 DEF PlannerInv, JobInv, Active
  <2>2. CASE ~Generates
    BY <1>1, <2>2, Frames DEF DispatchPlan, planner
  <2> QED BY <2>1, <2>2
<1> QED BY <1>1, <1>2, <1>3, Frames, CountFrame
        DEF PlanningInv, DispatchPlan, stores, loaded, calls, chat, loop

LEMMA DispatchCancelStep == ASSUME PlanningInv, DispatchCancel PROVE PlanningInv'
<1>1. Grown /\ ScopeInv' /\ revision' \in Nat
  BY StoresSame DEF DispatchCancel, stores
<1>2. ConsoleInv'
  BY <1>1, Emptied DEF DispatchCancel
<1>3. PlannerInv' /\ JobInv'
  <2>1. CASE UNCHANGED planner
    BY <1>1, <2>1, Frames DEF DispatchCancel, planner
  <2>2. CASE StopGeneration
    BY <1>1, <2>2, StopOK DEF DispatchCancel
  <2>3. CASE ~Active /\ draft' = NoDraft /\ UNCHANGED <<previous, job>>
    <3>1. NoDraft \in Drafts /\ PlannerInv
      BY Constants DEF NoDraft, Drafts, PlanningInv
    <3>2. PlannerInv'
      BY <2>3, <3>1 DEF DispatchCancel, PlannerInv, PlannerTypeOK, Active, MadeAs
    <3> QED BY <1>1, <2>3, <3>2, Frames
  <2> QED BY <2>1, <2>2, <2>3 DEF DispatchCancel
<1> QED BY <1>1, <1>2, <1>3, Frames, CountFrame
        DEF PlanningInv, DispatchCancel, stores, loaded, calls, chat, loop

LEMMA SendingOK ==
  ASSUME NEW c \in SaveCommands \cup ScopeCommands \cup [op : {"read"}, by : {"user"}]
  PROVE  /\ Sending(c) \in Calls /\ Sending(c).command = c
         /\ Sending(c).seen = 0 /\ Sending(c).scopeSeen = 0
BY DEF Sending, NoCall, Calls

LEMMA DispatchStoreStep == ASSUME PlanningInv, DispatchStore PROVE PlanningInv'
<1>1. Grown /\ ScopeInv' /\ revision' \in Nat
  BY StoresSame DEF DispatchStore, stores
<1>2. ConsoleInv'
  BY <1>1, Emptied DEF DispatchStore
<1>3. CallInv' /\ RetryInv'
  <2>1. CASE UNCHANGED calls
    BY <1>1, <2>1, Frames DEF calls
  <2>2. CASE ~(UNCHANGED calls)
    <3>1. PICK c : c = slot
      OBVIOUS
    <3>2. call' = Sending(c) /\ retry' = (IF c.op = "save" THEN c ELSE retry)
      BY <2>2, <3>1 DEF DispatchStore
    <3>3. c \in SaveCommands \cup ScopeCommands /\ CommandHolds(c)
      BY <3>1, Kinds DEF DispatchStore, Saved, PlanningInv, ConsoleInv, CommandOK
    <3>4. CallInv'
      <4>1. PICK d : d = Sending(c)
        OBVIOUS
      <4>2. d \in Calls /\ d.command = c /\ d.seen = 0 /\ d.scopeSeen = 0
        BY <3>3, <4>1, SendingOK
      <4>3. Len(journal') \in Nat
        BY <1>1 DEF ScopeInv, ScopeTypeOK
      <4> QED BY <1>1, <3>2, <3>3, <4>1, <4>2, <4>3, CallOK
    <3>5. RetryInv'
      BY <3>2, <3>3 DEF RetryInv, PlanningInv, SaveCommands, ScopeCommands
    <3> QED BY <3>4, <3>5
  <2> QED BY <2>1, <2>2
<1> QED BY <1>1, <1>2, <1>3, Frames, CountFrame
        DEF PlanningInv, DispatchStore, planner, stores, loaded, calls, chat, loop

-----------------------------------------------------------------------------
(* The shared understanding. *)

LEMMA CommitsFacts ==
  ASSUME NEW j \in Seq(Receipt), NEW r \in Receipt, Commits(j, r), Len(j) <= MaxReceipts,
         MaxReceipts \in Nat
  PROVE  /\ r.expected = Len(j) /\ Len(j) + 1 <= MaxReceipts
         /\ r.action = "draft" => Len(j) + 2 <= MaxReceipts
         /\ r.action = "enter" => Len(j) = 0
         /\ r.action = "confirm" => Len(j) > 0
BY DEF Commits, Fits, Applies, Pending, HasBrief, Receipt

\* Room for an agreement is left by whatever receipt is appended.
LEMMA RoomStays ==
  ASSUME NEW j \in Seq(Receipt), NEW r \in Receipt, Commits(j, r), Len(j) <= MaxReceipts,
         ScopeConstants, NEW k, k = Append(j, r)
  PROVE  Pending(k) => Len(k) + (IF Placeholder(k) THEN 2 ELSE 1) <= MaxReceipts
<1>0. MaxReceipts \in Nat /\ MaxReceipts >= 3
  BY DEF ScopeConstants
<1>1. Len(k) = Len(j) + 1 /\ k[Len(k)] = r /\ k # <<>> /\ Len(j) \in Nat
  BY <1>0
<1>2. CASE r.action = "confirm"
  BY <1>1, <1>2 DEF Pending, Confirmed, HasBrief
<1>3. CASE r.action = "enter"
  BY <1>0, <1>1, <1>3, CommitsFacts
<1>4. CASE r.action = "draft"
  <2>1. Len(k) + 1 <= MaxReceipts
    BY <1>0, <1>1, <1>4, CommitsFacts
  <2>2. ~Placeholder(k)
    BY <1>1, <1>4 DEF Placeholder, DraftRevision, Confirmed
  <2> QED BY <2>1, <2>2
<1> QED BY <1>2, <1>3, <1>4 DEF Receipt, Actions

\* A journal that could be read can be read with its next receipt.
LEMMA StaysCoherent ==
  ASSUME ScopeTypeOK, Coherent, NEW r \in Receipt, ~Receipted(journal, r), Commits(journal, r),
         MaxReceipts \in Nat, journal' = Append(journal, r)
  PROVE  Coherent'
<1>1. /\ journal \in Seq(Receipt) /\ Len(journal) \in Nat
      /\ Len(journal') = Len(journal) + 1 /\ journal'[Len(journal) + 1] = r
      /\ DOMAIN journal' = 1..Len(journal) + 1 /\ DOMAIN journal = 1..Len(journal)
      /\ \A i \in DOMAIN journal : journal'[i] = journal[i]
  BY DEF ScopeTypeOK
<1>2. r.expected = Len(journal) /\ (r.action = "enter" => Len(journal) = 0)
  BY <1>1, CommitsFacts DEF ScopeTypeOK
<1>3. \A i \in DOMAIN journal' : i \in DOMAIN journal \/ i = Len(journal) + 1
  BY <1>1
<1>4. \A i \in DOMAIN journal' : journal'[i].action = "enter" => i = 1
  BY <1>1, <1>2, <1>3 DEF Coherent
<1>5. \A i \in DOMAIN journal' : journal'[i].expected = i - 1
  BY <1>1, <1>2, <1>3 DEF Coherent
<1>6. ASSUME NEW i \in DOMAIN journal', journal'[i].action = "confirm"
      PROVE  i > 1 /\ journal'[i - 1].action = "draft"
  <2>1. CASE i \in DOMAIN journal
    <3>1. i > 1 /\ journal[i - 1].action = "draft"
      BY <1>1, <1>6, <2>1 DEF Coherent
    <3>2. i - 1 \in DOMAIN journal
      BY <1>1, <2>1, <3>1
    <3> QED BY <1>1, <3>1, <3>2
  <2>2. CASE i = Len(journal) + 1
    <3>1. r.action = "confirm"
      BY <1>1, <1>6, <2>2
    <3>2. Pending(journal) /\ ~Placeholder(journal)
      BY <3>1 DEF Commits, Applies
    <3>3. journal # <<>> /\ Len(journal) > 0 /\ journal[Len(journal)].action # "confirm"
      BY <1>1, <3>2 DEF Pending, HasBrief, Confirmed
    <3>4. journal[Len(journal)].action # "enter"
      BY <1>1, <3>2, <3>3 DEF Coherent, Placeholder, HasBrief, DraftRevision, Confirmed
    <3>5. journal[Len(journal)] \in Receipt
      BY <1>1, <3>3
    <3>6. journal[Len(journal)].action = "draft"
      BY <3>3, <3>4, <3>5 DEF Receipt, Actions
    <3>7. i - 1 = Len(journal) /\ Len(journal) \in DOMAIN journal
      BY <1>1, <2>2, <3>3
    <3> QED BY <1>1, <3>3, <3>6, <3>7
  <2> QED BY <1>3, <2>1, <2>2
<1>7. ASSUME NEW i \in DOMAIN journal', NEW k \in DOMAIN journal', journal'[i].id = journal'[k].id
      PROVE  i = k
  <2>1. \A n \in DOMAIN journal : journal[n].id # r.id
    BY DEF Receipted
  <2> QED BY <1>1, <1>3, <1>7, <2>1 DEF Coherent
<1> QED BY <1>4, <1>5, <1>6, <1>7 DEF Coherent

LEMMA ScopeWriteOK ==
  ASSUME PlanningInv, NEW asked \in ScopeRequests, OwnRequest(asked), ScopeWrite(asked),
         UNCHANGED <<revision, made>>
  PROVE  Grown /\ ScopeInv' /\ revision' \in Nat
<1>0. ScopeInv /\ revision \in Nat /\ MaxReceipts \in Nat /\ ScopeConstants
  BY Views, Constants DEF PlanningInv
<1>1. CASE journal' = journal
  BY <1>1, StoresSame DEF ScopeWrite, scopeVars
<1>2. CASE journal' # journal
  <2>1. /\ journal' = Append(journal, asked) /\ cleared' = cleared
        /\ Commits(journal, asked) /\ ~Receipted(journal, asked)
    BY <1>2 DEF ScopeWrite, After
  <2>2. asked \in Receipt /\ journal \in Seq(Receipt) /\ Len(journal) <= MaxReceipts
    BY <1>0, Constants DEF ScopeRequests, Receipt, ScopeInv, ScopeTypeOK
  <2>3. /\ journal' \in Seq(Receipt) /\ Len(journal') = Len(journal) + 1
        /\ journal'[Len(journal')] = asked
        /\ DOMAIN journal' = 1..Len(journal) + 1 /\ DOMAIN journal = 1..Len(journal)
        /\ \A i \in DOMAIN journal : i \in DOMAIN journal' /\ journal'[i] = journal[i]
    BY <2>1, <2>2
  <2>4. Grown
    BY <1>0, <2>2, <2>3 DEF Grown
  <2>5. Len(journal) + 1 <= MaxReceipts /\ asked.expected = Len(journal)
    BY <1>0, <2>1, <2>2, CommitsFacts
  <2>6. ScopeTypeOK'
    BY <1>0, <2>1, <2>2, <2>3, <2>5 DEF ScopeInv, ScopeTypeOK
  <2>7. OthersDecide'
    <3> SUFFICES ASSUME NEW i \in DOMAIN journal', journal'[i].by = "autopilot",
                        journal'[i].action = "confirm"
                 PROVE  journal'[i - 1].by = "autopilot"
      BY DEF OthersDecide
    <3>1. CASE i = Len(journal) + 1
      <4>1. asked.by = "autopilot" /\ asked.action = "confirm"
        BY <2>3, <3>1
      <4>2. Len(journal) \in DOMAIN journal /\ journal[Len(journal)].by = "autopilot"
        BY <2>5, <4>1 DEF OwnRequest
      <4>3. i - 1 = Len(journal)
        BY <2>2, <3>1
      <4> QED BY <2>3, <4>2, <4>3
    <3>2. CASE i \in DOMAIN journal
      <4>1. journal[i].by = "autopilot" /\ journal[i].action = "confirm"
        BY <2>3, <3>2
      <4>2. journal[i - 1].by = "autopilot"
        BY <1>0, <3>2, <4>1 DEF ScopeInv, OthersDecide
      <4>3. i - 1 \in DOMAIN journal
        BY <1>0, <2>3, <3>2, <4>1 DEF ScopeInv, Coherent
      <4> QED BY <2>3, <4>2, <4>3
    <3> QED BY <2>2, <2>3, <3>1, <3>2
  <2>8. RoomToAgree'
    BY <1>0, <2>1, <2>2, RoomStays DEF RoomToAgree
  <2>9. Coherent'
    BY <1>0, <2>1, <2>2, StaysCoherent DEF ScopeInv
  <2> QED BY <1>0, <2>4, <2>6, <2>7, <2>8, <2>9 DEF ScopeInv
<1> QED BY <1>1, <1>2

LEMMA ClearFlowOK ==
  ASSUME PlanningInv, ClearFlow, UNCHANGED <<revision, made>>
  PROVE  Grown /\ ScopeInv' /\ revision' \in Nat
<1>1. ScopeInv /\ revision \in Nat /\ MaxReceipts \in Nat
  BY Views, Constants DEF PlanningInv
<1>2. journal' = journal /\ cleared' = Len(journal)
  BY DEF ClearFlow
<1>3. Grown
  BY <1>1, <1>2 DEF Grown, ScopeInv, ScopeTypeOK
<1>4. ScopeTypeOK'
  BY <1>1, <1>2 DEF ScopeInv, ScopeTypeOK
<1>5. Coherent' /\ OthersDecide' /\ RoomToAgree'
  BY <1>1, <1>2 DEF ScopeInv, Coherent, OthersDecide, RoomToAgree, Pending, HasBrief, Confirmed,
                    Placeholder, DraftRevision
<1> QED BY <1>1, <1>2, <1>3, <1>4, <1>5 DEF ScopeInv

-----------------------------------------------------------------------------
(* Transactions. *)

LEMMA UserRefreshStep == ASSUME PlanningInv, UserRefresh PROVE PlanningInv'
<1>1. Grown /\ ScopeInv' /\ revision' \in Nat
  BY StoresSame DEF UserRefresh, stores
<1>2. CallInv'
  <2>1. PICK c : c = [op |-> "read", by |-> "user"]
    OBVIOUS
  <2>2. PICK d : d = Sending(c)
    OBVIOUS
  <2>3. call' = d
    BY <2>1, <2>2 DEF UserRefresh
  <2>4. c \in [op : {"read"}, by : {"user"}] /\ CommandHolds(c)
    BY <2>1 DEF CommandHolds
  <2>5. d \in Calls /\ d.command = c /\ d.seen = 0 /\ d.scopeSeen = 0
    BY <2>2, <2>4, SendingOK
  <2>6. Len(journal') \in Nat
    BY <1>1 DEF ScopeInv, ScopeTypeOK
  <2> QED BY <1>1, <2>3, <2>4, <2>5, <2>6, CallOK
<1>3. CountInv'
  BY SpendCounts DEF UserRefresh
<1> QED BY <1>1, <1>2, <1>3, Frames
        DEF PlanningInv, UserRefresh, planner, console, stores, loaded, chat, loop

\* An answer tells what the stores are.
LEMMA AnswerOK ==
  ASSUME PlanningInv, Grown, ScopeInv', revision' \in Nat, call \in Calls,
         NEW said \in {"ok", "denied", "stale", "busy", "uncertain"}, Answer(said)
  PROVE  CallInv'
<1>1. PICK c : c = call'
  OBVIOUS
<1>2. Len(journal') \in Nat
  BY DEF ScopeInv, ScopeTypeOK
<1>3. /\ c \in Calls /\ c.command = call.command
      /\ c.seen = revision' /\ c.scopeSeen = Len(journal')
  BY <1>1, <1>2 DEF Answer, Calls
<1>4. CommandHolds(c.command)
  BY <1>3 DEF PlanningInv, CallInv
<1> QED BY <1>1, <1>2, <1>3, <1>4, CallOK

LEMMA SentIs ==
  ASSUME PlanningInv, NEW op, Sent(op)
  PROVE  /\ call \in Calls /\ CommandHolds(call.command)
         /\ op = "save" => call.command \in SaveCommands
         /\ op = "scope" => call.command \in ScopeCommands
<1>1. call \in Calls /\ CommandHolds(call.command)
  BY DEF PlanningInv, CallInv, Sent, NoCall
<1> QED BY <1>1 DEF Sent, Calls, SaveCommands, ScopeCommands

LEMMA ReadStoresStep == ASSUME PlanningInv, ReadStores PROVE PlanningInv'
<1>1. Grown /\ ScopeInv' /\ revision' \in Nat
  BY StoresSame DEF ReadStores, stores
<1>2. CallInv'
  BY <1>1, SentIs, AnswerOK DEF ReadStores
<1> QED BY <1>1, <1>2, Frames, CountFrame
        DEF PlanningInv, ReadStores, planner, console, stores, loaded, chat, loop

LEMMA TransactScopeStep == ASSUME PlanningInv, TransactScope PROVE PlanningInv'
<1>0. call.command \in ScopeCommands /\ call \in Calls /\ CommandHolds(call.command)
  BY SentIs DEF TransactScope
<1>1. Grown /\ ScopeInv' /\ revision' \in Nat
  <2>1. call.command.request \in ScopeRequests /\ OwnRequest(call.command.request)
    BY <1>0 DEF ScopeCommands, CommandHolds
  <2> QED BY <2>1, ScopeWriteOK DEF TransactScope, stores
<1>2. CallInv'
  BY <1>0, <1>1, AnswerOK DEF TransactScope
<1>3. CountInv'
  BY CountFrame, SpendCounts DEF TransactScope
<1> QED BY <1>1, <1>2, <1>3, Frames
        DEF PlanningInv, TransactScope, planner, console, stores, loaded, chat, loop

\* A plan is published as it was made.
LEMMA PublishOK ==
  ASSUME PlanningInv, call \in Calls, call.command \in SaveCommands, CommandHolds(call.command),
         Publish, InScope, revision = call.command.expected, UNCHANGED <<scopeVars, made>>
  PROVE  Grown /\ ScopeInv' /\ revision' \in Nat /\ PlansInv'
<1>0. PlansInv /\ ScopeInv /\ revision \in Nat /\ Len(journal) \in 0..MaxReceipts
  BY Views DEF PlanningInv
<1> DEFINE plan == [draft |-> call.command.draft, id |-> call.command.id,
                    at |-> revision, scope |-> Len(journal)]
<1>1. plans' = Append(plans, plan) /\ revision' = revision + 1
  BY DEF Publish
<1>2. plan \in Plans
  BY <1>0 DEF Plans, SaveCommands
<1>3. /\ plan.draft.number \in DOMAIN made
      /\ made[plan.draft.number].revision = plan.at
      /\ made[plan.draft.number].scope = plan.scope
  BY DEF CommandHolds, SaveHolds, MadeAs, SaveCommands, InScope
<1>4. plans \in Seq(Plans)
  BY <1>0 DEF PlansInv
<1> HIDE DEF plan
<1>5. /\ plans' \in Seq(Plans) /\ Len(plans) \in Nat
      /\ DOMAIN plans' = 1..Len(plans) + 1 /\ DOMAIN plans = 1..Len(plans)
      /\ plans'[Len(plans) + 1] = plan
      /\ \A i \in DOMAIN plans : plans'[i] = plans[i]
  BY <1>1, <1>2, <1>4
<1>6. \A i \in DOMAIN plans' : i \in DOMAIN plans \/ i = Len(plans) + 1
  BY <1>5
<1>7. made' = made /\ journal' = journal
  BY DEF scopeVars
<1>8. PublishedAsPlanned'
  BY <1>0, <1>3, <1>5, <1>6, <1>7 DEF PlansInv, PublishedAsPlanned
<1>9. \A i \in DOMAIN plans' : plans'[i].draft.number \in DOMAIN made'
  BY <1>0, <1>3, <1>5, <1>6, <1>7 DEF PlansInv
<1>10. Grown /\ revision' \in Nat
  BY <1>0, <1>1, <1>7 DEF Grown
<1>11. ScopeInv'
  BY <1>0, ScopeFrame
<1> QED BY <1>5, <1>8, <1>9, <1>10, <1>11 DEF PlansInv

LEMMA TransactSaveStep == ASSUME PlanningInv, TransactSave PROVE PlanningInv'
<1>0. call.command \in SaveCommands /\ call \in Calls /\ CommandHolds(call.command)
  BY SentIs DEF TransactSave
<1>1. UNCHANGED <<scopeVars, loaded, planner, console, retry, chat, loop, used, made>>
  BY DEF TransactSave
<1>2. /\ UNCHANGED stores \/ (Publish /\ InScope /\ revision = call.command.expected)
      /\ bounds' = bounds \/ Spend("faults")
      /\ \E said \in {"ok", "denied", "stale", "busy", "uncertain"} : Answer(said)
  BY DEF TransactSave
<1>3. Grown /\ ScopeInv' /\ revision' \in Nat /\ PlansInv'
  <2>1. CASE UNCHANGED stores
    <3>1. Grown /\ ScopeInv' /\ revision' \in Nat
      BY <1>1, <2>1, StoresSame DEF stores
    <3> QED BY <2>1, <3>1, Frames DEF stores
  <2>2. CASE Publish /\ InScope /\ revision = call.command.expected
    BY <1>0, <1>1, <2>2, PublishOK
  <2> QED BY <1>2, <2>1, <2>2
<1>4. CallInv'
  BY <1>0, <1>2, <1>3, AnswerOK
<1>5. CountInv'
  BY <1>1, <1>2, CountFrame, SpendCounts
<1> QED BY <1>1, <1>3, <1>4, <1>5, Frames DEF PlanningInv, planner, console, loaded, chat, loop

LEMMA LaterIs ==
  ASSUME NEW a \in Nat, NEW b \in Nat PROVE Later(a, b) \in {a, b} /\ Later(a, b) \in Nat
BY DEF Later

LEMMA NoCallOK == ASSUME Grown, call' = NoCall, revision' \in Nat, ScopeInv' PROVE CallInv'
<1>1. PICK c : c = NoCall
  OBVIOUS
<1>2. c.seen = 0 /\ c.scopeSeen = 0 /\ CommandHolds(c.command) /\ Len(journal') \in Nat
  BY <1>1, NoCommandOK DEF NoCall, CommandOK, ScopeInv, ScopeTypeOK
<1> QED BY <1>1, <1>2, CallOK

LEMMA PollStoreStep == ASSUME PlanningInv, PollStore PROVE PlanningInv'
<1>1. Grown /\ ScopeInv' /\ revision' \in Nat
  BY StoresSame DEF PollStore, stores
<1>2. CallInv'
  BY <1>1, NoCallOK DEF PollStore
<1>3. RetryInv'
  BY DEF PollStore, PlanningInv, RetryInv
<1>4. ViewsInv'
  <2>1. call.seen \in Nat /\ call.seen <= revision
        /\ call.scopeSeen \in Nat /\ call.scopeSeen <= Len(journal)
    BY DEF PlanningInv, CallInv, Calls, NoCall
  <2>2. UNCHANGED <<journal, revision>>
    BY DEF PollStore, scopeVars, stores
  <2>3. ViewsInv
    BY DEF PlanningInv
  <2>4. view' \in {view, call.seen}
    BY <2>1, Views, LaterIs DEF PollStore
  <2>5. scopeView' \in {scopeView, call.scopeSeen}
    BY <2>1, Views, LaterIs DEF PollStore
  <2> QED BY <2>1, <2>2, <2>3, <2>4, <2>5, Views DEF ViewsInv
<1>5. PlannerInv' /\ JobInv'
  <2>1. UNCHANGED <<previous, job, disk, made>> /\ draft' \in {draft, NoDraft}
    BY DEF PollStore, console
  <2>2. NoDraft \in Drafts /\ PlannerInv
    BY Constants DEF NoDraft, Drafts, PlanningInv
  <2>3. PlannerInv'
    BY <2>1, <2>2 DEF PlannerInv, PlannerTypeOK, Active, MadeAs
  <2> QED BY <1>1, <2>1, <2>3, Frames
<1> QED BY <1>1, <1>2, <1>3, <1>4, <1>5, Frames, CountFrame
        DEF PlanningInv, PollStore, planner, console, stores, chat

LEMMA RefreshStep == ASSUME PlanningInv, Refresh PROVE PlanningInv'
<1>1. Grown /\ ScopeInv' /\ revision' \in Nat
  BY StoresSame DEF Refresh, stores
<1>2. ViewsInv'
  BY Views DEF Refresh, ViewsInv, scopeVars, stores
<1> QED BY <1>1, <1>2, Frames, CountFrame
        DEF PlanningInv, Refresh, planner, console, stores, chat, loop, calls

-----------------------------------------------------------------------------
(* Chat turns that write the scope. *)

\* Where a session has a turn.
LEMMA TurnIs ==
  ASSUME PlanningInv, NEW s \in Sessions, turns[s].at # "none"
  PROVE  /\ turns[s] \in Turns /\ turns[s].request \in ScopeRequests
         /\ turns[s].seen <= Len(journal) /\ turns[s].request.by = "user"
BY DEF PlanningInv, TurnsInv, TurnOK, NoTurn, Turns

\* The turns that stand before the journal is touched.
LEMMA FreshTurnOK ==
  ASSUME PlanningInv, ScopeInv', NEW turn \in Turns, turn.seen = 0, turn.request.by = "user"
  PROVE  TurnOK(turn)'
BY DEF TurnOK, ScopeInv, ScopeTypeOK

\* A turn that moves on.
LEMMA MovedTurnOK ==
  ASSUME PlanningInv, Grown, ScopeInv', NEW s \in Sessions, turns[s].at # "none",
         NEW turn \in Turns, turn.seen = turns[s].seen, turn.request = turns[s].request
  PROVE  TurnOK(turn)'
<1>1. ScopeInv
  BY DEF PlanningInv
<1>2. turn.seen \in Nat /\ turn.seen <= Len(journal) /\ turn.request.by = "user"
  BY TurnIs DEF Turns
<1> QED BY <1>1, <1>2 DEF TurnOK, Grown, ScopeInv, ScopeTypeOK

LEMMA SayStep ==
  ASSUME PlanningInv, NEW s \in Sessions, NEW action \in Actions, Say(s, action) PROVE PlanningInv'
<1>1. Grown /\ ScopeInv' /\ revision' \in Nat
  BY StoresSame DEF Say, stores
<1>2. PICK r : r = ScopeRequest(used + 1, action, "user", IF action = "enter" THEN 0 ELSE scopeView)
  OBVIOUS
<1>3. r \in ScopeRequests /\ r.by = "user"
  <2>1. used < MaxIds /\ "user" \in Writers
    BY Constants DEF Say
  <2>2. (IF action = "enter" THEN 0 ELSE scopeView) \in Nat
    BY Views
  <2> QED BY <1>2, <2>1, <2>2, ScopeRequestOK
<1>4. PICK t : t = [at |-> "preparing", cancelled |-> FALSE, seen |-> 0, request |-> r]
  OBVIOUS
<1>5. t \in Turns /\ t.seen = 0 /\ t.request = r
  BY <1>3, <1>4 DEF Turns
<1>6. SetTurn(s, t)
  BY <1>2, <1>4 DEF Say
<1>7. TurnsInv'
  <2>1. TurnOK(t)'
    BY <1>1, <1>3, <1>5, FreshTurnOK
  <2> QED BY <1>1, <1>5, <1>6, <2>1, SetTurnOK
<1>8. CountInv' /\ WaitingInv'
  <2>1. WaitingInv'
    BY <1>6 DEF Say, WaitingInv, PlanningInv, TurnsInv, SetTurn, NoTurn, console
  <2> QED BY <2>1, SpendCounts DEF Say
<1> QED BY <1>1, <1>7, <1>8, Frames
        DEF PlanningInv, Say, planner, console, stores, loaded, calls, loop

LEMMA PrepareTurnStep ==
  ASSUME PlanningInv, NEW s \in Sessions, PrepareTurn(s) PROVE PlanningInv'
<1>1. Grown /\ ScopeInv' /\ revision' \in Nat
  BY StoresSame DEF PrepareTurn, stores
<1>2. PICK t : t \in {NoTurn, [turns[s] EXCEPT !.at = "ready"]} /\ SetTurn(s, t)
  BY DEF PrepareTurn
<1>3. turns[s] \in Turns /\ turns[s].at # "none" /\ WaitingInv'
  <2>1. WaitingInv'
    BY <1>2 DEF PrepareTurn, WaitingInv, PlanningInv, TurnsInv, SetTurn, console
  <2> QED BY <2>1, TurnIs DEF PrepareTurn
<1>4. CASE t = NoTurn
  BY <1>1, <1>2, <1>3, <1>4, NoTurnOK, SetTurnOK, Frames, CountFrame
     DEF PrepareTurn, PlanningInv, planner, console, stores, loaded, calls, loop
<1>5. CASE t = [turns[s] EXCEPT !.at = "ready"]
  <2>1. t \in Turns /\ t.seen = turns[s].seen /\ t.request = turns[s].request
    BY <1>3, <1>5 DEF Turns
  <2>2. TurnsInv'
    <3>1. TurnOK(t)'
      BY <1>1, <1>3, <2>1, MovedTurnOK
    <3> QED BY <1>1, <1>2, <2>1, <3>1, SetTurnOK
  <2> QED BY <1>1, <1>3, <2>2, Frames, CountFrame
     DEF PrepareTurn, PlanningInv, planner, console, stores, loaded, calls, loop
<1> QED BY <1>2, <1>4, <1>5

LEMMA TurnCommandOK ==
  ASSUME PlanningInv, NEW s \in Sessions, NEW c, turns[s].at # "none",
         c = [op |-> "turn", id |-> turns[s].request.id, by |-> "user", saved |-> FALSE,
              session |-> s, request |-> turns[s].request]
  PROVE  CommandOK(c)
<1>1. turns[s].request \in ScopeRequests /\ turns[s].request.by = "user"
  BY TurnIs
<1>2. c \in TurnCommands /\ c.op = "turn" /\ c.request = turns[s].request
      /\ c.id = turns[s].request.id
  BY <1>1 DEF TurnCommands, ScopeRequests
<1> QED BY <1>1, <1>2 DEF CommandOK, Commands, CommandHolds

LEMMA StageTurnStep ==
  ASSUME PlanningInv, NEW s \in Sessions, StageTurn(s) PROVE PlanningInv'
<1>1. Grown /\ ScopeInv' /\ revision' \in Nat
  BY StoresSame DEF StageTurn, stores
<1>2. PICK c : c = [op |-> "turn", id |-> turns[s].request.id, by |-> "user", saved |-> FALSE,
                    session |-> s, request |-> turns[s].request]
  OBVIOUS
<1>3. CommandOK(c)
  BY <1>2, TurnCommandOK DEF StageTurn
<1>4. ConsoleInv' /\ WaitingInv'
  BY <1>1, <1>2, <1>3, PlacesOK DEF StageTurn, Submit, WaitingInv, chat
<1> QED BY <1>1, <1>4, Frames, CountFrame
        DEF PlanningInv, StageTurn, Submit, planner, stores, loaded, calls, chat, loop

LEMMA ResumeTurnStep == ASSUME PlanningInv, ResumeTurn PROVE PlanningInv'
<1>1. Grown /\ ScopeInv' /\ revision' \in Nat
  BY StoresSame DEF ResumeTurn, stores
<1>2. last \in TurnCommands /\ CommandOK(last)
  BY Kinds DEF PlanningInv, ConsoleInv, CommandOK, ResumeTurn
<1>3. last.session \in Sessions /\ last.request \in ScopeRequests /\ last.request.by = "user"
  BY <1>2 DEF TurnCommands, CommandOK, CommandHolds
<1>4. PICK t : t = [at |-> "ready", cancelled |-> FALSE, seen |-> 0, request |-> last.request]
  OBVIOUS
<1>5. t \in Turns /\ t.seen = 0 /\ t.request = last.request
  BY <1>3, <1>4 DEF Turns
<1>6. TurnsInv'
  <2>1. TurnOK(t)'
    BY <1>1, <1>3, <1>5, FreshTurnOK
  <2>2. SetTurn(last.session, t)
    BY <1>4 DEF ResumeTurn
  <2> QED BY <1>1, <1>3, <1>5, <2>1, <2>2, SetTurnOK
<1>7. ConsoleInv'
  BY <1>1, <1>2, PlacesOK DEF ResumeTurn
<1>8. CountInv' /\ WaitingInv'
  <2>1. last.request.id = last.id
    BY <1>2 DEF TurnCommands, CommandOK, CommandHolds
  <2>2. slot' = last /\ turns' = [turns EXCEPT ![last.session] = t]
    BY <1>4 DEF ResumeTurn, SetTurn
  <2>3. turns'[last.session] = t /\ t.at = "ready"
    BY <1>3, <1>4, <2>2 DEF PlanningInv, TurnsInv
  <2>4. WaitingInv'
    BY <1>5, <2>1, <2>2, <2>3 DEF WaitingInv
  <2> QED BY <2>4, SpendCounts DEF ResumeTurn
<1> QED BY <1>1, <1>6, <1>7, <1>8, Frames
        DEF PlanningInv, ResumeTurn, planner, stores, loaded, calls, loop

LEMMA WithdrawTurnStep ==
  ASSUME PlanningInv, NEW s \in Sessions, WithdrawTurn(s) PROVE PlanningInv'
<1>1. Grown /\ ScopeInv' /\ revision' \in Nat
  BY StoresSame DEF WithdrawTurn, stores
<1>2. TurnsInv'
  BY <1>1, NoTurnOK, SetTurnOK DEF WithdrawTurn
<1>3. ConsoleInv'
  BY <1>1, NoCommandOK, PlacesOK DEF WithdrawTurn, PlanningInv, ConsoleInv
<1>4. WaitingInv'
  BY DEF WithdrawTurn, WaitingInv, PlanningInv, TurnsInv, SetTurn, NoCommand
<1> QED BY <1>1, <1>2, <1>3, <1>4, Frames, CountFrame
        DEF PlanningInv, WithdrawTurn, planner, stores, loaded, calls, loop

LEMMA CancelTurnStep ==
  ASSUME PlanningInv, NEW s \in Sessions, CancelTurn(s) PROVE PlanningInv'
<1>1. Grown /\ ScopeInv' /\ revision' \in Nat
  BY StoresSame DEF CancelTurn, stores
<1>2. PICK t : t = [turns[s] EXCEPT !.cancelled = TRUE]
  OBVIOUS
<1>3. SetTurn(s, t) /\ turns[s].at # "none"
  BY <1>2 DEF CancelTurn
<1>4. t \in Turns /\ t.seen = turns[s].seen /\ t.request = turns[s].request
  BY <1>2, <1>3, TurnIs DEF Turns
<1>5. TurnsInv'
  <2>1. TurnOK(t)'
    BY <1>1, <1>3, <1>4, MovedTurnOK
  <2> QED BY <1>1, <1>3, <1>4, <2>1, SetTurnOK
<1>6. CountInv' /\ WaitingInv'
  <2>1. \A r \in Sessions : turns'[r].at = turns[r].at /\ turns'[r].request = turns[r].request
    BY <1>3, <1>4, <1>2, TurnIs DEF PlanningInv, TurnsInv, SetTurn, Turns
  <2>2. slot.op = "turn" => slot.session \in Sessions
    BY Kinds DEF PlanningInv, ConsoleInv, CommandOK, TurnCommands
  <2>3. WaitingInv'
    BY <2>1, <2>2 DEF CancelTurn, WaitingInv, PlanningInv, console
  <2> QED BY <2>3, SpendCounts DEF CancelTurn
<1> QED BY <1>1, <1>5, <1>6, Frames
        DEF PlanningInv, CancelTurn, planner, console, stores, loaded, calls, loop

LEMMA DispatchTurnStep == ASSUME PlanningInv, DispatchTurn PROVE PlanningInv'
<1>1. Grown /\ ScopeInv' /\ revision' \in Nat
  BY StoresSame DEF DispatchTurn, stores
<1>2. ConsoleInv'
  BY <1>1, Emptied DEF DispatchTurn
<1>3. TurnsInv'
  <2>1. PICK s : s = slot.session
    OBVIOUS
  <2>2. s \in Sessions
    BY <2>1, Kinds DEF DispatchTurn, Saved, PlanningInv, ConsoleInv, CommandOK, TurnCommands
  <2>3. PICK t : t = [turns[s] EXCEPT !.at = "writing"]
    OBVIOUS
  <2>4. SetTurn(s, t)
    BY <2>1, <2>3 DEF DispatchTurn
  <2>5. turns[s].at # "none"
    BY <2>1 DEF DispatchTurn, Saved, PlanningInv, WaitingInv
  <2>6. t \in Turns /\ t.seen = turns[s].seen /\ t.request = turns[s].request
    BY <2>2, <2>3, <2>5, TurnIs DEF Turns
  <2>7. TurnOK(t)'
    BY <1>1, <2>2, <2>5, <2>6, MovedTurnOK
  <2> QED BY <1>1, <2>2, <2>4, <2>6, <2>7, SetTurnOK
<1> QED BY <1>1, <1>2, <1>3, Frames, CountFrame
        DEF PlanningInv, DispatchTurn, planner, stores, loaded, calls, loop

LEMMA WriteScopeStep ==
  ASSUME PlanningInv, NEW s \in Sessions, WriteScope(s) PROVE PlanningInv'
<1>0. turns[s].at # "none" /\ turns[s].request \in ScopeRequests /\ turns[s].request.by = "user"
      /\ turns[s] \in Turns
  BY TurnIs DEF WriteScope
<1>1. Grown /\ ScopeInv' /\ revision' \in Nat
  <2>1. OwnRequest(turns[s].request)
    BY <1>0 DEF OwnRequest
  <2> QED BY <1>0, <2>1, ScopeWriteOK DEF WriteScope, stores
<1>2. PICK t : t = [turns[s] EXCEPT !.at = "written", !.seen = Len(journal')]
  OBVIOUS
<1>3. Len(journal') \in Nat
  BY <1>1 DEF ScopeInv, ScopeTypeOK
<1>4. t \in Turns /\ t.seen = Len(journal') /\ t.request.by = "user"
  BY <1>0, <1>2, <1>3 DEF Turns
<1>5. TurnsInv'
  <2>1. TurnOK(t)'
    BY <1>3, <1>4 DEF TurnOK
  <2>2. SetTurn(s, t)
    BY <1>2 DEF WriteScope
  <2> QED BY <1>1, <1>4, <2>1, <2>2, SetTurnOK
<1>6. WaitingInv'
  BY DEF WriteScope, WaitingInv, PlanningInv, TurnsInv, SetTurn, console
<1> QED BY <1>1, <1>5, <1>6, Frames, CountFrame
        DEF PlanningInv, WriteScope, planner, console, stores, loaded, calls, loop

LEMMA PollTurnStep ==
  ASSUME PlanningInv, NEW s \in Sessions, PollTurn(s) PROVE PlanningInv'
<1>0. turns[s] \in Turns /\ turns[s].request \in ScopeRequests /\ turns[s].seen <= Len(journal)
  BY TurnIs DEF PollTurn
<1>1. Grown /\ ScopeInv' /\ revision' \in Nat
  BY StoresSame DEF PollTurn, stores
<1>2. TurnsInv'
  BY <1>1, NoTurnOK, SetTurnOK DEF PollTurn
<1>3. ToldInv'
  <2>1. journal' = journal
    BY DEF PollTurn, scopeVars
  <2>2. turns[s].request.id \in 1..MaxIds
    BY <1>0 DEF ScopeRequests
  <2>3. CASE Receipted(journal, turns[s].request)
    <3>1. told' = told \cup {turns[s].request.id}
      BY <2>3 DEF PollTurn, Acknowledged
    <3> QED BY <2>1, <2>2, <2>3, <3>1 DEF PlanningInv, ToldInv, ToldIsWritten, Receipted
  <2>4. CASE ~Receipted(journal, turns[s].request)
    <3>1. told' = told
      BY <2>4 DEF PollTurn, Acknowledged
    <3> QED BY <1>1, <3>1, Frames
  <2> QED BY <2>3, <2>4
<1>4. ViewsInv'
  <2>1. turns[s].seen \in Nat
    BY <1>0 DEF Turns
  <2>2. scopeView' \in {scopeView, turns[s].seen}
    <3>1. scopeView \in Nat
      BY Views
    <3>2. scopeView' = Later(scopeView, turns[s].seen)
      BY DEF PollTurn
    <3> QED BY <2>1, <3>1, <3>2, LaterIs
  <2> QED BY <1>0, <2>1, <2>2, Views DEF PollTurn, ViewsInv, PlanningInv, stores, scopeVars
<1>5. WaitingInv'
  BY DEF PollTurn, WaitingInv, PlanningInv, TurnsInv, SetTurn, console
<1> QED BY <1>1, <1>2, <1>3, <1>4, <1>5, Frames, CountFrame
        DEF PlanningInv, PollTurn, planner, console, stores, calls, loop

LEMMA UserClearStep == ASSUME PlanningInv, UserClear PROVE PlanningInv'
<1>1. Grown /\ ScopeInv' /\ revision' \in Nat
  BY ClearFlowOK DEF UserClear, stores
<1>2. ViewsInv'
  BY Views DEF UserClear, ClearFlow, ViewsInv, PlanningInv, stores
<1>3. CountInv'
  BY SpendCounts DEF UserClear
<1> QED BY <1>1, <1>2, <1>3, Frames
        DEF PlanningInv, UserClear, planner, console, stores, calls, chat, loop

-----------------------------------------------------------------------------
(* The autopilot. *)

LEMMA LoopFacts ==
  ASSUME PlanningInv
  PROVE  /\ auto \in AutoStates
         /\ refused \in 0..TransientLimit /\ (Planned => auto.failures < PlanAttempts)
         /\ Planned /\ ~auto.paused => refused < TransientLimit
BY DEF PlanningInv, LoopInv, LoopTypeOK

LEMMA BeginOK ==
  ASSUME PlanningInv, NEW stage \in {"scoping", "saving"}, Begin(stage) PROVE LoopInv'
<1>1. refused' = 0 /\ 0 \in 0..TransientLimit /\ 0 < TransientLimit
  BY Constants DEF Begin, Forget
<1>2. /\ auto.plans + 1 \in Nat /\ 0 \in 0..PlanAttempts /\ 0 \in 0..MaxIds /\ 0 < PlanAttempts
  BY LoopFacts, Constants DEF AutoStates
<1>3. auto' = [phase |-> stage, paused |-> FALSE, plan |-> 0, save |-> 0, failures |-> 0,
               plans |-> auto.plans + 1]
  BY DEF Begin, Idle
<1>4. auto' \in AutoStates /\ auto'.failures = 0
  BY <1>2, <1>3 DEF AutoStates
<1> QED BY <1>1, <1>2, <1>4 DEF LoopInv, LoopTypeOK

\* What the autopilot leaves alone: all but its console and its state.
LEMMA QuietOK ==
  ASSUME PlanningInv, UNCHANGED Quiet
  PROVE  /\ Grown /\ ScopeInv' /\ revision' \in Nat
         /\ ToldInv' /\ ViewsInv' /\ CallInv' /\ RetryInv' /\ TurnsInv' /\ PlansInv'
         /\ UNCHANGED <<made, revision, turns>>
<1>1. UNCHANGED <<scopeVars, stores, loaded, calls, chat, made>>
  BY DEF Quiet
<1>2. Grown /\ ScopeInv' /\ revision' \in Nat
  BY <1>1, StoresSame DEF stores
<1> QED BY <1>1, <1>2, Frames DEF stores, calls, chat

\* A decision of the user about the loop.
LEMMA DriveStep ==
  ASSUME PlanningInv, UNCHANGED Quiet, UNCHANGED <<planner, console, used>>, LoopInv',
         bounds' = bounds \/ Spend("driven")
  PROVE  PlanningInv'
<1>1. /\ Grown /\ ScopeInv' /\ revision' \in Nat
      /\ ToldInv' /\ ViewsInv' /\ CallInv' /\ RetryInv' /\ TurnsInv' /\ PlansInv'
      /\ UNCHANGED <<made, revision, turns>>
  BY QuietOK
<1>2. CountInv'
  BY CountFrame, SpendCounts
<1> QED BY <1>1, <1>2, Frames DEF PlanningInv, planner, console

LEMMA GoStep == ASSUME PlanningInv, Go PROVE PlanningInv'
BY BeginOK, DriveStep DEF Go, Begin

LEMMA GoDraftStep == ASSUME PlanningInv, GoDraft PROVE PlanningInv'
BY BeginOK, DriveStep DEF GoDraft, Begin

LEMMA PauseStep == ASSUME PlanningInv, Pause PROVE PlanningInv'
<1>1. auto' = [auto EXCEPT !.paused = TRUE] /\ refused' = refused
  BY DEF Pause
<1>2. LoopInv'
  BY <1>1, LoopFacts DEF LoopInv, LoopTypeOK, AutoStates, Planned
<1> QED BY <1>2, DriveStep DEF Pause

LEMMA ResumeStep == ASSUME PlanningInv, Resume PROVE PlanningInv'
<1>1. PICK n : auto' = [auto EXCEPT !.paused = FALSE, !.plan = n] /\ n \in {0, auto.plan}
  BY DEF Resume
<1>2. refused' = 0
  BY DEF Resume, Forget
<1>3. n \in 0..MaxIds /\ 0 \in 0..TransientLimit /\ 0 < TransientLimit
  BY <1>1, LoopFacts, Constants DEF Jobs, AutoStates
<1>4. auto' \in AutoStates
      /\ auto'.phase = auto.phase /\ auto'.failures = auto.failures
  BY <1>1, <1>3, LoopFacts DEF Jobs, AutoStates
<1>5. LoopInv'
  BY <1>2, <1>3, <1>4, LoopFacts DEF LoopInv, LoopTypeOK, AutoStates, Planned
<1> QED BY <1>5, DriveStep DEF Resume, Forget

LEMMA StopStep == ASSUME PlanningInv, Stop PROVE PlanningInv'
<1>1. PICK n : auto' = [auto EXCEPT !.paused = TRUE, !.plan = n] /\ n \in {0, auto.plan}
  <2>1. CASE auto.phase = "planning" /\ auto.plan # 0 /\ Active /\ Kept = NoDraft
    BY <2>1 DEF Stop
  <2>2. CASE ~(auto.phase = "planning" /\ auto.plan # 0 /\ Active /\ Kept = NoDraft)
    <3>1. auto' = [auto EXCEPT !.paused = TRUE]
      BY <2>2 DEF Stop
    <3>2. auto' = [auto EXCEPT !.paused = TRUE, !.plan = auto.plan]
      BY <3>1, LoopFacts
    <3> QED BY <3>2
  <2> QED BY <2>1, <2>2
<1>2. refused' = refused
  BY DEF Stop
<1>3. auto' \in AutoStates
      /\ auto'.phase = auto.phase /\ auto'.failures = auto.failures /\ auto'.paused
  <2>1. n \in 0..MaxIds
    BY <1>1, LoopFacts, Constants DEF AutoStates
  <2> QED BY <1>1, <2>1, LoopFacts DEF AutoStates
<1>4. LoopInv'
  BY <1>2, <1>3, LoopFacts DEF LoopInv, LoopTypeOK, AutoStates, Planned
<1>5. /\ Grown /\ ScopeInv' /\ revision' \in Nat
      /\ ToldInv' /\ ViewsInv' /\ CallInv' /\ RetryInv' /\ TurnsInv' /\ PlansInv'
      /\ UNCHANGED <<made, revision, turns>>
  BY QuietOK DEF Stop
<1>6. PlannerInv' /\ JobInv'
  <2>1. CASE UNCHANGED planner
    BY <1>5, <2>1, Frames DEF planner, Stop, console
  <2>2. CASE StopGeneration
    BY <1>5, <2>2, StopOK DEF Stop, console
  <2> QED BY <2>1, <2>2 DEF Stop
<1>7. CountInv'
  BY SpendCounts DEF Stop
<1> QED BY <1>4, <1>5, <1>6, <1>7, Frames DEF PlanningInv, Stop, console

LEMMA AdvanceOK ==
  ASSUME PlanningInv, Running, NEW stage \in {"planning", "saving", "running"}, Advance(stage)
  PROVE  LoopInv'
<1>1. auto' = [auto EXCEPT !.phase = stage] /\ refused' = refused
  BY DEF Advance
<1>2. /\ auto' \in AutoStates
      /\ auto'.failures = auto.failures
  BY <1>1, LoopFacts DEF Jobs, AutoStates
<1> QED BY <1>1, <1>2, LoopFacts DEF LoopInv, LoopTypeOK, AutoStates, Running

LEMMA AdvanceStep ==
  ASSUME PlanningInv, Running, NEW stage \in {"planning", "saving", "running"}, Advance(stage)
  PROVE  PlanningInv'
BY AdvanceOK, DriveStep DEF Advance

LEMMA FailStep == ASSUME PlanningInv, Fail PROVE PlanningInv'
<1>1. auto' = [auto EXCEPT !.phase = "failed"] /\ refused' = refused
  BY DEF Fail
<1>2. LoopInv'
  BY <1>1, LoopFacts DEF LoopInv, LoopTypeOK, AutoStates, Planned
<1> QED BY <1>2, DriveStep DEF Fail

\* A submission, or the pause that stands in its place.
LEMMA ProposeStep ==
  ASSUME PlanningInv, Running, NEW key, NEW command, NEW state, Propose(key, command, state),
         UNCHANGED Quiet,
         used < MaxIds => CommandOK(command) /\ command.op # "turn",
         used < MaxIds =>
            /\ state \in AutoStates
            /\ state.failures = auto.failures
  PROVE  PlanningInv'
<1>0. used < MaxIds /\ used' = used + 1 /\ UNCHANGED <<planner, bounds>>
  BY DEF Propose
<1>1. /\ Grown /\ ScopeInv' /\ revision' \in Nat
      /\ ToldInv' /\ ViewsInv' /\ CallInv' /\ RetryInv' /\ TurnsInv' /\ PlansInv'
      /\ UNCHANGED <<made, revision, turns>>
  BY QuietOK
<1> DEFINE transient == lastAuto # NoCommand /\ lastAuto.transient
<1>2. PICK halts \in BOOLEAN :
         /\ transient /\ refused + 1 >= TransientLimit => halts
         /\ refused' = IF transient THEN refused + 1 ELSE 0
         /\ auto' = IF halts THEN [state EXCEPT !.paused = TRUE] ELSE state
         /\ IF halts THEN UNCHANGED <<lastAuto, slot, last, disk>> ELSE Submit(command)
  <2> DEFINE counted == IF transient THEN [tries EXCEPT ![lastAuto.key] = Later(@, 1) - 1]
                    ELSE tries
             h == Exhausted(transient, counted[key])
  <2>1. /\ transient /\ refused + 1 >= TransientLimit => h
        /\ refused' = IF transient THEN refused + 1 ELSE 0
        /\ auto' = IF h THEN [state EXCEPT !.paused = TRUE] ELSE state
        /\ IF h THEN UNCHANGED <<lastAuto, slot, last, disk>> ELSE Submit(command)
    BY DEF Propose, Exhausted
  <2>2. h \in BOOLEAN
    BY DEF Exhausted
  <2> HIDE DEF h, transient
  <2> QED BY <2>1, <2>2
<1> HIDE DEF transient
<1>3. ConsoleInv' /\ WaitingInv' /\ UNCHANGED disk
  <2>1. CASE halts
    BY <1>1, <1>2, <2>1, Frames
  <2>2. CASE ~halts
    <3>1. slot' = command /\ last' = command /\ UNCHANGED disk
      BY <1>2, <2>2 DEF Submit
    <3> QED BY <1>0, <1>1, <3>1, PlacesOK DEF WaitingInv
  <2> QED BY <2>1, <2>2
<1>4. refused < TransientLimit /\ refused \in Nat /\ TransientLimit \in Nat /\ 0 < TransientLimit
  BY LoopFacts, Constants DEF Running
<1>5. refused' \in 0..TransientLimit /\ (halts \/ refused' < TransientLimit)
  BY <1>2, <1>4
<1>6. /\ auto' \in AutoStates
      /\ auto'.failures = auto.failures /\ (halts => auto'.paused)
  BY <1>0, <1>2 DEF Jobs, AutoStates
<1>7. LoopInv'
  BY <1>5, <1>6, LoopFacts DEF LoopInv, LoopTypeOK, AutoStates, Running
<1> QED BY <1>0, <1>1, <1>3, <1>7, Frames, CountFrame DEF PlanningInv, planner

LEMMA SeenAgrees ==
  ASSUME PlanningInv
  PROVE  /\ Len(SeenScope) = scopeView /\ DOMAIN SeenScope = 1..scopeView
         /\ \A i \in 1..scopeView : SeenScope[i] = journal[i] /\ i \in DOMAIN journal
<1>1. journal \in Seq(Receipt) /\ scopeView \in 0..Len(journal) /\ Len(journal) \in Nat
  BY Views
<1> QED BY <1>1 DEF SeenScope

LEMMA ScopingStep == ASSUME PlanningInv, Scoping PROVE PlanningInv'
<1>1. CASE Fail
  BY <1>1, FailStep
<1>2. CASE Advance("planning")
  BY <1>2, AdvanceStep DEF Scoping, Tick
<1>3. CASE ~Fail /\ ~Advance("planning")
  <2>1. PICK action \in {"confirm", "draft"} :
           /\ action = "confirm" <=> Pending(SeenScope) /\ Author(SeenScope) = "autopilot"
           /\ Propose(action, ScopeCommand(ScopeRequest(used + 1, action, "autopilot", scopeView)),
                      auto)
    BY <1>3 DEF Scoping
  <2>2. PICK r : r = ScopeRequest(used + 1, action, "autopilot", scopeView)
    OBVIOUS
  <2>3. used < MaxIds /\ "autopilot" \in Writers /\ scopeView \in Nat /\ action \in Actions
    BY <2>1, Views, Constants DEF Propose, Actions
  <2>4. /\ r \in ScopeRequests /\ r.by = "autopilot" /\ r.action = action
        /\ r.expected = scopeView
    BY <2>2, <2>3, ScopeRequestOK
  <2>5. OwnRequest(r)
    <3> SUFFICES ASSUME action = "confirm"
                 PROVE  scopeView \in DOMAIN journal /\ journal[scopeView].by = "autopilot"
      BY <2>4 DEF OwnRequest
    <3>1. SeenScope # <<>> /\ DraftRevision(SeenScope) = Len(SeenScope)
          /\ SeenScope[DraftRevision(SeenScope)].by = "autopilot"
      BY <2>1 DEF Pending, HasBrief, DraftRevision, Author
    <3>2. scopeView \in 1..scopeView
      BY <3>1, SeenAgrees, Views
    <3> QED BY <3>1, <3>2, SeenAgrees
  <2>6. CommandOK(ScopeCommand(r)) /\ ScopeCommand(r).op # "turn"
    BY <2>4, <2>5, ScopeCommandOK
  <2>7. Propose(action, ScopeCommand(r), auto) /\ Running /\ UNCHANGED Quiet
    BY <2>1, <2>2 DEF Scoping, Tick, Propose
  <2> QED BY <2>6, <2>7, LoopFacts, ProposeStep
<1> QED BY <1>1, <1>2, <1>3

LEMMA PlanFailedOK == ASSUME PlanningInv, Running, PlanFailed PROVE LoopInv'
<1>1. PICK stage \in {auto.phase, "failed"} :
         /\ auto' = [auto EXCEPT !.failures = @ + 1, !.plan = 0, !.phase = stage]
         /\ auto.failures + 1 >= PlanAttempts => stage = "failed"
  <2>1. CASE auto.failures + 1 >= PlanAttempts
    BY <2>1 DEF PlanFailed
  <2>2. CASE ~(auto.failures + 1 >= PlanAttempts)
    <3>1. auto' = [auto EXCEPT !.failures = @ + 1, !.plan = 0]
      BY <2>2 DEF PlanFailed
    <3>2. auto' = [auto EXCEPT !.failures = @ + 1, !.plan = 0, !.phase = auto.phase]
      BY <3>1, LoopFacts
    <3> QED BY <2>2, <3>2
  <2> QED BY <2>1, <2>2
<1>2. auto.failures + 1 \in 0..PlanAttempts /\ 0 \in 0..MaxIds
      /\ auto.failures \in Nat /\ PlanAttempts \in Nat
  BY LoopFacts, Constants DEF Running, Jobs, AutoStates
<1>3. stage \in {"none", "scoping", "planning", "saving", "running", "failed"}
  BY <1>1, LoopFacts DEF Jobs, AutoStates
<1>4. /\ auto' \in AutoStates
      /\ auto'.failures = auto.failures + 1 /\ auto'.phase = stage /\ auto'.paused = auto.paused
  BY <1>1, <1>2, <1>3, LoopFacts DEF Jobs, AutoStates
<1>5. refused' = refused
  BY DEF PlanFailed
<1> QED BY <1>1, <1>2, <1>4, <1>5, LoopFacts DEF LoopInv, LoopTypeOK, AutoStates, Running, Planned

LEMMA PlanningStepStep == ASSUME PlanningInv, PlanningStep PROVE PlanningInv'
<1>0. Running /\ ~Active
  BY DEF PlanningStep, Tick
<1>1. CASE Advance("saving")
  BY <1>0, <1>1, AdvanceStep
<1>2. CASE Fail
  BY <1>2, FailStep
<1>3. CASE draft' \in {draft, NoDraft} /\ UNCHANGED <<previous, job>> /\ PlanFailed
  <2>1. /\ Grown /\ ScopeInv' /\ revision' \in Nat
        /\ ToldInv' /\ ViewsInv' /\ CallInv' /\ RetryInv' /\ TurnsInv' /\ PlansInv'
        /\ UNCHANGED <<made, revision, turns>>
    BY <1>3, QuietOK DEF PlanFailed
  <2>2. UNCHANGED <<console, used, bounds>>
    BY <1>3 DEF PlanFailed
  <2>3. PlannerInv /\ NoDraft \in Drafts
    BY Constants DEF PlanningInv, NoDraft, Drafts
  <2>4. PlannerInv'
    BY <1>0, <1>3, <2>1, <2>2, <2>3 DEF PlannerInv, PlannerTypeOK, Active, MadeAs, console
  <2> QED BY <1>0, <1>3, <2>1, <2>2, <2>4, PlanFailedOK, Frames, CountFrame DEF PlanningInv, console
<1>4. CASE Propose("plan", PlanCommand("autopilot"), [auto EXCEPT !.plan = used + 1])
  <2>1. used < MaxIds /\ UNCHANGED Quiet
    BY <1>4 DEF Propose
  <2>2. used + 1 \in 0..MaxIds
    BY <2>1, Views, Constants
  <2>3. [auto EXCEPT !.plan = used + 1].failures = auto.failures
    BY LoopFacts
  <2>4. [auto EXCEPT !.plan = used + 1]
           \in AutoStates
    BY <2>2, LoopFacts DEF Jobs, AutoStates
  <2>5. CommandOK(PlanCommand("autopilot")) /\ PlanCommand("autopilot").op # "turn"
    BY <2>1, PlanCommandOK
  <2> QED BY <1>0, <1>4, <2>1, <2>3, <2>4, <2>5, ProposeStep
<1> QED BY <1>1, <1>2, <1>3, <1>4 DEF PlanningStep, planner

LEMMA SavingStep == ASSUME PlanningInv, Saving PROVE PlanningInv'
<1>0. Running /\ ~Active
  BY DEF Saving, Tick
<1>1. CASE Advance("running")
  BY <1>0, <1>1, AdvanceStep
<1>2. CASE Fail
  BY <1>2, FailStep
<1>3. CASE Kept # NoDraft
           /\ Propose("save", SaveCommand("autopilot"), [auto EXCEPT !.save = used + 1])
  <2>1. used < MaxIds /\ UNCHANGED Quiet
    BY <1>3 DEF Propose
  <2>2. used + 1 \in 0..MaxIds
    BY <2>1, Views, Constants
  <2>3. [auto EXCEPT !.save = used + 1].failures = auto.failures
    BY LoopFacts
  <2>4. [auto EXCEPT !.save = used + 1]
           \in AutoStates
    BY <2>2, LoopFacts DEF Jobs, AutoStates
  <2>5. CommandOK(SaveCommand("autopilot")) /\ SaveCommand("autopilot").op # "turn"
    BY <1>0, <1>3, <2>1, KeptDraft, SaveCommandOK
  <2> QED BY <1>0, <1>3, <2>1, <2>3, <2>4, <2>5, ProposeStep
<1> QED BY <1>1, <1>2, <1>3 DEF Saving

-----------------------------------------------------------------------------
(* The rest of the world. *)

LEMMA OthersWriteStep == ASSUME PlanningInv, OthersWrite PROVE PlanningInv'
<1>0. PlansInv /\ ScopeInv /\ revision \in Nat /\ revision' = revision + 1
      /\ UNCHANGED <<scopeVars, plans, made>>
  BY Views DEF PlanningInv, OthersWrite
<1>1. Grown /\ ScopeInv' /\ revision' \in Nat
  <2>1. ScopeInv' /\ Len(journal) \in Nat
    BY <1>0, ScopeFrame, Views
  <2> QED BY <1>0, <2>1 DEF Grown, scopeVars
<1>2. CountInv'
  BY SpendCounts DEF OthersWrite
<1> QED BY <1>1, <1>2, Frames
        DEF PlanningInv, OthersWrite, planner, console, calls, chat, loop

LEMMA OthersScopeStep ==
  ASSUME PlanningInv, NEW action \in Actions, OthersScope(action) PROVE PlanningInv'
<1>1. PICK r : r = ScopeRequest(used + 1, action, "elsewhere", Len(journal)) /\ ScopeWrite(r)
  BY DEF OthersScope
<1>2. used < MaxIds /\ "elsewhere" \in Writers /\ Len(journal) \in Nat
  BY Views, Constants DEF OthersScope
<1>3. r \in ScopeRequests /\ r.by = "elsewhere"
  BY <1>1, <1>2, ScopeRequestOK
<1>4. Grown /\ ScopeInv' /\ revision' \in Nat
  <2>1. OwnRequest(r)
    BY <1>3 DEF OwnRequest
  <2> QED BY <1>1, <1>3, <2>1, ScopeWriteOK DEF OthersScope, stores
<1>5. CountInv'
  BY SpendCounts DEF OthersScope
<1> QED BY <1>4, <1>5, Frames
        DEF PlanningInv, OthersScope, planner, console, stores, loaded, calls, chat, loop

LEMMA CrashStep == ASSUME PlanningInv, Crash PROVE PlanningInv'
<1>1. Grown /\ ScopeInv' /\ revision' \in Nat
  BY StoresSame DEF Crash, stores
<1>2. ConsoleInv' /\ CallInv' /\ RetryInv'
  BY <1>1, Emptied, NoCallOK DEF Crash, RetryInv
<1>3. TurnsInv'
  BY DEF Crash, TurnsInv, TurnOK
<1>4. ViewsInv'
  BY Views DEF Crash, ViewsInv, scopeVars, stores
<1>5. PlannerInv' /\ JobInv'
  <2>1. NoDraft \in Drafts /\ PlannerInv /\ NoJob.at = "none"
        /\ NoJob \in Jobs
    BY Constants DEF NoDraft, Drafts, PlanningInv, NoJob, Jobs, AutoStates
  <2>2. draft' = disk /\ previous' = NoDraft /\ job' = NoJob /\ UNCHANGED <<disk, made>>
    BY DEF Crash
  <2>3. PlannerTypeOK'
    BY <2>1, <2>2 DEF PlannerInv, PlannerTypeOK
  <2> QED BY <2>1, <2>2, <2>3 DEF PlannerInv, Active, MadeAs, JobInv
<1>6. LoopInv'
  <2>1. refused' = 0 /\ auto' = IF Planned THEN [auto EXCEPT !.paused = TRUE] ELSE auto
    BY DEF Crash, Forget
  <2>2. 0 \in 0..TransientLimit
    BY Constants
  <2>3. CASE Planned
    BY <2>1, <2>2, <2>3, LoopFacts DEF LoopInv, LoopTypeOK, AutoStates, Planned
  <2>4. CASE ~Planned
    BY <2>1, <2>2, <2>4, LoopFacts DEF LoopInv, LoopTypeOK, AutoStates, Planned
  <2> QED BY <2>3, <2>4
<1>7. CountInv'
  BY SpendCounts DEF Crash
<1> QED BY <1>1, <1>2, <1>3, <1>4, <1>5, <1>6, <1>7, Frames DEF PlanningInv, Crash, stores

-----------------------------------------------------------------------------
(* The invariant. *)

LEMMA InitHolds == ASSUME PlanningConstants, ScopeConstants, Init PROVE PlanningInv
<1>0. /\ MaxIds \in Nat /\ MaxReceipts \in Nat /\ PlanAttempts \in Nat \ {0}
      /\ TransientLimit \in Nat \ {0} /\ Scenarios \subseteq Limits
  BY DEF PlanningConstants, ScopeConstants
<1>1. ScopeInv /\ ToldInv /\ ViewsInv
  BY <1>0 DEF Init, ScopeInit, ScopeInv, ScopeTypeOK, Coherent, OthersDecide, RoomToAgree, Pending,
              HasBrief, ToldInv, ToldIsWritten, ViewsInv
<1>2. ConsoleInv /\ RetryInv /\ WaitingInv
  BY NoCommandOK DEF Init, ConsoleInv, RetryInv, WaitingInv, NoCommand
<1>3. CallInv
  BY <1>0, NoCommandOK DEF Init, ScopeInit, CallInv, CommandOK, NoCall
<1>4. TurnsInv
  BY DEF Init, TurnsInv, TurnOK
<1>5. PlannerInv /\ JobInv
  <2>1. NoDraft \in Drafts /\ NoJob \in Jobs /\ NoJob.at = "none"
    BY <1>0 DEF NoDraft, Drafts, NoJob, Jobs
  <2> QED BY <2>1 DEF Init, PlannerInv, PlannerTypeOK, Active, MadeAs, JobInv
<1>6. PlansInv
  BY DEF Init, PlansInv, PublishedAsPlanned
<1>7. LoopInv
  BY <1>0 DEF Init, LoopInv, LoopTypeOK, AutoStates, Idle, Planned
<1>8. CountInv
  BY <1>0 DEF Init, CountInv
<1> QED BY <1>1, <1>2, <1>3, <1>4, <1>5, <1>6, <1>7, <1>8 DEF PlanningInv

LEMMA StutterStep == ASSUME PlanningInv, UNCHANGED vars PROVE PlanningInv'
<1>1. Grown /\ ScopeInv' /\ revision' \in Nat
  BY StoresSame DEF vars, stores
<1> QED BY <1>1, Frames, CountFrame
        DEF vars, PlanningInv, planner, console, stores, loaded, calls, chat, loop

LEMMA InvStep == ASSUME PlanningInv, [Next]_vars PROVE PlanningInv'
<1>1. CASE PlannerStep
  BY <1>1, CheckRevisionStep, CaptureScopeStep, AdmitModelStep, ReplyStep, PollPlannerStep
     DEF PlannerStep
<1>2. CASE Barrier
  BY <1>2, SaveConversationStep, DispatchPlanStep, DispatchCancelStep, DispatchStoreStep,
     DispatchTurnStep DEF Barrier
<1>3. CASE Transaction
  BY <1>3, TransactSaveStep, TransactScopeStep, ReadStoresStep, PollStoreStep DEF Transaction
<1>4. ASSUME NEW s \in Sessions, Router(s) PROVE PlanningInv'
  BY <1>4, PrepareTurnStep, StageTurnStep, WithdrawTurnStep, WriteScopeStep, PollTurnStep
     DEF Router
<1>5. CASE Loop
  BY <1>5, ScopingStep, PlanningStepStep, SavingStep DEF Loop
<1>6. CASE User
  <2>1. CASE UserPlan \/ UserRevise \/ UserCancel \/ UserSave \/ UserRefresh \/ UserClear
    BY <2>1, UserPlanStep, UserReviseStep, UserCancelStep, UserSaveStep, UserRefreshStep,
       UserClearStep
  <2>2. CASE Retry \/ ResumeTurn \/ \E action \in Actions : UserScope(action)
    BY <2>2, RetryStep, ResumeTurnStep, UserScopeStep
  <2>3. CASE Go \/ GoDraft \/ Pause \/ Stop \/ Resume
    BY <2>3, GoStep, GoDraftStep, PauseStep, StopStep, ResumeStep
  <2> QED BY <1>6, <2>1, <2>2, <2>3 DEF User
<1>7. ASSUME NEW s \in Sessions, Speaks(s) PROVE PlanningInv'
  BY <1>7, CancelTurnStep, SayStep DEF Speaks
<1>8. CASE Others
  BY <1>8, OthersWriteStep, OthersScopeStep DEF Others
<1> QED BY <1>1, <1>2, <1>3, <1>4, <1>5, <1>6, <1>7, <1>8, RefreshStep, CrashStep, StutterStep
        DEF Next, System

LEMMA InvImplies ==
  ASSUME PlanningInv
  PROVE  ScopeIsOwn /\ RoomToAgree /\ Coherent /\ PublishedAsPlanned
<1>1. CommandsTypeOK /\ PlannerTypeOK /\ LoopTypeOK
  BY DEF PlanningInv, CommandsTypeOK, ConsoleInv, CommandOK, CallInv, RetryInv, TurnsInv, ToldInv,
         PlannerInv, LoopInv
<1>2. TypeOK
  BY <1>1 DEF PlanningInv, TypeOK, ScopeInv, ViewsInv, PlansInv, CountInv
<1> QED BY <1>2 DEF PlanningInv, ScopeIsOwn, ScopeInv, ToldInv, PlansInv

-----------------------------------------------------------------------------
(* How a draft leaves. *)

\* The alternatives of the property, as one action.
LEMMA DraftStep ==
  ASSUME PlanningInv, [Next]_vars PROVE LeavesBy(retry # NoSave /\ PlanSaved(retry.id))
<1> SUFFICES ASSUME Kept # NoDraft, Kept' # Kept, bounds'.crashes = bounds.crashes
             PROVE  \/ Saved({"plan", "revise", "cancel"}) /\ slot.base = Kept.number
                    \/ job.at = "good"
                    \/ auto'.failures > auto.failures
                    \/ retry # NoSave /\ PlanSaved(retry.id)
  BY DEF LeavesBy
<1>0. ~(UNCHANGED <<draft, previous>>)
  BY KeptStays
<1>1. ~StopGeneration
  BY DEF StopGeneration, HandedBack, Kept
<1>2. CASE PlannerStep
  BY <1>0, <1>1, <1>2
     DEF PlannerStep, CheckRevision, CaptureScope, AdmitModel, Reply, PollPlanner, JobStep
<1>3. CASE Barrier
  <2>1. CASE DispatchPlan
    BY <1>0, <2>1, Zenon DEF DispatchPlan, planner, Generates, SameDraft, Saved
  <2>2. CASE DispatchCancel
    BY <1>0, <1>1, <2>2, Zenon DEF DispatchCancel, planner, SameDraft, Saved
  <2> QED BY <1>0, <1>3, <2>1, <2>2
          DEF Barrier, SaveConversation, DispatchStore, DispatchTurn, planner
<1>4. CASE Transaction
  <2>1. CASE PollStore
    BY <1>0, <2>1 DEF PollStore, PlanSaved
  <2> QED BY <1>0, <1>4, <2>1
          DEF Transaction, TransactSave, TransactScope, ReadStores, planner
<1>5. ASSUME NEW s \in Sessions, Router(s) PROVE FALSE
  BY <1>0, <1>5
     DEF Router, PrepareTurn, StageTurn, WithdrawTurn, WriteScope, PollTurn, planner
<1>6. CASE Loop
  <2>1. ASSUME NEW stage, Advance(stage) PROVE FALSE
    BY <1>0, <2>1 DEF Advance, planner
  <2>2. ~Fail
    BY <1>0 DEF Fail, planner
  <2>3. ASSUME NEW key, NEW command, NEW state, Propose(key, command, state) PROVE FALSE
    BY <1>0, <2>3 DEF Propose, planner
  <2>4. ASSUME PlanFailed, Running PROVE auto'.failures > auto.failures
    BY <2>4, LoopFacts, Constants DEF PlanFailed, AutoStates
  <2> QED BY <1>6, <2>1, <2>2, <2>3, <2>4 DEF Loop, Scoping, PlanningStep, Saving, Tick
<1>7. CASE User
  <2>1. ASSUME NEW command, Typed(command) PROVE FALSE
    BY <1>0, <2>1 DEF Typed, planner
  <2>2. ASSUME NEW stage, Begin(stage) PROVE FALSE
    BY <1>0, <2>2 DEF Begin, planner
  <2>3. CASE UserPlan \/ UserRevise \/ UserCancel \/ UserSave
             \/ \E action \in Actions : UserScope(action)
    BY <2>1, <2>3 DEF UserPlan, UserRevise, UserCancel, UserSave, UserScope
  <2>4. CASE UserRefresh \/ UserClear \/ Retry \/ ResumeTurn
    BY <1>0, <2>4 DEF UserRefresh, UserClear, Retry, ResumeTurn, planner
  <2>5. CASE Go \/ GoDraft \/ Pause \/ Stop \/ Resume
    BY <1>0, <1>1, <2>2, <2>5 DEF Go, GoDraft, Pause, Stop, Resume, planner
  <2> QED BY <1>7, <2>3, <2>4, <2>5 DEF User
<1>8. ASSUME NEW s \in Sessions, Speaks(s) PROVE FALSE
  BY <1>0, <1>8 DEF Speaks, CancelTurn, Say, planner
<1>9. CASE Others
  BY <1>0, <1>9 DEF Others, OthersWrite, OthersScope, planner
<1>10. ~Crash
  BY Crashed DEF Crash
<1>11. ~Refresh /\ ~(UNCHANGED vars)
  BY <1>0 DEF Refresh, vars, planner
<1> QED BY <1>2, <1>3, <1>4, <1>5, <1>6, <1>7, <1>8, <1>9, <1>10, <1>11 DEF Next, System

-----------------------------------------------------------------------------
(* The theorems. *)

\* Every state of Planning has the invariant.
THEOREM PlanningHolds == Spec => []PlanningInv
<1>1. Init => PlanningInv
  BY InitHolds, PlanningBounds, MaxReceiptsAssumption
<1>2. PlanningInv /\ [Next]_vars => PlanningInv'
  BY InvStep
<1> QED BY <1>1, <1>2, PTL DEF Spec

\* A draft of the scope that somebody else wrote is never confirmed by the
\* autopilot, and a chat turn is told that its prompt was applied only if it was.
THEOREM ScopeOwn == Spec => []ScopeIsOwn
<1>1. PlanningInv => ScopeIsOwn
  BY InvImplies
<1> QED BY <1>1, PlanningHolds, PTL

\* Whatever the journal has accepted, its draft can still be agreed on, and read()
\* believes the file.
THEOREM RoomIsLeft == Spec => [](RoomToAgree /\ Coherent)
<1>1. PlanningInv => RoomToAgree /\ Coherent
  BY InvImplies
<1> QED BY <1>1, PlanningHolds, PTL

\* A plan is saved for the revision and the scope it was made for, and a complete
\* draft leaves only by what was meant for it.
THEOREM PlansKept == Spec => PlansHold
<1>1. PlanningInv => PublishedAsPlanned
  BY InvImplies
<1>2. PlanningInv /\ [Next]_vars => [LeavesBy(retry # NoSave /\ PlanSaved(retry.id))]_vars
  BY DraftStep
<1> QED BY <1>1, <1>2, PlanningHolds, PTL DEF Spec, PlansHold, DraftsAreKept
=============================================================================
