------------------------------- MODULE Provider -------------------------------
(***************************************************************************)
(* One streamed model request of a coding worker (provider.rs): it waits    *)
(* for shared capacity (Admission.tla), checks under the permit that it is  *)
(* still wanted, sends, reads frames and reports them as events on a        *)
(* channel.  A try that fails before anything came is repeated, without     *)
(* the permit, a bounded number of times; any other failure is final.       *)
(*                                                                          *)
(* A frame with text is the pair of its try and its place in it.  Tools,    *)
(* recordings, the wording of errors and the settings sent are left out.    *)
(***************************************************************************)
EXTENDS Naturals, Sequences

CONSTANTS MaxRetries,   \* connect_retries
          MaxFrames     \* bound: frames with text in a try

ASSUME ProviderAssumption == MaxRetries \in Nat /\ MaxFrames \in Nat \ {0}

VARIABLES
    request,    \* what the request is doing
    sends,      \* how many times it was sent
    came,       \* what came in this try
    spoken,     \* ghost: the text the server sent in this try
    events      \* the channel to the worker

model == <<request, sends, came, spoken, events>>

Requests == {"off", "queued", "admitted", "sending", "streaming", "waiting"}

\* The request holds shared capacity: _permit lives as long as stream().
Permit == request \in {"admitted", "sending", "streaming"}

Event == [kind : {"text", "done", "unreachable", "failed"}, of : Nat \X Nat]

ProviderInit == /\ request = "off" /\ sends = 0 /\ came = "nothing"
                /\ spoken = <<>> /\ events = <<>>

ProviderTypeOK == /\ request \in Requests
                  /\ sends \in 0..MaxRetries + 1
                  /\ came \in {"nothing", "thinking", "text"}
                  /\ spoken \in Seq(Nat \X Nat)
                  /\ events \in Seq(Event)

Emit(kind) == events' = Append(events, [kind |-> kind, of |-> <<0, 0>>])

Ask == /\ request' = "queued" /\ sends' = 1
       /\ UNCHANGED <<came, spoken, events>>

-----------------------------------------------------------------------------
\* Failure::Final
Fails(kind) == /\ request' = "off" /\ Emit(kind)
               /\ UNCHANGED <<sends, came, spoken>>

\* Failure::BeforeContent: repeated while retries are left.
Retries(kind) ==
    IF sends <= MaxRetries
    THEN request' = "waiting" /\ UNCHANGED <<sends, came, spoken, events>>
    ELSE Fails(kind)

\* A stream that broke is asked again, whatever came.
BreaksAlways == Retries("failed")

\* FrameProgress::failure
Breaks == IF came = "nothing" THEN Retries("failed") ELSE Fails("failed")

\* A slot is granted; a queue that cannot be read refuses.
Granted == /\ request = "queued"
           /\ \/ request' = "admitted" /\ UNCHANGED <<sends, came, spoken, events>>
              \/ Fails("failed")

\* The worker's check of its own run, and the room the prompt needs.
Check(wanted) ==
    /\ request = "admitted"
    /\ \/ /\ wanted /\ request' = "sending"
          /\ UNCHANGED <<sends, came, spoken, events>>
       \/ Fails("failed")

\* An answer of the server: 2xx; no connection; 5xx; other status or no answer
\* within the loading deadline.
Send == /\ request = "sending"
        /\ \/ request' = "streaming" /\ UNCHANGED <<sends, came, spoken, events>>
           \/ Retries("unreachable")
           \/ Retries("failed")
           \/ Fails("failed")

Thinking == /\ request = "streaming" /\ came = "nothing" /\ came' = "thinking"
            /\ UNCHANGED <<request, sends, spoken, events>>

Text == /\ request = "streaming" /\ Len(spoken) < MaxFrames
        /\ LET frame == <<sends, Len(spoken) + 1>> IN
             /\ spoken' = Append(spoken, frame)
             /\ events' = Append(events, [kind |-> "text", of |-> frame])
        /\ came' = "text"
        /\ UNCHANGED <<request, sends>>

\* Only the server's done marker completes a request; one that was cut at the
\* token limit is a failure.
Done == /\ request = "streaming"
        /\ \/ request' = "off" /\ Emit("done") /\ UNCHANGED <<sends, came, spoken>>
           \/ Fails("failed")

\* The connection is lost or ends, or the server reports an error.
Broken == request = "streaming" /\ Breaks

\* No frame for a minute, a malformed or oversized one, or a missing model.
Stalled == request = "streaming" /\ Fails("failed")

Again == /\ request = "waiting" /\ request' = "queued" /\ sends' = sends + 1
         /\ came' = "nothing" /\ spoken' = <<>>
         /\ UNCHANGED events

\* The ten-minute deadline of the whole request.
Expires == request # "off" /\ Fails("failed")

\* The job was aborted: its queue place or permit is dropped with it.
Dropped == /\ request # "off" /\ request' = "off"
           /\ UNCHANGED <<sends, came, spoken, events>>

ModelStep(wanted) ==
    \/ Granted \/ Check(wanted) \/ Send \/ Thinking \/ Text \/ Done
    \/ Broken \/ Stalled \/ Again \/ Expires

=============================================================================
