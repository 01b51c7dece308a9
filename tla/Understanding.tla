---------------------------- MODULE Understanding ----------------------------
(***************************************************************************)
(* The shared understanding of a repository: understanding.rs.             *)
(*                                                                         *)
(* Its journal is a bounded sequence of receipts.  The brief, whether it   *)
(* is confirmed and the revision all follow from the receipts, which is    *)
(* what read() checks before it believes the file.  The text of a brief is *)
(* left out; who wrote a draft is kept.                                    *)
(***************************************************************************)
EXTENDS Naturals, Sequences, FiniteSets

CONSTANTS
    Writers,        \* who supplies scope requests
    MaxReceipts     \* understanding.rs: 256 receipts

ScopeConstants == MaxReceipts \in Nat /\ MaxReceipts >= 3

ASSUME MaxReceiptsAssumption == ScopeConstants

VARIABLES
    journal,        \* the receipts in understanding.json
    cleared         \* the marker of /scope-clear: the revision it was left at

scopeVars == <<journal, cleared>>

Actions == {"enter", "draft", "confirm"}

\* Correlations are drawn from the naturals.
Receipt == [id : Nat, action : Actions, expected : Nat, by : Writers]

-----------------------------------------------------------------------------
(* What a journal says: Snapshot.  The first receipt brings a brief.  *)

HasBrief(j) == j # <<>>

Confirmed(j) == HasBrief(j) /\ j[Len(j)].action = "confirm"

Pending(j) == HasBrief(j) /\ ~Confirmed(j)

\* The draft that is in force: the last receipt that is not a confirmation,
\* which is the last one, or the one before it.
DraftRevision(j) == IF Confirmed(j) THEN Len(j) - 1 ELSE Len(j)

\* The excerpt of a prompt that entered the flow, which is no agreement.
Placeholder(j) == HasBrief(j) /\ j[1].action = "enter" /\ DraftRevision(j) = 1

\* Snapshot::apply, after the revision check: a confirmation names the draft it
\* was prepared at.
Applies(j, request) ==
    \/ request.action = "enter" /\ j = <<>>
    \/ request.action = "draft"
    \/ /\ request.action = "confirm"
       /\ Pending(j) /\ ~Placeholder(j) /\ DraftRevision(j) = request.expected

\* Fault: a draft takes the last place.
FitsAnyway(j, request) == Len(j) < MaxReceipts

\* A draft leaves a place for its confirmation.
Fits(j, request) ==
    /\ Len(j) < MaxReceipts
    /\ request.action = "draft" => Len(j) + 2 <= MaxReceipts

Receipted(j, request) == \E i \in DOMAIN j : j[i].id = request.id

\* Fault: the revision the request was prepared at is not compared.
CommitsBlindly(j, request) == Applies(j, [request EXCEPT !.expected = Len(j)]) /\ Fits(j, request)

Commits(j, request) == request.expected = Len(j) /\ Fits(j, request) /\ Applies(j, request)

\* transact: a request that has its receipt is answered with it.
Answered(j, request) == Receipted(j, request) \/ Commits(j, request)

After(j, request) ==
    IF ~Receipted(j, request) /\ Commits(j, request) THEN Append(j, request) ELSE j

\* flow_cleared: at exactly this revision.
FlowCleared(j) == cleared # 0 /\ cleared = Len(j)

-----------------------------------------------------------------------------
(* The store on its own: requests arrive in any order, prepared at any      *)
(* revision, as often as anyone likes.                                      *)

ScopeInit == journal = <<>> /\ cleared = 0

ScopeWrite(request) == journal' = After(journal, request) /\ UNCHANGED cleared

\* clear_flow: there must be a flow to clear.
ClearFlow == journal # <<>> /\ cleared' = Len(journal) /\ UNCHANGED journal

ScopeNext == ClearFlow \/ \E request \in Receipt : ScopeWrite(request)

ScopeSpec == ScopeInit /\ [][ScopeNext]_scopeVars

-----------------------------------------------------------------------------
ScopeTypeOK == journal \in Seq(Receipt) /\ Len(journal) <= MaxReceipts /\ cleared \in 0..MaxReceipts

\* Whatever drafts were accepted, the one in force can still be confirmed, or,
\* where the flow was only entered, replaced and then confirmed.
RoomToAgree ==
    Pending(journal) => Len(journal) + (IF Placeholder(journal) THEN 2 ELSE 1) <= MaxReceipts

\* Each confirmation follows the draft it names, and no correlation has two
\* receipts: read() would refuse anything else.
Coherent ==
    /\ \A i \in DOMAIN journal : journal[i].action = "enter" => i = 1
    /\ \A i \in DOMAIN journal : journal[i].expected = i - 1
    /\ \A i \in DOMAIN journal : journal[i].action = "confirm"
                                   => i > 1 /\ journal[i - 1].action = "draft"
    /\ \A i, k \in DOMAIN journal : journal[i].id = journal[k].id => i = k
=============================================================================
