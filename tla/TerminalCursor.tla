--------------------------- MODULE TerminalCursor ---------------------------
(***************************************************************************)
(* Terminal events between the handler and the operator.  A round has      *)
(* tasks, the broker may run a task again, and every run that prints an    *)
(* output yields an event.  Events wait in an outbox under their eventId,  *)
(* so one with a known id is a replay.  A send may be lost, be accepted by *)
(* the provider only, or become visible to the operator; its receipt may   *)
(* arrive late, twice, or never.  A decider of integration.ts says whether *)
(* an event and a receipt complete the entry (the terminal cursor).        *)
(*                                                                         *)
(* The outbox, the provider and the broker are not in this repository:     *)
(* they are as the deciders' arguments and the fixtures of the tests show. *)
(***************************************************************************)
EXTENDS Integers, FiniteSets, Sequences

CONSTANTS
  Tasks,      \* the tasks of the parent round
  Attempts,   \* how often the broker runs one task
  Urls,       \* the URLs runs may come up with
  NoUrl,
  SafeName,   \* what is left of a task id in an eventId (160 safe characters)
  Outputs,    \* Outputs[t]: the raw outputs a run of t may have
  Order,      \* Order[t]: the sequence or order in t's payload; 0 is none
  Total,      \* the round's total in the payloads; 0 is none
  MaxReceipts \* bound: receipts that come back at all

INSTANCE HandlerEvidence

ASSUME CursorAssumption ==
  /\ {Attempts, Total, MaxReceipts} \subseteq Nat /\ Order \in [Tasks -> Nat]
  /\ NoUrl \in Urls
  /\ \A t \in Tasks : Outputs[t] \subseteq RawRunnerOutput(Urls)

\* The ids of the tasks of a round differ in what an eventId keeps of them.
ASSUME NamesAssumption ==
  \A s, t \in Tasks : SafeName[s] = SafeName[t] => s = t

VARIABLES
  decider,    \* which of the two deciders the broker asks
  events,     \* the events of each task, oldest first
  shown,      \* the events an operator has seen
  receipts,   \* the receipts that came back, for what event
  complete    \* the eventIds whose outbox entry is complete

cursorVars == <<decider, events, shown, receipts, complete>>

(***************************************************************************)
(* stableEventId: no run, no attempt and no time is part of it.            *)
(***************************************************************************)
\* Mutant: the URL is not part of the id.
Bug_NoUrlInId(task, kind, status, url) == <<SafeName[task], status, kind>>

StableEventId(task, kind, status, url) == <<SafeName[task], status, kind, url>>

(***************************************************************************)
(* The progress n/N of a brief (buildTerminalBriefContext, with            *)
(* positiveInteger): n is the sequence or the order the payload gives.     *)
(***************************************************************************)
Progress(t) == IF Total > 0 /\ Order[t] <= Total THEN Order[t] ELSE 0

TerminalEvidenceEvent(t, raw) ==
  LET kind   == EvidenceKind(raw)
      status == EventStatus(kind, raw.ok)
      url    == EventUrl(raw)
  IN [task |-> t, kind |-> kind, status |-> status, url |-> url,
      progress |-> Progress(t),
      eventId |-> StableEventId(t, kind, status, url)]

Emitted == UNION {{events[t][i] : i \in DOMAIN events[t]} : t \in Tasks}
Entries == {e.eventId : e \in Emitted}

Deciders == {"decideTerminalEvidenceAck", "buildTerminalAckDecision"}

Init ==
  /\ decider \in Deciders
  /\ events = [t \in Tasks |-> <<>>]
  /\ shown = {} /\ receipts = {} /\ complete = {}

(***************************************************************************)
(* A run of t ends and the handler emits its event.  An output the parser  *)
(* refuses, or a run that dies, emits nothing.                             *)
(***************************************************************************)
Report(t) ==
  /\ Len(events[t]) < Attempts
  /\ \E raw \in Outputs[t] :
       events' = [events EXCEPT ![t] = Append(@, TerminalEvidenceEvent(t, raw))]
  /\ UNCHANGED <<decider, shown, receipts, complete>>

(***************************************************************************)
(* The notifier sends an open entry.  visible: the operator sees it;       *)
(* trace: the receipt names a message or a URL; named: it repeats the id   *)
(* of its event.  A receipt stays: it may be read at any later time, more  *)
(* than once, or never.                                                    *)
(***************************************************************************)
Deliver(e, visible) ==
  /\ e.eventId \notin complete
  /\ shown' = IF visible THEN shown \cup {e} ELSE shown
  /\ Cardinality(receipts) < MaxReceipts
  /\ \E trace \in BOOLEAN, named \in BOOLEAN :
       receipts' = receipts \cup
         {[eventId |-> e.eventId, operatorVisible |-> visible,
           trace |-> trace, named |-> named]}
  /\ UNCHANGED <<decider, events, complete>>

(***************************************************************************)
(* decideTerminalEvidenceAck compares the receipt's id, if there is one,   *)
(* with the event's.  buildTerminalAckDecision wants a kind with a URL;    *)
(* its receipt has no id.  A receipt without an id is read for the entry   *)
(* it was filed under, one with an id may be brought up for any entry.     *)
(***************************************************************************)
\* Mutants: the ids are not compared; the provider's word is enough.
Bug_AnyReceipt(e, rc) == rc.operatorVisible /\ rc.trace
Bug_ProviderIsEnough(e, rc) == (rc.named => rc.eventId = e.eventId) /\ rc.trace

DecideTerminalEvidenceAck(e, rc) ==
  /\ rc.named => rc.eventId = e.eventId
  /\ rc.operatorVisible
  /\ rc.trace

BuildTerminalAckDecision(e, rc) ==
  e.kind \in Answered /\ rc.operatorVisible /\ rc.trace

Acknowledged(e, rc) ==
  \/ /\ decider = "decideTerminalEvidenceAck"
     /\ rc.named \/ rc.eventId = e.eventId
     /\ DecideTerminalEvidenceAck(e, rc)
  \/ /\ decider = "buildTerminalAckDecision"
     /\ rc.eventId = e.eventId
     /\ BuildTerminalAckDecision(e, rc)

Decide(e, rc) ==
  /\ Acknowledged(e, rc)
  /\ complete' = complete \cup {e.eventId}
  /\ UNCHANGED <<decider, events, shown, receipts>>

Next ==
  \/ \E t \in Tasks : Report(t)
  \/ \E e \in Emitted, visible \in BOOLEAN : Deliver(e, visible)
  \/ \E e \in Emitted, rc \in receipts : Decide(e, rc)

Spec == Init /\ [][Next]_cursorVars
-----------------------------------------------------------------------------
Latest(t) == events[t][Len(events[t])]

(***************************************************************************)
(* No completion without an operator: when the entry of a task's latest    *)
(* event is complete, an operator has seen an event of that very task with *)
(* the same kind of evidence at the same URL.  Receipts that are late,     *)
(* repeated, of an earlier attempt or of another task never close it.      *)
(***************************************************************************)
LatestIsSeen ==
  \A t \in Tasks :
    events[t] # <<>> /\ Latest(t).eventId \in complete =>
      \E e \in shown : /\ e.task = t
                       /\ e.kind = Latest(t).kind /\ e.url = Latest(t).url

(***************************************************************************)
(* A retry that opens another pull request, or that ends in another way,   *)
(* is never taken for a replay: events that share an id are of one task    *)
(* and show the operator the same evidence.                                *)
(***************************************************************************)
ReplaysAreEqual ==
  \A e, f \in Emitted : e.eventId = f.eventId => e = f

(***************************************************************************)
(* The events, receipts and ids together implement the promise.            *)
(***************************************************************************)
OutcomeOf(e) == [task |-> e.task, kind |-> e.kind, url |-> e.url]

Promise == INSTANCE OperatorCursor WITH
  Outcomes <- [task: Tasks, kind: EvidenceKinds, url: Urls],
  reported <- {OutcomeOf(e) : e \in Emitted},
  seen     <- {OutcomeOf(e) : e \in shown},
  closed   <- {OutcomeOf(e) : e \in {f \in Emitted : f.eventId \in complete}}

KeepsPromise == Promise!Spec
=============================================================================
