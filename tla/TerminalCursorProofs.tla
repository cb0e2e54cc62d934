------------------------ MODULE TerminalCursorProofs ------------------------
(***************************************************************************)
(* Proofs about the terminal cursor, for any tasks, outputs, attempts and  *)
(* receipts.  An eventId determines its event, since the ids of the tasks  *)
(* of a round stay apart in it; so an entry that is complete is one whose  *)
(* event an operator has seen, and the events implement OperatorCursor.    *)
(***************************************************************************)
EXTENDS TerminalCursor, SequenceTheorems, TLAPS

EventsOf(t) == {TerminalEvidenceEvent(t, raw) : raw \in Outputs[t]}
AllEvents   == UNION {EventsOf(t) : t \in Tasks}

ShownId(id) == \E e \in shown : e.eventId = id

(***************************************************************************)
(* The inductive invariant: events are those of their task's outputs, what *)
(* is shown was emitted, a receipt that says visible and an entry that is  *)
(* complete both belong to the id of an event that was shown.              *)
(***************************************************************************)
EventsInv   == /\ DOMAIN events = Tasks
               /\ \A t \in Tasks : events[t] \in Seq(EventsOf(t))
ShownInv    == shown \subseteq Emitted
ReceiptsInv == \A rc \in receipts : rc.operatorVisible => ShownId(rc.eventId)
CompleteInv == \A id \in complete : ShownId(id)

CursorInv == EventsInv /\ ShownInv /\ ReceiptsInv /\ CompleteInv

(***************************************************************************)
(* What the evidence of an output can be.                                  *)
(***************************************************************************)
LEMMA OutcomeTyped ==
  ASSUME NEW t \in Tasks, NEW raw \in Outputs[t]
  PROVE  /\ EvidenceKind(raw) \in EvidenceKinds
         /\ EventUrl(raw) \in Urls
<1>1. raw \in RawRunnerOutput(Urls) /\ NoUrl \in Urls
  BY CursorAssumption
<1>2. /\ raw.pr \in Urls /\ raw.github.pr \in Urls
      /\ raw.github.block \in Urls /\ raw.github.done \in Urls
  BY <1>1 DEF RawRunnerOutput, GitHubEvidence
<1> DEFINE x == ExtractGitHubEvidence(raw)
<1>3. x.pr \in Urls /\ x.block \in Urls /\ x.done \in Urls
  <2>1. \/ x = BlockEvidence(raw.github) \/ x = DoneEvidence(raw.github)
        \/ x = PrEvidence(raw.github.pr) \/ x = PrEvidence(raw.pr)
        \/ x = NoEvidence
    BY DEF ExtractGitHubEvidence
  <2>2. \A g : /\ BlockEvidence(g).pr = NoUrl /\ BlockEvidence(g).block = g.block
               /\ BlockEvidence(g).done = NoUrl
               /\ DoneEvidence(g).pr = NoUrl /\ DoneEvidence(g).block = NoUrl
               /\ DoneEvidence(g).done = g.done
    BY DEF BlockEvidence, DoneEvidence, NoEvidence
  <2>3. \A u : PrEvidence(u).pr = u /\ PrEvidence(u).block = NoUrl /\ PrEvidence(u).done = NoUrl
    BY DEF PrEvidence, NoEvidence
  <2>4. NoEvidence.pr = NoUrl /\ NoEvidence.block = NoUrl /\ NoEvidence.done = NoUrl
    BY DEF NoEvidence
  <2> HIDE DEF x
  <2> QED
    BY <1>1, <1>2, <2>1, <2>2, <2>3, <2>4
<1>4. EvidenceKind(raw) \in EvidenceKinds
  BY DEF EvidenceKind, EvidenceKinds
<1>5. EventUrl(raw) \in {x.pr, x.done, x.block, NoUrl}
  BY <1>4 DEF EventUrl, EvidenceKinds
<1> QED
  BY <1>1, <1>3, <1>4, <1>5

(***************************************************************************)
(* An eventId determines its event.                                        *)
(***************************************************************************)
LEMMA IdDetermines ==
  ASSUME NEW e \in AllEvents, NEW f \in AllEvents, e.eventId = f.eventId
  PROVE  e = f
<1>1. PICK s \in Tasks : \E raw \in Outputs[s] : e = TerminalEvidenceEvent(s, raw)
  BY DEF AllEvents, EventsOf
<1>2. PICK t \in Tasks : \E raw \in Outputs[t] : f = TerminalEvidenceEvent(t, raw)
  BY DEF AllEvents, EventsOf
<1>3. /\ e.eventId = <<SafeName[s], e.status, e.kind, e.url>>
      /\ f.eventId = <<SafeName[t], f.status, f.kind, f.url>>
      /\ e.task = s /\ f.task = t
      /\ e.progress = Progress(s) /\ f.progress = Progress(t)
  BY <1>1, <1>2 DEF TerminalEvidenceEvent, StableEventId
<1>4. /\ SafeName[s] = SafeName[t] /\ e.status = f.status
      /\ e.kind = f.kind /\ e.url = f.url
  <2>1. <<SafeName[s], e.status, e.kind, e.url>> = <<SafeName[t], f.status, f.kind, f.url>>
    BY <1>3
  <2> QED
    BY <2>1
<1>5. s = t
  BY <1>4, NamesAssumption
<1> QED
  BY <1>1, <1>2, <1>4, <1>5 DEF TerminalEvidenceEvent

LEMMA EventTyped ==
  ASSUME NEW t \in Tasks, NEW e \in EventsOf(t)
  PROVE  e.task = t /\ e.kind \in EvidenceKinds /\ e.url \in Urls
<1>1. PICK raw \in Outputs[t] : e = TerminalEvidenceEvent(t, raw)
  BY DEF EventsOf
<1> QED
  BY <1>1, OutcomeTyped DEF TerminalEvidenceEvent

LEMMA EmittedTyped ==
  ASSUME EventsInv
  PROVE  /\ Emitted \subseteq AllEvents
         /\ \A e \in Emitted : e.task \in Tasks /\ e.kind \in EvidenceKinds /\ e.url \in Urls
<1>1. ASSUME NEW e \in Emitted
      PROVE  \E t \in Tasks : e \in EventsOf(t)
  <2>1. PICK t \in Tasks : \E i \in DOMAIN events[t] : e = events[t][i]
    BY DEF Emitted
  <2>2. events[t] \in Seq(EventsOf(t))
    BY DEF EventsInv
  <2> QED
    BY <2>1, <2>2
<1> QED
  BY <1>1, EventTyped DEF AllEvents

(***************************************************************************)
(* A report adds one event of its task and leaves the others.              *)
(***************************************************************************)
LEMMA ReportAdds ==
  ASSUME EventsInv, NEW t \in Tasks, Report(t)
  PROVE  /\ EventsInv'
         /\ \E e \in EventsOf(t) : Emitted' = Emitted \cup {e}
<1>1. PICK raw \in Outputs[t] :
        events' = [events EXCEPT ![t] = Append(@, TerminalEvidenceEvent(t, raw))]
  BY DEF Report
<1> DEFINE e == TerminalEvidenceEvent(t, raw)
<1>2. e \in EventsOf(t)
  BY DEF EventsOf
<1>3. /\ DOMAIN events' = Tasks
      /\ events'[t] = Append(events[t], e)
      /\ \A s \in Tasks \ {t} : events'[s] = events[s]
  BY <1>1 DEF EventsInv
<1> HIDE DEF e
<1>4. events[t] \in Seq(EventsOf(t))
  BY DEF EventsInv
<1>5. /\ events'[t] \in Seq(EventsOf(t))
      /\ DOMAIN events'[t] = (DOMAIN events[t]) \cup {Len(events[t]) + 1}
      /\ \A i \in DOMAIN events[t] : events'[t][i] = events[t][i]
      /\ events'[t][Len(events[t]) + 1] = e
  <2>1. Append(events[t], e) \in Seq(EventsOf(t))
    BY <1>2, <1>4
  <2>2. DOMAIN events[t] = 1..Len(events[t]) /\ Len(events[t]) \in Nat
    BY <1>4
  <2>3. /\ DOMAIN Append(events[t], e) = 1..(Len(events[t]) + 1)
        /\ \A i \in 1..Len(events[t]) : Append(events[t], e)[i] = events[t][i]
        /\ Append(events[t], e)[Len(events[t]) + 1] = e
    BY <1>2, <1>4
  <2> QED
    BY <1>3, <2>1, <2>2, <2>3
<1>6. EventsInv'
  BY <1>3, <1>5 DEF EventsInv, EventsOf, TerminalEvidenceEvent
<1> DEFINE Of(s) == {events[s][i] : i \in DOMAIN events[s]}
           OfN(s) == {events'[s][i] : i \in DOMAIN events'[s]}
<1>7. OfN(t) = Of(t) \cup {e}
  BY <1>5
<1>8. \A s \in Tasks \ {t} : OfN(s) = Of(s)
  BY <1>3
<1>9. Emitted = UNION {Of(s) : s \in Tasks} /\ Emitted' = UNION {OfN(s) : s \in Tasks}
  BY DEF Emitted
<1>10. UNION {OfN(s) : s \in Tasks} = (UNION {Of(s) : s \in Tasks}) \cup {e}
  <2> HIDE DEF Of, OfN
  <2> QED BY <1>7, <1>8
<1> QED
  BY <1>2, <1>6, <1>9, <1>10

LEMMA CursorInductive == CursorInv /\ [Next]_cursorVars => CursorInv'
<1> SUFFICES ASSUME CursorInv, [Next]_cursorVars PROVE CursorInv'
  OBVIOUS
<1> USE DEF CursorInv
<1>1. ASSUME NEW t \in Tasks, Report(t) PROVE CursorInv'
  <2>1. EventsInv' /\ Emitted \subseteq Emitted'
    BY <1>1, ReportAdds
  <2>2. UNCHANGED <<shown, receipts, complete>>
    BY <1>1 DEF Report
  <2> QED
    BY <2>1, <2>2 DEF ShownInv, ReceiptsInv, CompleteInv, ShownId
<1>2. ASSUME NEW e \in Emitted, NEW visible \in BOOLEAN, Deliver(e, visible)
      PROVE  CursorInv'
  <2>1. UNCHANGED <<events, complete>>
    BY <1>2 DEF Deliver
  <2>2. EventsInv' /\ Emitted' = Emitted
    BY <2>1 DEF EventsInv, Emitted
  <2>3. shown' = IF visible THEN shown \cup {e} ELSE shown
    BY <1>2 DEF Deliver
  <2>4. \A id : ShownId(id) => ShownId(id)'
    BY <2>3 DEF ShownId
  <2>5. visible => ShownId(e.eventId)'
    BY <2>3 DEF ShownId
  <2>6. ReceiptsInv'
    <3>1. PICK trace \in BOOLEAN, named \in BOOLEAN :
            receipts' = receipts \cup
              {[eventId |-> e.eventId, operatorVisible |-> visible,
                trace |-> trace, named |-> named]}
      BY <1>2 DEF Deliver
    <3>2. ASSUME NEW rc \in receipts', rc.operatorVisible
          PROVE  ShownId(rc.eventId)'
      <4>1. CASE rc \in receipts
        BY <3>2, <4>1, <2>4 DEF ReceiptsInv
      <4>2. CASE rc = [eventId |-> e.eventId, operatorVisible |-> visible,
                       trace |-> trace, named |-> named]
        BY <3>2, <4>2, <2>5
      <4> QED
        BY <3>1, <4>1, <4>2
    <3>3. \A rc \in receipts' : rc.operatorVisible => ShownId(rc.eventId)'
      BY <3>2
    <3> QED
      BY <3>3 DEF ReceiptsInv, ShownId
  <2>7. CompleteInv'
    BY <2>1, <2>4 DEF CompleteInv, ShownId
  <2> QED
    BY <2>2, <2>3, <2>6, <2>7 DEF ShownInv
<1>3. ASSUME NEW e \in Emitted, NEW rc \in receipts, Decide(e, rc)
      PROVE  CursorInv'
  <2>1. UNCHANGED <<events, shown, receipts>> /\ complete' = complete \cup {e.eventId}
    BY <1>3 DEF Decide
  <2>2. rc.operatorVisible /\ rc.eventId = e.eventId
    BY <1>3 DEF Decide, Acknowledged, DecideTerminalEvidenceAck, BuildTerminalAckDecision
  <2>3. ShownId(e.eventId)
    BY <2>2 DEF ReceiptsInv
  <2> QED
    BY <2>1, <2>3 DEF EventsInv, ShownInv, ReceiptsInv, CompleteInv, ShownId, Emitted
<1>4. CASE UNCHANGED cursorVars
  BY <1>4 DEF cursorVars, EventsInv, ShownInv, ReceiptsInv, CompleteInv, ShownId, Emitted
<1> QED
  BY <1>1, <1>2, <1>3, <1>4 DEF Next

LEMMA CursorInitial == Init => CursorInv
BY DEF Init, CursorInv, EventsInv, ShownInv, ReceiptsInv, CompleteInv, Emitted

LEMMA CursorInvariance == Spec => []CursorInv
BY CursorInitial, CursorInductive, PTL DEF Spec

LEMMA ReplaysFollow == CursorInv => ReplaysAreEqual
BY EmittedTyped, IdDetermines DEF CursorInv, ReplaysAreEqual

(***************************************************************************)
(* A replay is a replay: for any outputs and any number of attempts two    *)
(* events under one eventId are the same event (integration.ts             *)
(* stableEventId).                                                         *)
(***************************************************************************)
THEOREM ReplaySafety == Spec => []ReplaysAreEqual
BY CursorInvariance, ReplaysFollow, PTL

LEMMA LatestFollows == CursorInv => LatestIsSeen
<1> SUFFICES ASSUME CursorInv, NEW t \in Tasks, events[t] # <<>>, Latest(t).eventId \in complete
             PROVE  \E e \in shown : /\ e.task = t
                                     /\ e.kind = Latest(t).kind /\ e.url = Latest(t).url
  BY DEF LatestIsSeen
<1>1. events[t] \in Seq(EventsOf(t))
  BY DEF CursorInv, EventsInv
<1>2. Len(events[t]) \in DOMAIN events[t]
  BY <1>1
<1>3. Latest(t) \in EventsOf(t) /\ Latest(t) \in Emitted
  BY <1>1, <1>2 DEF Latest, Emitted
<1>4. PICK e \in shown : e.eventId = Latest(t).eventId
  BY DEF CursorInv, CompleteInv, ShownId
<1>5. e = Latest(t)
  BY <1>3, <1>4, ReplaysFollow DEF ReplaysAreEqual, CursorInv, ShownInv
<1>6. Latest(t).task = t
  BY <1>3 DEF EventsOf, TerminalEvidenceEvent
<1> QED
  BY <1>5, <1>6

(***************************************************************************)
(* Nothing is closed behind the operator's back: an entry is complete only *)
(* when an operator has seen the evidence of the task's latest event,      *)
(* whatever receipts are lost, late or repeated (integration.ts            *)
(* decideTerminalEvidenceAck and buildTerminalAckDecision).                *)
(***************************************************************************)
THEOREM SeenBeforeClosed == Spec => []LatestIsSeen
BY CursorInvariance, LatestFollows, PTL

-----------------------------------------------------------------------------
(***************************************************************************)
(* The refinement.                                                         *)
(***************************************************************************)
Reported == {OutcomeOf(e) : e \in Emitted}
Seen     == {OutcomeOf(e) : e \in shown}
Closed   == {OutcomeOf(e) : e \in {f \in Emitted : f.eventId \in complete}}

LEMMA PromiseInit == Init => Promise!Init
BY DEF Init, Promise!Init, Emitted

LEMMA PromiseStep ==
  CursorInv /\ CursorInv' /\ [Next]_cursorVars => [Promise!Next]_(Promise!ovars)
<1> SUFFICES ASSUME CursorInv, CursorInv', [Next]_cursorVars
             PROVE  Promise!Next \/ UNCHANGED Promise!ovars
  OBVIOUS
<1> DEFINE Outcomes == [task: Tasks, kind: EvidenceKinds, url: Urls]
<1>0. \A e \in Emitted : OutcomeOf(e) \in Outcomes
  BY EmittedTyped DEF CursorInv, OutcomeOf
<1>1. ASSUME NEW t \in Tasks, Report(t)
      PROVE  Promise!Next
  <2>1. PICK n \in EventsOf(t) : Emitted' = Emitted \cup {n}
    BY <1>1, ReportAdds DEF CursorInv
  <2>2. UNCHANGED <<shown, complete>>
    BY <1>1 DEF Report
  <2>3. Reported' = Reported \cup {OutcomeOf(n)}
    BY <2>1 DEF Reported, OutcomeOf
  <2>4. Seen' = Seen
    BY <2>2 DEF Seen, OutcomeOf
  <2>5. ASSUME n.eventId \in complete PROVE n \in Emitted
    <3>1. PICK e \in shown : e.eventId = n.eventId
      BY <2>5 DEF CursorInv, CompleteInv, ShownId
    <3>2. e \in Emitted
      BY DEF CursorInv, ShownInv
    <3>3. e \in AllEvents /\ n \in AllEvents
      BY <3>2, EmittedTyped DEF CursorInv, AllEvents
    <3> QED
      BY <3>1, <3>2, <3>3, IdDetermines
  <2>6. {f \in Emitted' : f.eventId \in complete'} = {f \in Emitted : f.eventId \in complete}
    BY <2>1, <2>2, <2>5
  <2>7. Closed' = Closed
    BY <2>6 DEF Closed, OutcomeOf
  <2>8. OutcomeOf(n) \in Outcomes
    BY <2>1, EventTyped DEF OutcomeOf
  <2>9. Promise!Report(OutcomeOf(n))
    BY <2>3, <2>4, <2>7 DEF Promise!Report, Reported, Seen, Closed
  <2> QED
    BY <2>8, <2>9 DEF Promise!Next
<1>2. ASSUME NEW e \in Emitted, NEW visible \in BOOLEAN, Deliver(e, visible)
      PROVE  Promise!Next \/ UNCHANGED Promise!ovars
  <2>1. UNCHANGED <<events, complete>> /\ Emitted' = Emitted
    BY <1>2 DEF Deliver, Emitted
  <2>2. Reported' = Reported /\ Closed' = Closed
    BY <2>1 DEF Reported, Closed, OutcomeOf
  <2>3. CASE visible
    <3>1. shown' = shown \cup {e}
      BY <1>2, <2>3 DEF Deliver
    <3>2. Seen' = Seen \cup {OutcomeOf(e)}
      BY <3>1 DEF Seen, OutcomeOf
    <3>3. OutcomeOf(e) \in Reported
      BY DEF Reported
    <3>4. Promise!Show(OutcomeOf(e))
      BY <2>2, <3>2, <3>3 DEF Promise!Show, Reported, Seen, Closed
    <3> QED
      BY <3>4, <1>0 DEF Promise!Next
  <2>4. CASE ~visible
    <3>1. shown' = shown
      BY <1>2, <2>4 DEF Deliver
    <3>2. Seen' = Seen
      BY <3>1 DEF Seen, OutcomeOf
    <3> QED
      BY <2>2, <3>2 DEF Promise!ovars, Reported, Seen, Closed
  <2> QED
    BY <2>3, <2>4
<1>3. ASSUME NEW e \in Emitted, NEW rc \in receipts, Decide(e, rc)
      PROVE  Promise!Next
  <2>1. UNCHANGED <<events, shown>> /\ complete' = complete \cup {e.eventId}
    BY <1>3 DEF Decide
  <2>2. Emitted' = Emitted
    BY <2>1 DEF Emitted
  <2>3. Reported' = Reported /\ Seen' = Seen
    BY <2>1, <2>2 DEF Reported, Seen, OutcomeOf
  <2>4. {f \in Emitted' : f.eventId \in complete'}
          = {f \in Emitted : f.eventId \in complete} \cup {e}
    BY <2>1, <2>2, ReplaysFollow DEF ReplaysAreEqual
  <2>5. Closed' = Closed \cup {OutcomeOf(e)}
    BY <2>4 DEF Closed, OutcomeOf
  <2>6. e.eventId \in complete'
    BY <2>1
  <2>7. PICK s \in shown : s.eventId = e.eventId
    <3>1. CompleteInv'
      BY DEF CursorInv
    <3>2. \E s \in shown' : s.eventId = e.eventId
      BY <2>6, <3>1 DEF CompleteInv, ShownId
    <3> QED
      BY <2>1, <3>2
  <2>8. s = e
    BY <2>7, ReplaysFollow DEF ReplaysAreEqual, CursorInv, ShownInv
  <2>9. OutcomeOf(e) \in Seen
    BY <2>8 DEF Seen
  <2>10. Promise!Close(OutcomeOf(e))
    BY <2>3, <2>5, <2>9 DEF Promise!Close, Reported, Seen, Closed
  <2> QED
    BY <2>10, <1>0 DEF Promise!Next
<1>4. CASE UNCHANGED cursorVars
  <2>1. Reported' = Reported /\ Seen' = Seen /\ Closed' = Closed
    BY <1>4 DEF cursorVars, Reported, Seen, Closed, Emitted, OutcomeOf
  <2> QED
    BY <2>1 DEF Promise!ovars, Reported, Seen, Closed
<1> QED
  BY <1>1, <1>2, <1>3, <1>4 DEF Next

(***************************************************************************)
(* Events, receipts and ids together implement the abstract promise, for   *)
(* every round of tasks (OperatorCursor).                                  *)
(***************************************************************************)
THEOREM CursorRefinement == Spec => KeepsPromise
<1>1. Spec => Promise!Spec
  BY PromiseInit, PromiseStep, CursorInvariance, PTL DEF Spec, Promise!Spec
<1> QED
  BY <1>1 DEF KeepsPromise
=============================================================================
