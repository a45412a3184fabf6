------------------------------- MODULE Tracer -------------------------------
(***************************************************************************)
(* SimpleTracer (adapters/observability/simple-tracer.ts) with the parent- *)
(* based sampler (primitives/trace-sampling.ts).                           *)
(*                                                                         *)
(* A flow is a chain of awaits with its own AsyncLocalStorage: the stack   *)
(* holds the traces and spans it has open, and its top is the context of   *)
(* what the flow does next.  A flow that is started inside another one     *)
(* begins with that one's context.  A step goes from one await to the      *)
(* next; trace, endTrace and shutdown are several steps, because they wait *)
(* for the exporters in between, and that is where flows meet: a trace is  *)
(* ended by its own flow, by a flow that finds it stale or too many, and   *)
(* by shutdown.                                                            *)
(*                                                                         *)
(* Ids are numbers in the order of creation, which is the order of the     *)
(* maps.  What exporters are told is counted.  Attributes, events, status, *)
(* and whether an exporter is awaited are left out: its callback is called *)
(* in the same order either way.                                           *)
(***************************************************************************)
EXTENDS Integers, Sequences, FiniteSets, SequencesExt

CONSTANTS Flows, MaxTraces, MaxSpans,
          MaxActiveTraces, StaleTraceTtlMs,
          Readings,   \* of the clock, the ones that matter
          None

TracerAssumption ==
  /\ MaxTraces \in Nat /\ MaxSpans \in Nat
  /\ MaxActiveTraces \in Nat \ {0} /\ StaleTraceTtlMs \in Nat \ {0}
  /\ 0 \in Readings /\ Readings \subseteq Nat
  /\ None \notin Nat

VARIABLES
  activeTraces, activeSpans,  \* the two maps
  closed,
  flows,      \* each flow: its stack, where it is, and what it is ending
  created,    \* the time at which a trace began that has its id
  traceOf,    \* the trace of a span that has its id
  dropped,    \* the traces and spans that are not recorded
  now,
  traceEnds,  \* how often exporters were told that a trace has ended
  spanEnds,   \*   and a span
  meddled,    \* traces that another flow has taken it upon itself to end
  stopping    \* shutdown has been called

records == <<activeTraces, activeSpans, closed, created, traceOf, dropped>>
history == <<traceEnds, spanEnds, meddled, stopping>>
tracerVars == <<records, flows, now, history>>

Traces == 1..MaxTraces
Spans == 1..MaxSpans
Decisions == {"drop", "record_only", "record_and_sample"}

\* What the sampler and the trace handle see of a trace or span that is open.
Context == [kind : {"trace", "span", "inherited"}, trace : Traces \cup {None},
            span : Spans \cup {None}, sampled : BOOLEAN]

Quiet == [at |-> "idle", stack |-> <<>>, todo |-> {}, ending |-> None, spans |-> {},
          back |-> "idle"]

TypeOK ==
  /\ activeTraces \subseteq Traces /\ activeSpans \subseteq Spans
  /\ closed \in BOOLEAN /\ stopping \in BOOLEAN /\ now \in Readings
  /\ created \in [Traces -> Readings \cup {None}]
  /\ traceOf \in [Spans -> Traces \cup {None}]
  /\ traceEnds \in [Traces -> Nat] /\ spanEnds \in [Spans -> Nat]
  /\ meddled \subseteq Traces
  /\ dropped.traces \subseteq Traces /\ dropped.spans \subseteq Spans
  /\ \A f \in Flows :
       /\ flows[f].at \in {"idle", "body", "prune", "limit", "begin", "ending", "leave",
                           "stop", "flush", "over"}
       /\ flows[f].stack \in Seq(Context)
       /\ flows[f].todo \subseteq Traces /\ flows[f].spans \subseteq Spans

Init ==
  /\ activeTraces = {} /\ activeSpans = {} /\ closed = FALSE /\ now = 0
  /\ flows = [f \in Flows |-> Quiet]
  /\ created = [t \in Traces |-> None] /\ traceOf = [s \in Spans |-> None]
  /\ traceEnds = [t \in Traces |-> 0] /\ spanEnds = [s \in Spans |-> 0]
  /\ dropped = [traces |-> {}, spans |-> {}]
  /\ meddled = {} /\ stopping = FALSE

At(f, where) == flows[f].at = where

\* tryUse: the innermost trace or span of the flow.
Current(f) == Last(flows[f].stack)
InContext(f) == flows[f].stack # <<>>
Free(f) == At(f, "body") \/ (At(f, "idle") /\ ~InContext(f))

Resumed(flow) == [flow EXCEPT !.at = IF flow.stack = <<>> THEN "idle" ELSE "body"]
Opened(flow, context) == [flow EXCEPT !.stack = Append(@, context), !.at = "body"]
Left(flow) == Resumed([flow EXCEPT !.stack = Front(@)])

NextTrace == 1 + Cardinality({t \in Traces : created[t] # None})
NextSpan == 1 + Cardinality({s \in Spans : traceOf[s] # None})

\* createParentBasedTraceSampler: what the parent decided, else any root sampler.
ShouldSample(f) ==
  IF ~InContext(f) THEN Decisions
  ELSE IF Current(f).sampled THEN {"record_and_sample"} ELSE {"drop"}

Recorded(decision) == decision # "drop"
Sampled(decision) == decision = "record_and_sample"

-----------------------------------------------------------------------------
\* Mutant of EndSpan: the span is taken off the map after the exporters have been told.
EndSpanUnchecked(s) ==
  /\ activeSpans' = activeSpans \ {s}
  /\ spanEnds' = [spanEnds EXCEPT ![s] = @ + 1]

\* endSpan: whoever comes first takes the span off the map and tells the exporters.
EndSpan(s) ==
  /\ activeSpans' = activeSpans \ {s}
  /\ spanEnds' = IF s \in activeSpans THEN [spanEnds EXCEPT ![s] = @ + 1] ELSE spanEnds

\* One turn of endTrace: the next of the spans it has listed, and the trace after the last.
EndOn(f, flow, t, spans, back) ==
  IF spans = {}
    THEN /\ activeTraces' = activeTraces \ {t}
         /\ traceEnds' = [traceEnds EXCEPT ![t] = @ + 1]
         /\ flows' = [flows EXCEPT ![f] = [flow EXCEPT !.at = back, !.ending = None]]
         /\ UNCHANGED <<activeSpans, spanEnds>>
    ELSE /\ EndSpan(Min(spans))
         /\ flows' = [flows EXCEPT ![f] =
              [flow EXCEPT !.at = "ending", !.ending = t, !.back = back,
                           !.spans = spans \ {Min(spans)}]]
         /\ UNCHANGED <<activeTraces, traceEnds>>

\* endTrace: nothing when the trace is gone, else what is open in it is ended first.
EndTrace(f, flow, t, back) ==
  IF t \in activeTraces
    THEN EndOn(f, flow, t, {s \in activeSpans : traceOf[s] = t}, back)
    ELSE /\ flows' = [flows EXCEPT ![f] = [flow EXCEPT !.at = back]]
         /\ UNCHANGED <<activeTraces, activeSpans, traceEnds, spanEnds>>

Ending(f) ==
  /\ At(f, "ending")
  /\ EndOn(f, flows[f], flows[f].ending, flows[f].spans, flows[f].back)
  /\ UNCHANGED <<closed, created, traceOf, dropped, now, meddled, stopping>>

-----------------------------------------------------------------------------
\* trace: the stale traces are listed.
Trace(f) ==
  /\ Free(f) /\ ~closed /\ NextTrace \in Traces
  /\ flows' = [flows EXCEPT ![f] = [@ EXCEPT !.at = "prune",
       !.todo = {t \in activeTraces : created[t] < now - StaleTraceTtlMs}]]
  /\ UNCHANGED <<records, now, history>>

Meddle(f, t, back) ==
  /\ EndTrace(f, [flows[f] EXCEPT !.todo = @ \ {t}], t, back)
  /\ meddled' = meddled \cup {t}
  /\ UNCHANGED <<closed, created, traceOf, dropped, now, stopping>>

Goto(f, where) == flows' = [flows EXCEPT ![f].at = where]

\* pruneActiveTraces, one stale trace after the other.
Prune(f) ==
  /\ At(f, "prune")
  /\ \/ /\ flows[f].todo # {}
        /\ Meddle(f, Min(flows[f].todo), "prune")
     \/ /\ flows[f].todo = {}
        /\ Goto(f, "limit")
        /\ UNCHANGED <<records, now, history>>

\* enforceActiveTraceLimit: the oldest trace makes room.
Limit(f) ==
  /\ At(f, "limit")
  /\ \/ /\ Cardinality(activeTraces) >= MaxActiveTraces
        /\ Meddle(f, Min(activeTraces), "limit")
     \/ /\ Cardinality(activeTraces) < MaxActiveTraces
        /\ Goto(f, "begin")
        /\ UNCHANGED <<records, now, history>>

\* The sampler decides, and the trace is in the map if it is recorded.
Begin(f) ==
  /\ At(f, "begin") /\ NextTrace \in Traces
  /\ \E decision \in ShouldSample(f) :
       /\ flows' = [flows EXCEPT ![f] = Opened(@,
            [kind |-> "trace", trace |-> NextTrace, span |-> None,
             sampled |-> Sampled(decision)])]
       /\ created' = [created EXCEPT ![NextTrace] = now]
       /\ IF Recorded(decision)
            THEN activeTraces' = activeTraces \cup {NextTrace} /\ UNCHANGED dropped
            ELSE /\ dropped' = [dropped EXCEPT !.traces = @ \cup {NextTrace}]
                 /\ UNCHANGED activeTraces
  /\ UNCHANGED <<activeSpans, closed, traceOf, now, history>>

\* The body of a trace is over, and trace waits for endTrace.
EndOwnTrace(f) ==
  /\ At(f, "body") /\ Current(f).kind = "trace"
  /\ EndTrace(f, flows[f], Current(f).trace, "leave")
  /\ UNCHANGED <<closed, created, traceOf, dropped, now, meddled, stopping>>

LeaveTrace(f) ==
  /\ At(f, "leave")
  /\ flows' = [flows EXCEPT ![f] = Left(@)]
  /\ UNCHANGED <<records, now, history>>

\* span in the context of a trace or of another span.
StartSpan(f) ==
  /\ At(f, "body") /\ ~closed /\ NextSpan \in Spans
  /\ \E decision \in ShouldSample(f) :
       /\ flows' = [flows EXCEPT ![f] = Opened(@, [kind |-> "span", trace |-> Current(f).trace,
            span |-> NextSpan, sampled |-> Sampled(decision)])]
       /\ traceOf' = [traceOf EXCEPT ![NextSpan] = Current(f).trace]
       /\ IF Recorded(decision)
            THEN activeSpans' = activeSpans \cup {NextSpan} /\ UNCHANGED dropped
            ELSE dropped' = [dropped EXCEPT !.spans = @ \cup {NextSpan}] /\ UNCHANGED activeSpans
  /\ UNCHANGED <<activeTraces, closed, created, now, history>>

\* Its body has returned or thrown.
EndOwnSpan(f) ==
  /\ At(f, "body") /\ Current(f).kind = "span"
  /\ EndSpan(Current(f).span)
  /\ flows' = [flows EXCEPT ![f] = Left(@)]
  /\ UNCHANGED <<activeTraces, closed, created, traceOf, dropped, now, traceEnds, meddled,
                 stopping>>

\* The body starts something that it does not wait for, or not at once.
Spawn(f, g) ==
  /\ At(f, "body") /\ At(g, "idle")
  /\ flows' = [flows EXCEPT ![g] = Opened(@, [Current(f) EXCEPT !.kind = "inherited"])]
  /\ UNCHANGED <<records, now, history>>

Finish(f) ==
  /\ At(f, "body") /\ Current(f).kind = "inherited"
  /\ flows' = [flows EXCEPT ![f] = [Quiet EXCEPT !.at = "over"]]
  /\ UNCHANGED <<records, now, history>>

-----------------------------------------------------------------------------
\* shutdown: every active trace is ended, and only then is the tracer closed.
Shutdown(f) ==
  /\ Free(f) /\ ~closed
  /\ stopping' = TRUE
  /\ flows' = [flows EXCEPT ![f] = [@ EXCEPT !.at = "stop", !.todo = activeTraces]]
  /\ UNCHANGED <<records, now, traceEnds, spanEnds, meddled>>

Stop(f) ==
  /\ At(f, "stop")
  /\ \/ /\ flows[f].todo # {}
        /\ Meddle(f, Min(flows[f].todo), "stop")
     \/ /\ flows[f].todo = {}
        /\ Goto(f, "flush")
        /\ UNCHANGED <<records, now, history>>

\* The exporters have answered: clear, closed.
Close(f) ==
  /\ At(f, "flush")
  /\ activeTraces' = {} /\ activeSpans' = {} /\ closed' = TRUE
  /\ flows' = [flows EXCEPT ![f] = Resumed(@)]
  /\ UNCHANGED <<created, traceOf, dropped, now, history>>

Tick ==
  /\ \E reading \in Readings : reading > now /\ now' = reading
  /\ UNCHANGED <<records, flows, history>>

Next ==
  \/ \E f \in Flows :
       \/ Trace(f) \/ Prune(f) \/ Limit(f) \/ Begin(f) \/ Ending(f)
       \/ EndOwnTrace(f) \/ LeaveTrace(f) \/ StartSpan(f) \/ EndOwnSpan(f) \/ Finish(f)
       \/ Shutdown(f) \/ Stop(f) \/ Close(f)
       \/ \E g \in Flows : Spawn(f, g)
  \/ Tick

Spec == Init /\ [][Next]_tracerVars

-----------------------------------------------------------------------------
\* The recorded traces and spans that some flow has still to end.
OpenTraces == {t \in Traces : \E f \in Flows : \E i \in DOMAIN flows[f].stack :
                 flows[f].stack[i].kind = "trace" /\ flows[f].stack[i].trace = t}
OpenSpans == {s \in Spans : \E f \in Flows : \E i \in DOMAIN flows[f].stack :
                 flows[f].stack[i].kind = "span" /\ flows[f].stack[i].span = s}

(***************************************************************************)
(* Exporters hear of the end of a span once at most, although its own flow *)
(* and every endTrace of its trace may try.  Up to shutdown a recorded     *)
(* trace or span that its flow has left has been ended, and is not in the  *)
(* maps any more: nothing leaks.  The end of a trace that no other flow    *)
(* has taken for stale or too many is told once, when its own flow leaves  *)
(* it and not before.                                                      *)
(***************************************************************************)
TracesWhole ==
  /\ \A s \in Spans : /\ spanEnds[s] + (IF s \in activeSpans THEN 1 ELSE 0) <= 1
                        /\ s \in dropped.spans => spanEnds[s] = 0
  /\ ~stopping =>
       /\ \A s \in Spans : traceOf[s] # None /\ s \notin OpenSpans \cup dropped.spans
            => spanEnds[s] = 1
       /\ \A t \in Traces : created[t] # None /\ t \notin OpenTraces \cup dropped.traces
            => traceEnds[t] >= 1
       /\ activeSpans \subseteq OpenSpans /\ activeTraces \subseteq OpenTraces
  /\ \A t \in Traces \ meddled :
       /\ traceEnds[t] <= 1
       /\ traceEnds[t] = 1 =>
            t \notin OpenTraces \/ \E f \in Flows : At(f, "leave") /\ Current(f).trace = t
=============================================================================
