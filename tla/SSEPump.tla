------------------------------ MODULE SSEPump ------------------------------
(***************************************************************************)
(* The body of a streamed opencode answer.  Three goroutines: a reader     *)
(* copies what upstream sends into the raw channel, the pump cuts it into  *)
(* events and forwards them into the out channel, and the consumer (the    *)
(* HTTP server's copy loop) Reads from out until EOF, or until its client  *)
(* has gone, and Closes.  The pump also ends the stream: when upstream     *)
(* ends, fails, reports an error or shows nothing new for idleGap, it adds *)
(* a tool call that asks the client to go on - unless the answer was       *)
(* already finished - and a [DONE] if there was none.                      *)
(*                                                                         *)
(* Event n is the n-th event upstream sent; what upstream sends is chosen  *)
(* when it is read.  A read that completes no event is left out: it is     *)
(* only one more moment at which the pump may find the stream idle.  Time  *)
(* is abstracted away: a gap may have passed whenever the pump looks, since*)
(* a slow client can hold a send up for as long.                           *)
(***************************************************************************)
EXTENDS Naturals, Sequences

CONSTANTS
  RawCap, OutCap,   \* capacities of the channels (32 and 64)
  MaxEvents         \* bound: events upstream sends

ASSUME CapAssumption == RawCap \in Nat \ {0} /\ OutCap \in Nat \ {0}
ASSUME EventsAssumption == MaxEvents \in Nat

VARIABLES
  upstream,    \* kinds of the events read so far, in order
  reader, held,         \* reader goroutine: step, item it offers
  raw,
  pump, acc,            \* pump goroutine: step, events not yet handled
  finished, doneSent, injected,
  sent,        \* everything put into out, in order
  taken,       \* how much of it the consumer has taken
  consumer

readerVars == <<upstream, reader, held>>
flagVars   == <<finished, doneSent, injected>>
vars == <<readerVars, raw, pump, acc, flagVars, sent, taken, consumer>>

Events == 1 .. MaxEvents
\* "other" is an event without content, "comment" is not a real SSE event.
EventKind == {"content", "finish", "done", "error", "other", "comment"}
\* What travels in raw: events, or the end of the stream.
Data(evs) == [kind |-> "data", evs |-> evs]
End(kind) == [kind |-> kind, evs |-> <<>>]
Item == [kind : {"data", "eof", "err"}, evs : Seq(Events)]
\* What travels in out: an event, the injected events, a [DONE] or EOF.
Forward(n) == [what |-> "event", n |-> n]
Inject == [what |-> "inject", n |-> 0]
Done == [what |-> "done", n |-> 0]
EOF == [what |-> "eof", n |-> 0]
Sent == [what : {"event", "inject", "done", "eof"}, n : 0 .. MaxEvents]

PumpStep == {"pre", "first", "events", "forward", "select", "errorInject", "inject",
             "mark", "eof", "exited", "broke"}

Closed == consumer = "closed"      \* b.done is closed, and so is upstream
----------------------------------------------------------------------------
(* The reader goroutine of pump.                                            *)

\* upstream.Read returns the bytes of one or two events.
ReadEvents ==
  /\ reader = "read" /\ ~Closed
  /\ \E kinds \in {<<k>> : k \in EventKind} \cup (EventKind \X EventKind) :
       LET n == Len(upstream) IN
       /\ n + Len(kinds) <= MaxEvents
       /\ upstream' = upstream \o kinds
       /\ held' = Data([i \in 1 .. Len(kinds) |-> n + i])
  /\ reader' = "offer"
  /\ UNCHANGED <<raw, pump, acc, flagVars, sent, taken, consumer>>

ReadEnds ==
  /\ reader = "read" /\ ~Closed
  /\ \E kind \in {"eof", "err"} : held' = End(kind)
  /\ reader' = "offer"
  /\ UNCHANGED <<upstream, raw, pump, acc, flagVars, sent, taken, consumer>>

\* Once upstream is closed a Read fails.
ReadClosed ==
  /\ reader = "read" /\ Closed
  /\ held' = End("err")
  /\ reader' = "offer"
  /\ UNCHANGED <<upstream, raw, pump, acc, flagVars, sent, taken, consumer>>

Offer ==
  /\ reader = "offer"
  /\ Len(raw) < RawCap
  /\ raw' = Append(raw, held)
  /\ reader' = IF held.kind = "data" THEN "read" ELSE "exited"
  /\ UNCHANGED <<upstream, held, pump, acc, flagVars, sent, taken, consumer>>

\* Mutant: a plain send, which Close does not end.
OfferPlain ==
  /\ reader = "offer" /\ Closed /\ Len(raw) < RawCap
  /\ reader' = "exited"
  /\ UNCHANGED <<upstream, held, raw, pump, acc, flagVars, sent, taken, consumer>>

OfferCancelled ==
  /\ reader = "offer" /\ Closed
  /\ reader' = "exited"
  /\ UNCHANGED <<upstream, held, raw, pump, acc, flagVars, sent, taken, consumer>>
----------------------------------------------------------------------------
(* pump and preRead.                                                        *)

IsReal(n) == upstream[n] # "comment"
NotByPump == UNCHANGED <<readerVars, taken, consumer>>

\* Mutant: out is a buffer without a bound.
SendUnbounded(item, next, giveUp) ==
  \/ sent' = Append(sent, item) /\ pump' = next
  \/ Closed /\ pump' = giveUp /\ UNCHANGED sent

\* send: into out, or given up because the body was closed.
Send(item, next, giveUp) ==
  \/ /\ Len(sent) - taken < OutCap
     /\ sent' = Append(sent, item)
     /\ pump' = next
  \/ /\ Closed
     /\ pump' = giveUp
     /\ UNCHANGED sent

\* preRead gathers chunks until the first event in the buffer is a real one.
PreReadData ==
  /\ pump = "pre"
  /\ raw # <<>> /\ Head(raw).kind = "data"
  /\ raw' = Tail(raw)
  /\ acc' = acc \o Head(raw).evs
  /\ pump' = IF IsReal(Head(acc')) THEN "first" ELSE "pre"
  /\ NotByPump /\ UNCHANGED <<flagVars, sent>>

\* Upstream ends or fails, nothing comes for firstChunkGap, or Close.
PreReadFails ==
  /\ pump = "pre"
  /\ \/ raw # <<>> /\ Head(raw).kind # "data" /\ raw' = Tail(raw)
     \/ UNCHANGED raw
  /\ pump' = "mark"
  /\ NotByPump /\ UNCHANGED <<acc, flagVars, sent>>

\* What an event says about the answer.
Note(n) ==
  /\ finished' = (finished \/ upstream[n] \in {"finish", "done"})
  /\ doneSent' = (doneSent \/ upstream[n] = "done")
  /\ UNCHANGED injected

\* The first event is forwarded whatever it is.
SendFirst ==
  /\ pump = "first"
  /\ Send(Forward(Head(acc)), "events", "exited")
  /\ IF pump' = "events" THEN Note(Head(acc)) /\ acc' = Tail(acc)
                         ELSE UNCHANGED <<acc, flagVars>>
  /\ NotByPump /\ UNCHANGED raw

Drained ==
  /\ pump = "events" /\ acc = <<>>
  /\ pump' = "select"
  /\ NotByPump /\ UNCHANGED <<raw, acc, flagVars, sent>>

\* Mutant: any error event ends the stream with an injection.
ErrorAlwaysBreaks == TRUE

\* Whether an error event ends the stream, or is dropped.
ErrorBreaks == ~finished /\ ~injected

Skip ==
  /\ pump = "events" /\ acc # <<>>
  /\ ~IsReal(Head(acc)) \/ (upstream[Head(acc)] = "error" /\ ~ErrorBreaks)
  /\ acc' = Tail(acc)
  /\ NotByPump /\ UNCHANGED <<raw, pump, flagVars, sent>>

ErrorEvent ==
  /\ pump = "events" /\ acc # <<>>
  /\ upstream[Head(acc)] = "error" /\ ErrorBreaks
  /\ pump' = "errorInject"
  /\ NotByPump /\ UNCHANGED <<raw, acc, flagVars, sent>>

Inspect ==
  /\ pump = "events" /\ acc # <<>>
  /\ upstream[Head(acc)] \notin {"comment", "error"}
  /\ Note(Head(acc))
  /\ pump' = "forward"
  /\ NotByPump /\ UNCHANGED <<raw, acc, sent>>

\* Mutant: a full out channel loses the event.
ForwardEventOrDrop ==
  /\ pump = "forward"
  /\ sent' = IF Len(sent) - taken < OutCap THEN Append(sent, Forward(Head(acc))) ELSE sent
  /\ acc' = Tail(acc)
  /\ pump' = "events"
  /\ NotByPump /\ UNCHANGED <<raw, flagVars>>

ForwardEvent ==
  /\ pump = "forward"
  /\ Send(Forward(Head(acc)), "events", "exited")
  /\ acc' = Tail(acc)
  /\ NotByPump /\ UNCHANGED <<raw, flagVars>>

\* The break leaves the loop without an EOF.
ErrorInject ==
  /\ pump = "errorInject"
  /\ Send(Inject, "broke", "exited")
  /\ IF pump' = "broke" THEN injected' = TRUE /\ doneSent' = TRUE
                        ELSE UNCHANGED <<injected, doneSent>>
  /\ NotByPump /\ UNCHANGED <<raw, acc, finished>>

TakeRaw ==
  /\ pump = "select"
  /\ raw # <<>> /\ Head(raw).kind = "data"
  /\ raw' = Tail(raw)
  /\ acc' = acc \o Head(raw).evs
  /\ pump' = "events"
  /\ NotByPump /\ UNCHANGED <<flagVars, sent>>

\* Upstream ended or failed; or nothing new came for idleGap, which the pump
\* sees by its timer or when other data comes, and drops.
Finish ==
  /\ pump = "select"
  /\ \/ raw # <<>> /\ raw' = Tail(raw)
     \/ UNCHANGED raw
  /\ pump' = IF ~finished /\ ~injected THEN "inject" ELSE "mark"
  /\ NotByPump /\ UNCHANGED <<acc, flagVars, sent>>

Cancelled ==
  /\ pump = "select" /\ Closed
  /\ pump' = "exited"
  /\ NotByPump /\ UNCHANGED <<raw, acc, flagVars, sent>>

\* Mutant: the injection is not remembered to end with a [DONE].
IdleInjectForgets ==
  /\ pump = "inject"
  /\ Send(Inject, "mark", "exited")
  /\ injected' = (injected \/ pump' = "mark")
  /\ NotByPump /\ UNCHANGED <<raw, acc, finished, doneSent>>

\* The injected chunk holds a tool call, its finish and a [DONE].
IdleInject ==
  /\ pump = "inject"
  /\ Send(Inject, "mark", "exited")
  /\ IF pump' = "mark" THEN injected' = TRUE /\ doneSent' = TRUE
                       ELSE UNCHANGED <<injected, doneSent>>
  /\ NotByPump /\ UNCHANGED <<raw, acc, finished>>

\* Mutant: a [DONE] is taken for the end of the stream.
MarkEnds ==
  /\ pump = "mark"
  /\ IF doneSent THEN pump' = "exited" /\ UNCHANGED sent ELSE Send(Done, "eof", "eof")
  /\ NotByPump /\ UNCHANGED <<raw, acc, flagVars>>

\* A [DONE] unless there was one; a failure to send it is ignored.
Mark ==
  /\ pump = "mark"
  /\ IF doneSent THEN pump' = "eof" /\ UNCHANGED sent ELSE Send(Done, "eof", "eof")
  /\ NotByPump /\ UNCHANGED <<raw, acc, flagVars>>

SendEOF ==
  /\ pump = "eof"
  /\ Send(EOF, "exited", "exited")
  /\ NotByPump /\ UNCHANGED <<raw, acc, flagVars>>
----------------------------------------------------------------------------
(* Read and Close, called by the copy loop.                                 *)

NotByConsumer == UNCHANGED <<readerVars, raw, pump, acc, flagVars, sent>>

Read ==
  /\ consumer = "read"
  /\ taken < Len(sent)
  /\ taken' = taken + 1
  /\ consumer' = IF sent[taken + 1] = EOF THEN "close" ELSE "write"
  /\ NotByConsumer

\* The write returns: the client has read enough for it.
Write ==
  /\ consumer = "write"
  /\ consumer' = "read"
  /\ NotByConsumer /\ UNCHANGED taken

\* The client has gone.
WriteFails ==
  /\ consumer = "write"
  /\ consumer' = "close"
  /\ NotByConsumer /\ UNCHANGED taken

Close ==
  /\ consumer = "close"
  /\ consumer' = "closed"
  /\ NotByConsumer /\ UNCHANGED taken
----------------------------------------------------------------------------
Init ==
  /\ upstream = <<>> /\ reader = "read" /\ held = Data(<<>>)
  /\ raw = <<>>
  /\ pump = "pre" /\ acc = <<>>
  /\ finished = FALSE /\ doneSent = FALSE /\ injected = FALSE
  /\ sent = <<>> /\ taken = 0
  /\ consumer = "read"

ReaderStep == ReadClosed \/ Offer \/ OfferCancelled

PumpMoves ==
  \/ PreReadData \/ PreReadFails \/ SendFirst \/ Drained \/ Skip \/ ErrorEvent \/ Inspect
  \/ ForwardEvent \/ ErrorInject \/ TakeRaw \/ Finish \/ Cancelled \/ IdleInject
  \/ Mark \/ SendEOF

ConsumerStep == Read \/ Write \/ WriteFails \/ Close

Next == ReadEvents \/ ReadEnds \/ ReaderStep \/ PumpMoves \/ ConsumerStep

Spec == Init /\ [][Next]_vars

(* Goroutines that can run do run.  Upstream may stall for ever, and so may *)
(* the client: the server sets no write timeout, so no write has to return. *)
FairSpec == Spec /\ WF_vars(ReaderStep) /\ WF_vars(PumpMoves) /\ WF_vars(Read \/ Close)
----------------------------------------------------------------------------
(* Properties.                                                              *)

TypeOK ==
  /\ upstream \in Seq(EventKind) /\ Len(upstream) <= MaxEvents
  /\ reader \in {"read", "offer", "exited"} /\ held \in Item
  /\ raw \in Seq(Item) /\ Len(raw) <= RawCap
  /\ pump \in PumpStep
  /\ acc \in Seq(Events)
  /\ finished \in BOOLEAN /\ doneSent \in BOOLEAN /\ injected \in BOOLEAN
  /\ sent \in Seq(Sent)
  /\ taken \in 0 .. Len(sent) /\ Len(sent) - taken <= OutCap
  /\ consumer \in {"read", "write", "close", "closed"}

Position == 1 .. Len(sent)
IsEvent(i) == sent[i].what = "event"

(* The client sees upstream's events in upstream's order, and every real    *)
(* event before one it sees, save error events reported after the finish,   *)
(* however reads split them and however slowly the client takes them.       *)
NothingSkipped ==
  \A i \in Position :
    IsEvent(i) =>
      /\ \A j \in 1 .. i - 1 : IsEvent(j) /\ sent[j].n < sent[i].n
      /\ \A n \in 1 .. sent[i].n - 1 :
           upstream[n] \in {"comment", "error"} \/ \E j \in 1 .. i - 1 : sent[j].n = n

(* A finished answer is never asked to go on: after an event with a finish  *)
(* reason or upstream's own [DONE] no tool call is injected.                *)
NoInjectionAfterFinish ==
  \A i, j \in Position :
    IsEvent(i) /\ upstream[sent[i].n] \in {"finish", "done"} => sent[j] # Inject

(* What a client that stays is sent is well terminated: there is a [DONE]   *)
(* (upstream's, the injected one or the pump's own) before EOF, the pump    *)
(* adds one at most and none to upstream's, and only EOF follows it.        *)
UpstreamDone(i) == IsEvent(i) /\ upstream[sent[i].n] = "done"
WellTerminated ==
  \A i \in 1 .. taken :
    /\ sent[i] = EOF =>
         \E j \in 1 .. i - 1 : sent[j] \in {Inject, Done} \/ UpstreamDone(j)
    /\ sent[i] \in {Inject, Done} =>
         \A j \in Position : /\ j < i => IsEvent(j) /\ ~UpstreamDone(j)
                             /\ j > i => sent[j] = EOF

\* The client keeps its connection and never reads on.
ClientStalls == <>[](consumer = "write")

(* Whatever upstream does the stream ends, unless the pump broke off after  *)
(* an error event, or the client itself holds the stream up for good.       *)
StreamEndsOrBreaks == <>(consumer = "closed" \/ pump = "broke") \/ ClientStalls

(* Close ends both goroutines, wherever they are blocked.                   *)
CloseEndsAll ==
  (consumer = "closed") ~> (reader = "exited" /\ pump \in {"exited", "broke"})

(* The injected tool call ends the stream: "keepalive termination missing"  *)
(* (opencode_test.go:393).  Every stream ends, and its client, if it reads  *)
(* what it is sent, is told so.                                             *)
EveryStreamEnds == <>(consumer = "closed") \/ ClientStalls
=============================================================================
