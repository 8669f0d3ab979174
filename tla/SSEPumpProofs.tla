--------------------------- MODULE SSEPumpProofs ---------------------------
(***************************************************************************)
(* What one opencode stream guarantees for channels of any capacity and as *)
(* many events as upstream sends.  The argument follows the events: those  *)
(* the pump has dealt with, those in its buffer, those in the raw channel  *)
(* and those the reader holds are consecutive, until the pump begins to end*)
(* the stream; from then on it sends nothing but its own endings.          *)
(***************************************************************************)
EXTENDS SSEPump, Integers, SequenceTheorems, TLAPS

\* The pump still forwards what upstream sends.
Active == pump \in {"pre", "first", "events", "forward", "select", "errorInject"}
\* A chunk of consecutive events that upstream has sent.
Run(evs) ==
  /\ evs # <<>>
  /\ \A i \in 1 .. Len(evs) : evs[i] = evs[1] + i - 1 /\ evs[i] \in 1 .. Len(upstream)
After(item) == item.evs[1] + Len(item.evs)

\* Everything up to event h has been forwarded or may be missing, nothing
\* beyond it has been sent, and the buffer goes on with h + 1.
Handled(h) ==
  /\ \A i \in Position : sent[i].n <= h
  /\ \A n \in 1 .. h : upstream[n] \in {"comment", "error"} \/ \E j \in Position : sent[j].n = n
  /\ \A i \in 1 .. Len(acc) : acc[i] = h + i /\ acc[i] \in 1 .. Len(upstream)

\* The raw channel and the reader go on where the buffer ends, event h + Len(acc).
Queued(h) ==
  LET next == IF raw = <<>> THEN h + Len(acc) + 1 ELSE After(raw[Len(raw)]) IN
  /\ raw # <<>> /\ raw[1].kind = "data" => raw[1].evs[1] = h + Len(acc) + 1
  /\ \A j \in 1 .. Len(raw) - 1 :
       raw[j + 1].kind = "data" => raw[j + 1].evs[1] = After(raw[j])
  /\ reader = "read" => next = Len(upstream) + 1
  /\ reader = "offer" /\ held.kind = "data" =>
       held.evs[1] = next /\ After(held) = Len(upstream) + 1

ChainInv == Active => \E h \in 0 .. Len(upstream) : Handled(h) /\ Queued(h)

\* Chunks are runs, and the end of upstream is the last that is offered.
ItemInv ==
  /\ \A j \in 1 .. Len(raw) : raw[j].kind = "data" => Run(raw[j].evs)
  /\ reader # "exited" => \A j \in 1 .. Len(raw) : raw[j].kind = "data"
  /\ \A j \in 1 .. Len(raw) - 1 : raw[j].kind = "data"
  /\ reader = "offer" /\ held.kind = "data" => Run(held.evs)
  /\ pump \in {"first", "forward", "errorInject"} => acc # <<>>

\* Only events while the pump forwards, and all of them known.
SentInv ==
  /\ Active \/ pump = "inject" => \A i \in Position : IsEvent(i)
  /\ \A i \in Position : IsEvent(i) => sent[i].n \in 1 .. Len(upstream)
  /\ \A i \in Position : IsEvent(i) \/ sent[i] \in {Inject, Done, EOF}

Says(i, kinds) == IsEvent(i) /\ upstream[sent[i].n] \in kinds
\* The flags know of what was forwarded; an injection meets no finish.
FlagInv ==
  /\ (\E i \in Position : Says(i, {"finish", "done"})) => finished
  /\ (\E i \in Position : Says(i, {"done"})) => doneSent
  /\ pump \in {"inject", "errorInject"} => ~finished
  /\ pump = "forward" =>
       /\ upstream[acc[1]] \in {"finish", "done"} => finished
       /\ upstream[acc[1]] = "done" => doneSent
  /\ (\E i \in Position : sent[i] = Inject) => ~finished /\ doneSent

Terminated(i) == sent[i] \in {Inject, Done} \/ UpstreamDone(i)
\* How the stream ends: what may be behind an ending, and what is before EOF.
EndingInv ==
  /\ \A i \in Position :
       sent[i] \in {Inject, Done} =>
         /\ ~Active /\ pump # "inject" /\ (sent[i] = Done => pump # "mark")
         /\ \A j \in Position : /\ j < i => IsEvent(j) /\ ~UpstreamDone(j)
                                /\ j > i => sent[j] = EOF
  /\ \A i \in Position : sent[i] = EOF => pump = "exited" /\ i = Len(sent)
  /\ doneSent => \/ pump \in {"forward", "exited"}
                 \/ \E j \in Position : Terminated(j)
  /\ doneSent /\ pump = "forward" =>
       upstream[acc[1]] = "done" \/ \E j \in Position : Terminated(j)
  /\ pump = "eof" /\ ~Closed => \E j \in Position : Terminated(j)
  /\ \A i \in Position :
       sent[i] = EOF /\ (~Closed \/ i <= taken) => \E j \in 1 .. i - 1 : Terminated(j)

IInv ==
  TypeOK /\ NothingSkipped /\ ChainInv /\ ItemInv /\ SentInv /\ FlagInv /\ EndingInv
----------------------------------------------------------------------------
USE CapAssumption, EventsAssumption

\* Lengths and numbers are natural numbers.
LEMMA PumpNumbers ==
  ASSUME TypeOK
  PROVE  /\ Len(upstream) \in Nat /\ Len(raw) \in Nat /\ Len(acc) \in Nat /\ Len(sent) \in Nat
         /\ \A i \in Position : sent[i] \in Sent /\ sent[i].n \in Nat
         /\ \A j \in 1 .. Len(raw) : raw[j] \in Item
<1>1. \A i \in Position : sent[i] \in Sent
  BY ElementOfSeq DEF TypeOK, Position
<1>2. \A j \in 1 .. Len(raw) : raw[j] \in Item
  BY ElementOfSeq DEF TypeOK
<1> QED
  BY <1>1, <1>2 DEF TypeOK, Sent

\* Taking the first item out of the raw channel moves the others up.
LEMMA RawTail ==
  ASSUME TypeOK, raw # <<>>
  PROVE  /\ Head(raw) \in Item /\ Head(raw) = raw[1]
         /\ Tail(raw) \in Seq(Item) /\ Len(Tail(raw)) = Len(raw) - 1
         /\ \A j \in 1 .. Len(raw) - 1 : Tail(raw)[j] = raw[j + 1]
BY HeadTailProperties DEF TypeOK

\* What send does: the item goes behind all others, or the body was closed.
LEMMA SendCases ==
  ASSUME TypeOK, NEW x \in Sent, NEW next, NEW giveUp, Send(x, next, giveUp)
  PROVE  \/ /\ pump' = next /\ Len(sent) - taken < OutCap
            /\ sent' \in Seq(Sent) /\ Len(sent') = Len(sent) + 1
            /\ \A i \in 1 .. Len(sent) : sent'[i] = sent[i]
            /\ sent'[Len(sent) + 1] = x
         \/ pump' = giveUp /\ Closed /\ sent' = sent
<1>1. sent \in Seq(Sent)
  BY DEF TypeOK
<1>2. /\ Append(sent, x) \in Seq(Sent) /\ Len(Append(sent, x)) = Len(sent) + 1
      /\ \A i \in 1 .. Len(sent) : Append(sent, x)[i] = sent[i]
      /\ Append(sent, x)[Len(sent) + 1] = x
  BY <1>1, AppendProperties
<1> QED
  BY <1>2 DEF Send

\* The items that travel are items.
LEMMA ItemTypes ==
  /\ \A n \in Events : Forward(n) \in Sent
  /\ Inject \in Sent /\ Done \in Sent /\ EOF \in Sent
  /\ \A evs \in Seq(Events) : Data(evs) \in Item
  /\ End("eof") \in Item /\ End("err") \in Item
BY DEF Forward, Inject, Done, EOF, Sent, Data, End, Item, Events

\* A chunk or an event in the buffer is one of upstream's.
LEMMA HeadOfAcc ==
  ASSUME TypeOK, acc # <<>>
  PROVE  /\ Head(acc) \in Events /\ Head(acc) = acc[1]
         /\ Tail(acc) \in Seq(Events) /\ Len(Tail(acc)) = Len(acc) - 1
         /\ \A j \in 1 .. Len(acc) - 1 : Tail(acc)[j] = acc[j + 1]
BY HeadTailProperties DEF TypeOK
----------------------------------------------------------------------------
LEMMA InitPump == Init => IInv
<1> SUFFICES ASSUME Init PROVE IInv
  OBVIOUS
<1>1. TypeOK
  <2>1. <<>> \in Seq(EventKind) /\ <<>> \in Seq(Item) /\ <<>> \in Seq(Events) /\ <<>> \in Seq(Sent)
    OBVIOUS
  <2>2. held \in Item
    BY <2>1, ItemTypes DEF Init
  <2>3. Len(<<>>) = 0
    OBVIOUS
  <2>4. Len(raw) <= RawCap /\ Len(upstream) <= MaxEvents /\ taken \in 0 .. Len(sent)
        /\ Len(sent) - taken <= OutCap
    BY <2>3 DEF Init
  <2> QED
    BY <2>1, <2>2, <2>4 DEF Init, TypeOK, PumpStep
<1>2. ChainInv
  <2>1. Handled(0) /\ Queued(0)
    BY DEF Init, Handled, Queued, Position
  <2> QED
    BY <2>1, <1>1 DEF ChainInv, TypeOK
<1> QED
  BY <1>1, <1>2 DEF Init, IInv, NothingSkipped, ItemInv, SentInv, FlagInv, EndingInv,
     Position, Says, Terminated, Active

\* What does not touch upstream, what was sent and the flags, and neither starts
\* nor ends a phase, keeps what is said of them.
LEMMA SentKept ==
  ASSUME IInv, UNCHANGED <<upstream, flagVars, sent, taken, consumer>>,
         \/ pump' = pump /\ UNCHANGED acc
         \/ pump \in {"pre", "events", "select"} /\ pump' \in {"pre", "first", "events", "select"}
         \/ pump \in {"pre", "events", "select"} /\ pump' \in {"mark", "exited"} /\ (pump' = "mark" => ~Active')
         \/ pump \in {"events", "select"} /\ pump' \in {"inject", "errorInject"} /\ ~finished
  PROVE  NothingSkipped' /\ SentInv' /\ FlagInv' /\ EndingInv'
<1> USE DEF IInv, flagVars
<1>1. NothingSkipped'
  BY DEF NothingSkipped, Position, IsEvent
<1>2. SentInv'
  BY DEF SentInv, Position, IsEvent, Active
<1>3. FlagInv'
  BY DEF FlagInv, Position, IsEvent, Says
<1>4. EndingInv'
  BY DEF EndingInv, Position, IsEvent, Terminated, UpstreamDone, Closed, Active
<1> QED
  BY <1>1, <1>2, <1>3, <1>4

\* Kinds of reads: a chunk goes on after what upstream had sent before.
\* What the pump is about to forward is an event that upstream has sent.
LEMMA HeadKnown == IInv => (pump = "forward" => acc[1] \in 1 .. Len(upstream))
<1> SUFFICES ASSUME IInv, pump = "forward" PROVE acc[1] \in 1 .. Len(upstream)
  OBVIOUS
<1>1. PICK h \in 0 .. Len(upstream) : \A i \in 1 .. Len(acc) : acc[i] \in 1 .. Len(upstream)
  BY DEF IInv, ChainInv, Active, Handled
<1>2. acc # <<>> /\ acc \in Seq(Events)
  BY DEF IInv, ItemInv, TypeOK
<1>3. 1 \in 1 .. Len(acc)
  BY <1>2
<1> QED
  BY <1>1, <1>3

LEMMA StepRead == ASSUME IInv, ReadEvents PROVE IInv'
<1> USE DEF IInv
<1>1. PICK kinds \in {<<k>> : k \in EventKind} \cup (EventKind \X EventKind) :
        /\ Len(upstream) + Len(kinds) <= MaxEvents
        /\ upstream' = upstream \o kinds
        /\ held' = Data([i \in 1 .. Len(kinds) |-> Len(upstream) + i])
  BY DEF ReadEvents
<1> DEFINE L == Len(upstream)
<1> DEFINE evs == [i \in 1 .. Len(kinds) |-> L + i]
<1>2. kinds \in Seq(EventKind) /\ Len(kinds) \in {1, 2} /\ upstream \in Seq(EventKind) /\ L \in Nat
  <2>1. CASE kinds \in {<<k>> : k \in EventKind}
    <3>1. PICK k \in EventKind : kinds = <<k>>
      BY <2>1
    <3> QED
      BY <3>1 DEF TypeOK
  <2>2. CASE kinds \in EventKind \X EventKind
    <3>1. PICK a \in EventKind, b \in EventKind : kinds = <<a, b>>
      BY <2>2
    <3> QED
      BY <3>1 DEF TypeOK
  <2> QED
    BY <1>1, <2>1, <2>2
<1>3. /\ upstream' \in Seq(EventKind) /\ Len(upstream') = L + Len(kinds)
      /\ \A n \in 1 .. L : upstream'[n] = upstream[n]
  BY <1>1, <1>2, ConcatProperties
<1>4. evs \in Seq(Events) /\ Len(evs) = Len(kinds) /\ \A i \in 1 .. Len(kinds) : evs[i] = L + i
  BY <1>1, <1>2, <1>3 DEF Events
<1>5. UNCHANGED <<raw, pump, acc, flagVars, sent, taken, consumer>> /\ reader = "read" /\ reader' = "offer"
  BY DEF ReadEvents
<1>6. held'.kind = "data" /\ held'.evs = evs /\ held' \in Item
  BY <1>1, <1>4, ItemTypes DEF Data
<1> HIDE DEF evs
<1>7. TypeOK'
  BY <1>1, <1>3, <1>5, <1>6 DEF TypeOK, flagVars
<1>8. NothingSkipped'
  <2> SUFFICES ASSUME NEW i \in Position, IsEvent(i), NEW n \in 1 .. sent[i].n - 1
      PROVE upstream'[n] = upstream[n]
    BY <1>5 DEF NothingSkipped, Position, IsEvent
  <2>1. sent[i].n \in 1 .. L
    BY DEF SentInv
  <2> QED
    BY <1>2, <1>3, <2>1
<1>9. ChainInv'
  <2> SUFFICES ASSUME Active PROVE \E h \in 0 .. Len(upstream') : (Handled(h) /\ Queued(h))'
    BY <1>5 DEF ChainInv, Active
  <2>1. PICK h \in 0 .. L : Handled(h) /\ Queued(h)
    BY DEF ChainInv
  <2>2. Handled(h)'
    <3>1. \A i \in Position : sent[i].n <= h
      BY <2>1 DEF Handled
    <3>2. \A n \in 1 .. h : upstream'[n] = upstream[n]
      BY <1>2, <1>3
    <3>3. \A i \in 1 .. Len(acc) : acc[i] = h + i /\ acc[i] \in 1 .. Len(upstream')
      BY <1>2, <1>3, <2>1 DEF Handled
    <3> QED
      BY <1>5, <2>1, <3>1, <3>2, <3>3 DEF Handled, Position
  <2>3. Queued(h)'
    <3>1. After(held)' = L + 1 + Len(kinds) /\ held'.evs[1] = L + 1
      BY SMTT(30), <1>2, <1>4, <1>6 DEF After
    <3> QED
      BY <1>2, <1>3, <1>5, <1>6, <2>1, <3>1 DEF Queued, After
  <2> QED
    BY <1>2, <1>3, <2>2, <2>3
<1>10. ItemInv'
  <2>1. Run(held.evs)'
    <3>1. evs # <<>> /\ evs[1] = L + 1
      BY <1>2, <1>4
    <3>2. \A i \in 1 .. Len(evs) : evs[i] = evs[1] + i - 1 /\ evs[i] \in 1 .. Len(upstream')
      BY <1>2, <1>3, <1>4, <3>1
    <3> QED
      BY <1>6, <3>1, <3>2 DEF Run
  <2>2. ASSUME NEW evs0 \in Seq(Events), Run(evs0) PROVE Run(evs0)'
    BY <1>2, <1>3, <2>2 DEF Run
  <2>3. \A j \in 1 .. Len(raw) : raw[j].evs \in Seq(Events)
    <3>1. \A j \in 1 .. Len(raw) : raw[j] \in Item
      BY ElementOfSeq DEF TypeOK
    <3> QED
      BY <3>1 DEF Item
  <2> QED
    BY <1>5, <2>1, <2>2, <2>3 DEF ItemInv
<1>11. SentInv'
  BY <1>2, <1>3, <1>5 DEF SentInv, Position, IsEvent, Active
<1>12. FlagInv'
  <2>1. \A i \in Position : IsEvent(i) => upstream'[sent[i].n] = upstream[sent[i].n]
    BY <1>3 DEF SentInv
  <2>2. pump = "forward" => upstream'[acc[1]] = upstream[acc[1]]
    BY <1>3, HeadKnown
  <2> QED
    BY <1>5, <2>1, <2>2 DEF FlagInv, Position, IsEvent, Says, flagVars
<1>13. EndingInv'
  <2>1. \A i \in Position : Terminated(i)' <=> Terminated(i)
    BY <1>2, <1>3, <1>5 DEF Terminated, UpstreamDone, IsEvent, SentInv
  <2>2. \A i \in Position : UpstreamDone(i)' <=> UpstreamDone(i)
    BY <1>2, <1>3, <1>5 DEF UpstreamDone, IsEvent, SentInv
  <2>3. pump = "forward" => upstream'[acc[1]] = upstream[acc[1]]
    BY <1>3, HeadKnown
  <2> QED
    BY <1>5, <2>1, <2>2, <2>3 DEF EndingInv, Position, IsEvent, Closed, Active, flagVars
<1> QED
  BY <1>7, <1>8, <1>9, <1>10, <1>11, <1>12, <1>13

LEMMA StepReader ==
  ASSUME IInv, ReadEnds \/ ReadClosed \/ Offer \/ OfferCancelled PROVE IInv'
<1> USE DEF IInv
<1>1. UNCHANGED <<upstream, pump, acc, flagVars, sent, taken, consumer>>
  BY DEF ReadEnds, ReadClosed, Offer, OfferCancelled
<1>2. NothingSkipped' /\ SentInv' /\ FlagInv' /\ EndingInv'
  BY <1>1, SentKept
<1>3. CASE ReadEnds \/ ReadClosed
  <2>1. reader = "read" /\ reader' = "offer" /\ raw' = raw /\ held' \in {End("eof"), End("err")}
    BY <1>3 DEF ReadEnds, ReadClosed
  <2>2. held'.kind # "data" /\ held' \in Item
    BY <2>1, ItemTypes DEF End
  <2>3. TypeOK' /\ ItemInv' /\ ChainInv'
    BY <1>1, <2>1, <2>2 DEF TypeOK, flagVars, ItemInv, Run, ChainInv, Active, Handled, Queued, Position, After
  <2> QED
    BY <1>2, <2>3
<1>4. CASE Offer
  <2>1. /\ reader = "offer" /\ held' = held
        /\ raw' = Append(raw, held) /\ Len(raw) < RawCap
        /\ reader' = IF held.kind = "data" THEN "read" ELSE "exited"
    BY <1>4 DEF Offer
  <2>2. /\ raw' \in Seq(Item) /\ Len(raw') = Len(raw) + 1 /\ raw'[Len(raw) + 1] = held
        /\ \A j \in 1 .. Len(raw) : raw'[j] = raw[j]
    BY <2>1, AppendProperties DEF TypeOK
  <2>3. TypeOK'
    BY <1>1, <2>1, <2>2 DEF TypeOK, flagVars
  <2>4. ItemInv'
    BY <1>1, <2>1, <2>2 DEF TypeOK, ItemInv, Run
  <2>5. ASSUME NEW h \in 0 .. Len(upstream), Handled(h), Queued(h) PROVE (Handled(h) /\ Queued(h))'
    <3>1. Handled(h)'
      BY <1>1, <2>5 DEF Handled, Position
    <3>2. Queued(h)'
      <4>1. CASE raw = <<>>
        BY <1>1, <2>1, <2>2, <2>5, <4>1 DEF Queued, After
      <4>2. CASE raw # <<>>
        <5>1. /\ Len(raw) \in Nat \ {0} /\ raw' # <<>> /\ raw'[1] = raw[1]
              /\ raw'[Len(raw')] = held /\ raw'[Len(raw)] = raw[Len(raw)]
          BY SMTT(30), <2>2, <4>2 DEF TypeOK
        <5>2. ASSUME NEW j \in 1 .. Len(raw), raw'[j + 1].kind = "data"
              PROVE raw'[j + 1].evs[1] = After(raw'[j])
          BY <2>1, <2>2, <2>5, <4>2, <5>1, <5>2 DEF Queued, After, TypeOK
        <5> QED
          BY <1>1, <2>1, <2>2, <2>5, <4>2, <5>1, <5>2 DEF Queued, After
      <4> QED
        BY <4>1, <4>2
    <3> QED
      BY <3>1, <3>2
  <2>6. ChainInv'
    BY <1>1, <2>5 DEF ChainInv, Active
  <2> QED
    BY <1>2, <2>3, <2>4, <2>6
<1>5. CASE OfferCancelled
  <2>1. reader' = "exited" /\ held' = held /\ raw' = raw
    BY <1>5 DEF OfferCancelled
  <2>2. TypeOK'
    BY <1>1, <2>1 DEF TypeOK, flagVars
  <2>3. ItemInv'
    BY <1>1, <2>1 DEF ItemInv, Run
  <2>4. ASSUME NEW h \in 0 .. Len(upstream), Handled(h), Queued(h) PROVE (Handled(h) /\ Queued(h))'
    BY <1>1, <2>1, <2>4 DEF Handled, Queued, Position, After
  <2>5. ChainInv'
    BY <1>1, <2>4 DEF ChainInv, Active
  <2> QED
    BY <1>2, <2>2, <2>3, <2>5
<1> QED
  BY <1>3, <1>4, <1>5

LEMMA StepConsumer == ASSUME IInv, ConsumerStep PROVE IInv'
<1> USE DEF IInv, ConsumerStep, Read, Write, WriteFails, Close, NotByConsumer, readerVars, flagVars
<1>1. TypeOK'
  BY DEF TypeOK
<1>2. NothingSkipped' /\ SentInv' /\ FlagInv'
  BY DEF NothingSkipped, SentInv, FlagInv, Position, IsEvent, Says, Active
<1>3. ChainInv' /\ ItemInv'
  <2>1. UNCHANGED <<readerVars, raw, pump, acc, flagVars, sent>>
    OBVIOUS
  <2> QED
    BY <2>1 DEF ChainInv, ItemInv, Active, Handled, Queued, Position, After, Run
<1>4. EndingInv'
  <2>1. UNCHANGED <<readerVars, raw, pump, acc, flagVars, sent>>
    OBVIOUS
  <2>2. /\ Closed => Closed' /\ taken' = taken
        /\ taken' = taken + 1 => ~Closed
        /\ taken' \in {taken, taken + 1}
    BY DEF Closed
  <2>3. ASSUME NEW i \in Position, sent[i] = EOF, ~Closed' \/ i <= taken'
        PROVE \E j \in 1 .. i - 1 : Terminated(j)
    BY <2>1, <2>2, <2>3 DEF EndingInv, Closed, TypeOK, Position
  <2>4. pump = "eof" /\ ~Closed' => ~Closed
    BY <2>2
  <2>5. \A j \in Position : (Terminated(j)' <=> Terminated(j)) /\ (UpstreamDone(j)' <=> UpstreamDone(j))
    BY <2>1 DEF Terminated, UpstreamDone, IsEvent
  <2> QED
    BY <2>1, <2>3, <2>4, <2>5 DEF EndingInv, Position, IsEvent, Active, Closed
<1> QED
  BY <1>1, <1>2, <1>3, <1>4
----------------------------------------------------------------------------
\* A chunk goes from the raw channel into the buffer.
LEMMA StepTake == ASSUME IInv, PreReadData \/ TakeRaw PROVE IInv'
<1> USE DEF IInv
<1>1. /\ pump \in {"pre", "select"} /\ pump' \in {"pre", "first", "events"}
      /\ raw # <<>> /\ Head(raw).kind = "data" /\ raw' = Tail(raw) /\ acc' = acc \o Head(raw).evs
      /\ UNCHANGED <<readerVars, flagVars, sent, taken, consumer>>
  BY DEF PreReadData, TakeRaw, NotByPump
<1> DEFINE evs == raw[1].evs
<1>2. /\ Run(evs) /\ evs \in Seq(Events) /\ Len(evs) \in Nat \ {0}
      /\ Head(raw) = raw[1] /\ raw[1].kind = "data" /\ evs = raw[1].evs
  <2>1. raw[1] \in Item /\ raw[1].kind = "data" /\ Len(raw) \in Nat \ {0} /\ Head(raw) = raw[1]
    BY <1>1, RawTail DEF TypeOK
  <2>2. Run(evs) /\ evs \in Seq(Events)
    BY <2>1 DEF ItemInv, Item
  <2> QED
    BY <2>1, <2>2 DEF Run
<1>3. /\ acc' \in Seq(Events) /\ Len(acc') = Len(acc) + Len(evs)
      /\ \A i \in 1 .. Len(acc) : acc'[i] = acc[i]
      /\ \A i \in 1 .. Len(evs) : acc'[Len(acc) + i] = evs[i]
  <2>1. acc \in Seq(Events) /\ Len(acc) \in Nat
    BY PumpNumbers DEF TypeOK
  <2>2. /\ acc' \in Seq(Events) /\ Len(acc') = Len(acc) + Len(evs)
        /\ \A i \in 1 .. Len(acc) + Len(evs) :
             acc'[i] = IF i <= Len(acc) THEN acc[i] ELSE evs[i - Len(acc)]
    <3>1. acc' = acc \o evs
      BY <1>1, <1>2
    <3> HIDE DEF evs
    <3> QED
      BY <1>2, <2>1, <3>1, ConcatProperties
  <2>3. ASSUME NEW i \in 1 .. Len(evs) PROVE acc'[Len(acc) + i] = evs[i]
    BY <1>2, <2>1, <2>2
  <2> QED
    BY <1>2, <2>1, <2>2, <2>3
<1>4. /\ raw' \in Seq(Item) /\ Len(raw') = Len(raw) - 1 /\ Len(raw) \in Nat \ {0}
      /\ \A j \in 1 .. Len(raw') : raw'[j] = raw[j + 1]
  BY <1>1, RawTail DEF TypeOK
<1> HIDE DEF evs
<1>5. NothingSkipped' /\ SentInv' /\ FlagInv' /\ EndingInv'
  BY <1>1, SentKept DEF readerVars
<1>6. TypeOK'
  BY <1>1, <1>3, <1>4 DEF TypeOK, readerVars, flagVars, PumpStep
<1>7. ItemInv'
  <2>1. acc' # <<>>
    BY <1>2, <1>3 DEF TypeOK
  <2> QED
    BY <1>1, <1>4, <2>1 DEF ItemInv, Run, readerVars
<1>8. ChainInv'
  <2>1. PICK h \in 0 .. Len(upstream) : Handled(h) /\ Queued(h)
    BY <1>1 DEF ChainInv, Active
  <2>2. evs[1] = h + Len(acc) + 1 /\ After(raw[1]) = h + Len(acc') + 1
    <3>1. evs[1] = h + Len(acc) + 1
      BY <1>1, <1>2, <2>1 DEF Queued
    <3>2. After(raw[1]) = evs[1] + Len(evs)
      BY <1>2 DEF After
    <3>3. Len(acc) \in Nat /\ Len(acc') = Len(acc) + Len(evs) /\ Len(evs) \in Nat
      BY <1>2, <1>3, PumpNumbers
    <3> QED
      BY <3>1, <3>2, <3>3
  <2>3. ASSUME NEW i \in 1 .. Len(acc') PROVE acc'[i] = h + i /\ acc'[i] \in 1 .. Len(upstream)
    <3>1. CASE i <= Len(acc)
      BY <1>3, <2>1, <3>1, PumpNumbers DEF Handled
    <3>2. CASE i > Len(acc)
      <4>1. i - Len(acc) \in 1 .. Len(evs) /\ i = Len(acc) + (i - Len(acc))
        BY <1>2, <1>3, <3>2 DEF TypeOK
      <4>2. acc'[i] = evs[i - Len(acc)]
        BY <1>3, <4>1
      <4> QED
        <5>1. evs[i - Len(acc)] = evs[1] + (i - Len(acc)) - 1
              /\ evs[i - Len(acc)] \in 1 .. Len(upstream)
          BY <1>2, <4>1 DEF Run
        <5>2. h \in Int /\ Len(acc) \in Int /\ i \in Int /\ evs[1] = h + Len(acc) + 1
          BY <2>2 DEF TypeOK
        <5> QED
          BY <4>2, <5>1, <5>2
    <3> QED
      BY <3>1, <3>2 DEF TypeOK
  <2>4. Handled(h)'
    BY <1>1, <2>1, <2>3 DEF Handled, Position, readerVars
  <2>5. Queued(h)'
    <3>1. CASE Len(raw) = 1
      <4>1. raw' = <<>>
        BY <1>4, <3>1
      <4>2. raw[Len(raw)] = raw[1]
        BY <3>1
      <4> QED
        <5>1. /\ reader = "read" => h + Len(acc') + 1 = Len(upstream) + 1
              /\ reader = "offer" /\ held.kind = "data" =>
                   held.evs[1] = h + Len(acc') + 1 /\ After(held) = Len(upstream) + 1
          BY <1>1, <2>1, <2>2, <4>2 DEF Queued
        <5>2. Len(raw') - 1 = -1
          BY <1>4, <3>1
        <5> QED
          BY <1>1, <4>1, <5>1, <5>2 DEF Queued, After, readerVars
    <3>2. CASE Len(raw) > 1
      <4>1. /\ raw' # <<>> /\ raw'[Len(raw')] = raw[Len(raw)] /\ raw'[1] = raw[2]
            /\ raw[1].kind = "data"
        BY SMTT(30), <1>1, <1>2, <1>4, <3>2
      <4>2. raw'[1].kind = "data" => raw'[1].evs[1] = h + Len(acc') + 1
        BY <1>4, <2>1, <2>2, <3>2, <4>1 DEF Queued
      <4>3. ASSUME NEW j \in 1 .. Len(raw') - 1, raw'[j + 1].kind = "data"
            PROVE raw'[j + 1].evs[1] = After(raw'[j])
        <5>1. raw'[j + 1] = raw[j + 1 + 1] /\ raw'[j] = raw[j + 1] /\ j + 1 \in 1 .. Len(raw) - 1
          BY <1>4
        <5> QED
          BY <2>1, <4>3, <5>1 DEF Queued
      <4> QED
        BY <1>1, <1>4, <2>1, <4>1, <4>2, <4>3 DEF Queued, After, readerVars
    <3> QED
      BY <1>4, <3>1, <3>2
  <2> QED
    BY <1>1, <2>1, <2>4, <2>5 DEF ChainInv, readerVars
<1> QED
  BY <1>5, <1>6, <1>7, <1>8

\* The pump stops forwarding.
LEMMA StepEnd == ASSUME IInv, PreReadFails \/ Finish \/ Cancelled PROVE IInv'
<1> USE DEF IInv
<1>1. /\ pump \in {"pre", "select"} /\ pump' \in {"inject", "mark", "exited"}
      /\ raw' = raw \/ (raw # <<>> /\ raw' = Tail(raw))
      /\ pump' = "inject" => ~finished /\ pump = "select"
      /\ UNCHANGED <<readerVars, acc, flagVars, sent, taken, consumer>>
  BY DEF PreReadFails, Finish, Cancelled, NotByPump
<1>2. /\ raw' \in Seq(Item) /\ Len(raw') \in {Len(raw), Len(raw) - 1} /\ Len(raw') <= Len(raw)
      /\ Len(raw') = Len(raw) => raw' = raw
      /\ Len(raw') = Len(raw) - 1 => \A j \in 1 .. Len(raw') : raw'[j] = raw[j + 1]
  <2>1. CASE raw' = raw
    BY <2>1, PumpNumbers DEF TypeOK
  <2>2. CASE raw # <<>> /\ raw' = Tail(raw)
    <3>1. Len(raw) \in Nat /\ Len(Tail(raw)) = Len(raw) - 1
      BY <2>2, RawTail, PumpNumbers
    <3>2. Tail(raw) \in Seq(Item) /\ \A j \in 1 .. Len(raw) - 1 : Tail(raw)[j] = raw[j + 1]
      BY <2>2, RawTail
    <3>3. Len(raw') = Len(raw) - 1 /\ Len(raw') # Len(raw) /\ Len(raw') <= Len(raw)
      <4>1. Len(raw') = Len(Tail(raw))
        BY <2>2
      <4> QED
        BY <3>1, <4>1
    <3>4. \A j \in 1 .. Len(raw') : raw'[j] = raw[j + 1]
      BY <2>2, <3>2, <3>3
    <3> QED
      BY <2>2, <3>2, <3>3, <3>4
  <2> QED
    BY <1>1, <2>1, <2>2
<1>3. NothingSkipped' /\ SentInv' /\ FlagInv' /\ EndingInv'
  BY <1>1, SentKept DEF readerVars, Active
<1>4. TypeOK'
  BY <1>1, <1>2 DEF TypeOK, readerVars, flagVars, PumpStep
<1>5. ItemInv'
  <2>1. ASSUME NEW j \in 1 .. Len(raw')
        PROVE \E k \in 1 .. Len(raw) : raw'[j] = raw[k] /\ (j < Len(raw') => k < Len(raw))
    <3>1. CASE Len(raw') = Len(raw)
      BY <1>2, <3>1
    <3>2. CASE Len(raw') = Len(raw) - 1
      <4>1. j + 1 \in 1 .. Len(raw) /\ raw'[j] = raw[j + 1] /\ (j < Len(raw') => j + 1 < Len(raw))
        BY <1>2, <3>2, PumpNumbers
      <4> QED
        BY <4>1
    <3> QED
      BY <1>2, <3>1, <3>2
  <2>2. \A j \in 1 .. Len(raw') : raw'[j].kind = "data" => Run(raw'[j].evs)
    BY <2>1 DEF ItemInv
  <2>3. reader # "exited" => \A j \in 1 .. Len(raw') : raw'[j].kind = "data"
    BY <2>1 DEF ItemInv
  <2>4. ASSUME NEW j \in 1 .. Len(raw') - 1 PROVE raw'[j].kind = "data"
    <3>1. j \in 1 .. Len(raw') /\ j < Len(raw')
      BY <1>2, PumpNumbers
    <3>2. PICK k \in 1 .. Len(raw) : raw'[j] = raw[k] /\ k < Len(raw)
      BY <2>1, <3>1
    <3>3. k \in 1 .. Len(raw) - 1
      BY <3>2, PumpNumbers
    <3> QED
      BY <3>2, <3>3 DEF ItemInv
  <2> QED
    BY <1>1, <2>2, <2>3, <2>4 DEF ItemInv, Run, readerVars
<1> QED
  BY <1>1, <1>3, <1>4, <1>5 DEF ChainInv, Active

\* The pump looks at the next event, and forwards none.
LEMMA StepLook == ASSUME IInv, Drained \/ ErrorEvent PROVE IInv'
<1> USE DEF IInv
<1>1. /\ pump = "events" /\ pump' \in {"select", "errorInject"}
      /\ pump' = "errorInject" => ~finished /\ acc # <<>>
      /\ UNCHANGED <<readerVars, raw, acc, flagVars, sent, taken, consumer>>
  BY DEF Drained, ErrorEvent, ErrorBreaks, NotByPump
<1>2. NothingSkipped' /\ SentInv' /\ FlagInv' /\ EndingInv'
  BY <1>1, SentKept DEF readerVars
<1>3. TypeOK'
  BY <1>1 DEF TypeOK, readerVars, flagVars, PumpStep
<1>4. ItemInv'
  BY <1>1 DEF ItemInv, Run, readerVars
<1>5. ChainInv'
  BY <1>1 DEF ChainInv, Active, Handled, Queued, Position, After, readerVars
<1> QED
  BY <1>2, <1>3, <1>4, <1>5

\* The next event is known to be dealt with.
LEMMA Advance ==
  ASSUME IInv, Active, acc # <<>>, UNCHANGED <<readerVars, raw>>, acc' = Tail(acc),
         \A i \in Position : sent'[i] = sent[i],
         \/ Len(sent') = Len(sent) /\ upstream[acc[1]] \in {"comment", "error"}
         \/ Len(sent') = Len(sent) + 1 /\ sent'[Len(sent) + 1] = Forward(acc[1])
  PROVE  /\ ChainInv' /\ acc[1] \in 1 .. Len(upstream)
         /\ \A i \in Position : sent[i].n < acc[1]
         /\ \A n \in 1 .. acc[1] - 1 :
              upstream[n] \in {"comment", "error"} \/ \E j \in Position : sent[j].n = n
<1> USE DEF IInv
<1>1. PICK h \in 0 .. Len(upstream) : Handled(h) /\ Queued(h)
  BY DEF ChainInv
<1>2. /\ Len(acc) \in Nat \ {0} /\ Len(acc') = Len(acc) - 1
      /\ \A i \in 1 .. Len(acc') : acc'[i] = acc[i + 1]
  BY HeadOfAcc DEF TypeOK
<1>3. acc[1] = h + 1 /\ h + 1 \in 1 .. Len(upstream)
  BY <1>1, <1>2 DEF Handled
<1>4. Queued(h + 1)'
  BY <1>1, <1>2 DEF Queued, After, readerVars, TypeOK
<1>5. Handled(h + 1)'
  <2>1. Len(sent) \in Nat /\ \A i \in Position : sent[i].n \in Nat
    BY PumpNumbers
  <2>2. ASSUME NEW i \in 1 .. Len(sent') PROVE sent'[i].n <= h + 1
    <3>1. h \in Nat /\ Len(sent') \in {Len(sent), Len(sent) + 1}
      BY <2>1
    <3>2. CASE i \in Position
      <4>1. sent'[i].n = sent[i].n /\ sent[i].n <= h /\ sent[i].n \in Nat
        BY <1>1, <2>1, <3>2 DEF Handled
      <4> QED
        BY <3>1, <4>1
    <3>3. CASE i = Len(sent) + 1 /\ sent'[i] = Forward(acc[1])
      BY <1>3, <3>1, <3>3 DEF Forward
    <3> QED
      BY <2>1, <3>1, <3>2, <3>3 DEF Position
  <2>3. ASSUME NEW n \in 1 .. h + 1
        PROVE upstream[n] \in {"comment", "error"} \/ \E j \in 1 .. Len(sent') : sent'[j].n = n
    <3>1. CASE n <= h
      <4>1. CASE \E j \in Position : sent[j].n = n
        BY <2>1, <4>1 DEF Position
      <4>2. n \in 1 .. h
        BY <3>1
      <4> QED
        BY <1>1, <4>1, <4>2 DEF Handled
    <3>2. CASE n = h + 1
      BY <1>3, <2>1, <3>2 DEF Forward
    <3> QED
      BY <3>1, <3>2
  <2>4. \A i \in 1 .. Len(acc') : acc'[i] = h + 1 + i /\ acc'[i] \in 1 .. Len(upstream)
    <3> TAKE i \in 1 .. Len(acc')
    <3>1. i + 1 \in 1 .. Len(acc) /\ acc'[i] = acc[i + 1]
      BY <1>2
    <3>2. acc[i + 1] = h + (i + 1) /\ acc[i + 1] \in 1 .. Len(upstream)
      BY <1>1, <3>1 DEF Handled
    <3> QED
      BY <3>1, <3>2
  <2> QED
    BY <2>2, <2>3, <2>4 DEF Handled, Position, readerVars
<1>6. ChainInv'
  BY <1>3, <1>4, <1>5 DEF ChainInv, readerVars
<1>7. \A i \in Position : sent[i].n < h + 1
  BY <1>1, PumpNumbers DEF Handled
<1> QED
  BY <1>1, <1>3, <1>6, <1>7 DEF Handled

LEMMA StepSkip == ASSUME IInv, Skip PROVE IInv'
<1> USE DEF IInv
<1>1. /\ pump = "events" /\ pump' = pump /\ acc # <<>> /\ acc' = Tail(acc)
      /\ upstream[Head(acc)] \in {"comment", "error"}
      /\ UNCHANGED <<readerVars, raw, flagVars, sent, taken, consumer>>
  BY DEF Skip, IsReal, NotByPump
<1>2. NothingSkipped' /\ SentInv' /\ FlagInv' /\ EndingInv'
  BY <1>1, SentKept DEF readerVars
<1>3. TypeOK'
  BY <1>1, HeadOfAcc DEF TypeOK, readerVars, flagVars
<1>4. ItemInv'
  BY <1>1 DEF ItemInv, Run, readerVars
<1>5. ChainInv'
  BY <1>1, HeadOfAcc, Advance DEF Active
<1> QED
  BY <1>2, <1>3, <1>4, <1>5

LEMMA StepInspect == ASSUME IInv, Inspect PROVE IInv'
<1> USE DEF IInv
<1>1. /\ pump = "events" /\ pump' = "forward" /\ acc # <<>> /\ Note(acc[1])
      /\ UNCHANGED <<readerVars, raw, acc, sent, taken, consumer>>
  BY HeadOfAcc DEF Inspect, NotByPump
<1>2. TypeOK'
  BY <1>1 DEF TypeOK, readerVars, Note, PumpStep
<1>3. NothingSkipped' /\ ChainInv' /\ ItemInv' /\ SentInv'
  BY <1>1 DEF NothingSkipped, SentInv, ChainInv, ItemInv, Active, Handled, Queued, Position,
     After, Run, readerVars, IsEvent
<1>4. FlagInv'
  <2>1. \A i \in Position : sent[i] # Inject
    BY <1>1 DEF SentInv, Active, IsEvent, Inject
  <2>2. (finished => finished') /\ (doneSent => doneSent')
    BY <1>1 DEF Note
  <2> QED
    <3>1. /\ upstream[acc[1]] \in {"finish", "done"} => finished'
          /\ upstream[acc[1]] = "done" => doneSent'
      BY <1>1 DEF Note
    <3>2. UNCHANGED <<upstream, acc, sent>> /\ pump' = "forward"
      BY <1>1 DEF readerVars
    <3> QED
      BY <2>1, <2>2, <3>1, <3>2 DEF FlagInv, Says, Position, IsEvent
<1>5. EndingInv'
  BY <1>1 DEF EndingInv, Terminated, UpstreamDone, Position, IsEvent, readerVars, Note, Closed, Active
<1> QED
  BY <1>2, <1>3, <1>4, <1>5
----------------------------------------------------------------------------
\* A send that is given up: the pump ends, or has nothing but EOF left to try.
LEMMA GivenUp ==
  ASSUME IInv, Closed, pump' \in {"exited", "eof"}, pump' = "eof" => pump = "mark",
         UNCHANGED <<readerVars, raw, flagVars, sent, taken, consumer>>,
         acc' \in {acc, Tail(acc)}, acc' # acc => acc # <<>>
  PROVE  IInv'
<1> USE DEF IInv
<1>1. TypeOK'
  BY HeadOfAcc DEF TypeOK, readerVars, flagVars, PumpStep
<1>2. NothingSkipped' /\ SentInv' /\ ChainInv'
  BY DEF NothingSkipped, SentInv, ChainInv, Active, Position, IsEvent, readerVars
<1>3. ItemInv'
  BY DEF ItemInv, Run, readerVars
<1>4. FlagInv'
  BY DEF FlagInv, Says, Position, IsEvent, readerVars, flagVars
<1>5. EndingInv'
  BY DEF EndingInv, Terminated, UpstreamDone, Position, IsEvent, readerVars, flagVars, Closed, Active
<1> QED
  BY <1>1, <1>2, <1>3, <1>4, <1>5

\* An event of upstream goes out.
LEMMA Forwarded ==
  ASSUME IInv, pump \in {"first", "forward"}, pump' = "events", acc' = Tail(acc),
         UNCHANGED <<readerVars, raw, injected, taken, consumer>>,
         pump = "first" => Note(acc[1]),
         pump = "forward" => UNCHANGED flagVars
           /\ (upstream[acc[1]] \in {"finish", "done"} => finished)
           /\ (upstream[acc[1]] = "done" => doneSent),
         sent' \in Seq(Sent), Len(sent') = Len(sent) + 1, Len(sent) - taken < OutCap,
         \A i \in 1 .. Len(sent) : sent'[i] = sent[i],
         sent'[Len(sent) + 1] = Forward(acc[1])
  PROVE  IInv'
<1> USE DEF IInv
<1>1. /\ acc # <<>> /\ Len(sent) \in Nat
      /\ ChainInv' /\ acc[1] \in 1 .. Len(upstream)
      /\ \A i \in Position : sent[i].n < acc[1]
      /\ \A n \in 1 .. acc[1] - 1 :
           upstream[n] \in {"comment", "error"} \/ \E j \in Position : sent[j].n = n
  BY Advance, PumpNumbers DEF ItemInv, Active, Position
<1>2. \A i \in Position : IsEvent(i)
  BY DEF SentInv, Active
<1>3. TypeOK'
  <2>1. finished' \in BOOLEAN /\ doneSent' \in BOOLEAN /\ injected' \in BOOLEAN
    BY DEF TypeOK, flagVars, Note
  <2>2. acc' \in Seq(Events)
    BY <1>1, HeadOfAcc
  <2>3. taken' \in 0 .. Len(sent') /\ Len(sent') - taken' <= OutCap
    BY <1>1 DEF TypeOK
  <2> QED
    BY <2>1, <2>2, <2>3 DEF TypeOK, readerVars, PumpStep
<1>4. NothingSkipped'
  <2> DEFINE last == Len(sent) + 1
  <2>0. sent'[last].what = "event" /\ sent'[last].n = acc[1]
    BY DEF Forward
  <2>1. ASSUME NEW i \in 1 .. Len(sent')
        PROVE  /\ \A j \in 1 .. i - 1 : sent'[j].what = "event" /\ sent'[j].n < sent'[i].n
               /\ \A n \in 1 .. sent'[i].n - 1 :
                    upstream[n] \in {"comment", "error"} \/ \E j \in 1 .. i - 1 : sent'[j].n = n
    <3>1. CASE i = Len(sent) + 1
      <4>1. \A j \in 1 .. i - 1 : j \in Position /\ sent'[j] = sent[j]
        BY <1>1, <3>1 DEF Position
      <4>2. \A j \in 1 .. i - 1 : sent'[j].what = "event" /\ sent'[j].n < sent'[i].n
        BY <1>1, <1>2, <2>0, <3>1, <4>1 DEF IsEvent
      <4>3. ASSUME NEW n \in 1 .. acc[1] - 1, upstream[n] \notin {"comment", "error"}
            PROVE \E j \in 1 .. i - 1 : sent'[j].n = n
        <5>1. PICK j \in Position : sent[j].n = n
          BY <1>1, <4>3
        <5>2. j \in 1 .. i - 1
          BY <1>1, <3>1 DEF Position
        <5> QED
          BY <4>1, <5>1, <5>2
      <4> QED
        BY <2>0, <3>1, <4>2, <4>3
    <3>2. CASE i \in 1 .. Len(sent)
      <4>1. sent'[i] = sent[i] /\ IsEvent(i) /\ i \in Position
        BY <1>2, <3>2 DEF Position
      <4>2. \A j \in 1 .. i - 1 : sent'[j] = sent[j]
        BY <1>1, <3>2
      <4> QED
        BY <4>1, <4>2 DEF NothingSkipped, IsEvent
    <3> QED
      BY <1>1, <3>1, <3>2
  <2> QED
    BY <2>1 DEF NothingSkipped, Position, IsEvent, readerVars
<1>5. ItemInv'
  BY DEF ItemInv, Run, readerVars
<1>6. SentInv'
  <2>1. ASSUME NEW i \in 1 .. Len(sent')
        PROVE sent'[i].what = "event" /\ sent'[i].n \in 1 .. Len(upstream)
    <3>1. CASE i = Len(sent) + 1
      BY <1>1, <3>1 DEF Forward
    <3>2. CASE i \in 1 .. Len(sent)
      BY <1>2, <3>2 DEF SentInv, Position, IsEvent
    <3> QED
      BY <1>1, <3>1, <3>2
  <2> QED
    BY <2>1 DEF SentInv, Position, IsEvent, readerVars
<1>7. FlagInv'
  <2>1. /\ finished => finished'
        /\ doneSent => doneSent'
        /\ upstream[acc[1]] \in {"finish", "done"} => finished'
        /\ upstream[acc[1]] = "done" => doneSent'
    <3>1. CASE pump = "first"
      BY <3>1 DEF Note, TypeOK
    <3>2. CASE pump = "forward"
      BY <3>2 DEF flagVars
    <3> QED
      BY <3>1, <3>2
  <2>2. ASSUME NEW i \in 1 .. Len(sent')
        PROVE  /\ upstream[sent'[i].n] \in {"finish", "done"} => finished'
               /\ upstream[sent'[i].n] = "done" => doneSent'
               /\ sent'[i] # Inject
    <3>1. CASE i = Len(sent) + 1
      BY <2>1, <3>1 DEF Forward, Inject
    <3>2. CASE i \in 1 .. Len(sent)
      <4>1. sent'[i] = sent[i] /\ IsEvent(i) /\ i \in Position
        BY <1>2, <3>2 DEF Position
      <4> QED
        BY <2>1, <4>1 DEF FlagInv, Says, IsEvent, Inject
    <3> QED
      BY <1>1, <3>1, <3>2
  <2> QED
    BY <2>2 DEF FlagInv, Says, Position, IsEvent, readerVars
<1>8. EndingInv'
  <2>1. ASSUME NEW i \in 1 .. Len(sent') PROVE sent'[i].what = "event"
    <3>1. CASE i = Len(sent) + 1
      BY <3>1 DEF Forward
    <3>2. CASE i \in 1 .. Len(sent)
      BY <1>2, <3>2 DEF Position, IsEvent
    <3> QED
      BY <1>1, <3>1, <3>2
  <2>2. \A i \in Position' : sent'[i] \notin {Inject, Done, EOF}
    BY <2>1 DEF Position, Inject, Done, EOF
  <2>3. ASSUME doneSent' PROVE \E j \in Position' : Terminated(j)'
    <3>1. CASE upstream[acc[1]] = "done"
      <4>1. PICK k \in Position' : sent'[k] = Forward(acc[1])
        BY <1>1 DEF Position
      <4>2. UpstreamDone(k)'
        BY <3>1, <4>1 DEF UpstreamDone, IsEvent, Forward, readerVars
      <4> QED
        BY <4>2 DEF Terminated
    <3>2. CASE upstream[acc[1]] # "done"
      <4>1. doneSent
        BY <2>3, <3>2 DEF Note, flagVars
      <4>2. PICK j \in Position : Terminated(j)
        BY <3>2, <4>1 DEF EndingInv
      <4>3. j \in Position' /\ sent'[j] = sent[j]
        BY <1>1 DEF Position
      <4>4. Terminated(j)'
        BY <4>2, <4>3 DEF Terminated, UpstreamDone, IsEvent, readerVars
      <4> QED
        BY <4>3, <4>4
    <3> QED
      BY <3>1, <3>2
  <2> QED
    BY <2>2, <2>3 DEF EndingInv
<1> QED
  BY <1>1, <1>3, <1>4, <1>5, <1>6, <1>7, <1>8

\* The pump adds an ending: an injection, a [DONE] or EOF.
LEMMA Ended ==
  ASSUME IInv, NEW x \in {Inject, Done, EOF},
         x = Inject => pump \in {"inject", "errorInject"} /\ pump' \in {"mark", "broke"}
                         /\ doneSent' /\ UNCHANGED finished,
         x = Done => pump = "mark" /\ pump' = "eof" /\ ~doneSent /\ UNCHANGED flagVars,
         x = EOF => pump = "eof" /\ pump' = "exited" /\ UNCHANGED flagVars,
         {doneSent', injected'} \subseteq BOOLEAN,
         UNCHANGED <<readerVars, raw, acc, taken, consumer>>,
         sent' \in Seq(Sent), Len(sent') = Len(sent) + 1, Len(sent) - taken < OutCap,
         \A i \in 1 .. Len(sent) : sent'[i] = sent[i],
         sent'[Len(sent) + 1] = x
  PROVE  IInv'
<1> USE DEF IInv
<1>1. Len(sent) \in Nat /\ ~Active' /\ pump' # "inject"
  BY PumpNumbers DEF Active, Inject, Done, EOF
<1>2. x.what # "event"
  BY DEF Inject, Done, EOF
<1>3. TypeOK'
  BY <1>1 DEF TypeOK, readerVars, flagVars, PumpStep, Inject, Done, EOF
<1>4. NothingSkipped' /\ ChainInv' /\ SentInv'
  <2>1. ASSUME NEW i \in 1 .. Len(sent'), sent'[i].what = "event"
        PROVE i \in Position /\ sent'[i] = sent[i] /\ \A j \in 1 .. i - 1 : sent'[j] = sent[j]
    <3>1. i \in 1 .. Len(sent)
      BY <1>1, <1>2, <2>1
    <3> QED
      BY <1>1, <3>1 DEF Position
  <2>2. NothingSkipped'
    BY <2>1 DEF NothingSkipped, Position, IsEvent, readerVars
  <2>3. SentInv'
    BY <1>1, <2>1 DEF SentInv, Position, IsEvent, readerVars
  <2> QED
    BY <1>1, <2>2, <2>3 DEF ChainInv
<1>5. ItemInv'
  BY <1>1 DEF ItemInv, Run, readerVars, Active
<1>6. FlagInv'
  BY <1>1, <1>2 DEF FlagInv, Says, Position, IsEvent, Inject, Done, EOF, readerVars, flagVars
<1>7. EndingInv'
  <2> DEFINE last == Len(sent) + 1
  <2>1. \A i \in Position : i \in Position' /\ sent'[i] = sent[i] /\ i < last
    BY <1>1 DEF Position
  <2>2. last \in Position' /\ sent'[last] = x /\ \A i \in Position' : i \in Position \/ i = last
    BY <1>1 DEF Position
  <2>3. \A i \in Position :
          /\ UpstreamDone(i)' <=> UpstreamDone(i)
          /\ Terminated(i)' <=> Terminated(i)
          /\ IsEvent(i)' <=> IsEvent(i)
    <3> TAKE i \in Position
    <3>1. sent'[i] = sent[i] /\ upstream' = upstream
      BY <2>1 DEF readerVars
    <3> QED
      BY <3>1 DEF Terminated, UpstreamDone, IsEvent
  <2>4. \A i \in Position : sent[i] # EOF
    BY DEF EndingInv, Inject, Done, EOF
  <2>5. x \in {Inject, Done} => \A i \in Position : IsEvent(i) /\ ~UpstreamDone(i)
    <3>1. CASE x = Inject
      BY <3>1 DEF SentInv, FlagInv, Active, UpstreamDone, Says
    <3>2. CASE x = Done
      <4>1. \A i \in Position : sent[i] # Inject /\ ~UpstreamDone(i)
        BY <3>2 DEF FlagInv, UpstreamDone, Says
      <4>2. \A i \in Position : sent[i] # Done
        BY <3>2 DEF EndingInv
      <4>3. \A i \in Position : sent[i] \in {Inject, Done, EOF} \/ IsEvent(i)
        BY DEF SentInv
      <4> QED
        BY <2>4, <4>1, <4>2, <4>3
    <3> QED
      BY <3>1, <3>2
  <2>6. ASSUME NEW i \in Position', sent'[i] \in {Inject, Done}
        PROVE  /\ ~Active' /\ pump' # "inject" /\ (sent'[i] = Done => pump' # "mark")
               /\ \A j \in Position' :
                    /\ j < i => IsEvent(j)' /\ ~UpstreamDone(j)'
                    /\ j > i => sent'[j] = EOF
    <3>1. CASE i = last
      <4>1. x \in {Inject, Done} /\ (x = Done => pump' # "mark")
        BY <2>2, <2>6, <3>1 DEF Inject, Done, EOF
      <4> QED
        BY <1>1, <2>1, <2>2, <2>3, <2>5, <3>1, <4>1 DEF Position
    <3>2. CASE i \in Position
      <4>1. sent[i] \in {Inject, Done} /\ sent'[i] = sent[i]
        BY <2>1, <2>6, <3>2
      <4>2. ~Active /\ pump # "inject" /\ (sent[i] = Done => pump # "mark")
        BY <3>2, <4>1 DEF EndingInv
      <4>3. x = EOF
        <5>1. x # Inject
          BY <4>2 DEF Active
        <5>2. x = Done => sent[i] = Inject /\ ~doneSent
          BY <4>1, <4>2
        <5> QED
          BY <3>2, <5>1, <5>2 DEF FlagInv
      <4> QED
        <5>1. pump' = "exited" /\ ~Active' /\ pump' # "inject" /\ i <= Len(sent)
          BY <1>1, <3>2, <4>3 DEF Position, EOF, Done, Inject
        <5>2. \A j \in Position : /\ j < i => IsEvent(j) /\ ~UpstreamDone(j)
                                  /\ j > i => sent[j] = EOF
          BY <3>2, <4>1 DEF EndingInv
        <5>3. ASSUME NEW j \in Position'
              PROVE  /\ j < i => IsEvent(j)' /\ ~UpstreamDone(j)'
                     /\ j > i => sent'[j] = EOF
          <6>1. CASE j = last
            BY <1>1, <2>2, <4>3, <5>1, <6>1
          <6>2. CASE j \in Position
            BY <2>1, <2>3, <5>2, <6>2
          <6> QED
            BY <2>2, <6>1, <6>2
        <5> QED
          BY <5>1, <5>3
    <3> QED
      BY <2>2, <3>1, <3>2
  <2>7. ASSUME NEW i \in Position', sent'[i] = EOF
        PROVE  /\ pump' = "exited" /\ i = Len(sent')
               /\ ~Closed' \/ i <= taken' => \E j \in 1 .. i - 1 : Terminated(j)'
    <3>1. i = last /\ x = EOF
      BY <2>1, <2>2, <2>4, <2>7
    <3>2. pump = "eof" /\ pump' = "exited" /\ taken' < last
      BY <1>1, <3>1 DEF TypeOK, EOF, Inject, Done
    <3>3. ~Closed => \E j \in Position : Terminated(j)
      BY <3>2 DEF EndingInv
    <3>4. Position = 1 .. i - 1 /\ (Closed' <=> Closed)
      BY <1>1, <3>1 DEF Position, Closed
    <3>5. pump' = "exited" /\ i = Len(sent')
      BY <3>1, <3>2
    <3>6. ~(i <= taken')
      BY <1>1, <3>1, <3>2 DEF TypeOK
    <3>7. ~Closed => \E j \in 1 .. i - 1 : Terminated(j)'
      <4> HAVE ~Closed
      <4>1. PICK j \in Position : Terminated(j)
        BY <3>3
      <4>2. Terminated(j)'
        BY <2>1, <4>1 DEF Terminated, UpstreamDone, IsEvent, readerVars
      <4> QED
        BY <3>4, <4>2
    <3> QED
      BY <3>4, <3>5, <3>6, <3>7
  <2>8. doneSent' => pump' = "exited" \/ \E j \in Position' : Terminated(j)'
    <3>1. CASE x = EOF
      BY <3>1 DEF Inject, Done, EOF
    <3>2. CASE x \in {Inject, Done}
      BY <2>2, <3>2 DEF Terminated
    <3> QED
      BY <3>1, <3>2
  <2>9. pump' = "eof" => \E j \in Position' : Terminated(j)'
    BY <2>2 DEF Terminated, Inject, Done, EOF
  <2>10. pump' # "forward"
    BY <1>1 DEF Active
  <2> QED
    <3>1. \A i \in Position' : sent'[i] = EOF => pump' = "exited" /\ i = Len(sent')
      BY <2>7
    <3>2. \A i \in Position' :
            sent'[i] = EOF /\ (~Closed' \/ i <= taken') => \E j \in 1 .. i - 1 : Terminated(j)'
      BY <2>7
    <3> QED
      BY <2>6, <2>8, <2>9, <2>10, <3>1, <3>2 DEF EndingInv, Terminated, UpstreamDone, IsEvent
<1> QED
  BY <1>3, <1>4, <1>5, <1>6, <1>7

\* The actions that send.
LEMMA StepSend ==
  ASSUME IInv, SendFirst \/ ForwardEvent \/ ErrorInject \/ IdleInject \/ Mark \/ SendEOF
  PROVE  IInv'
<1> USE DEF IInv
<1> DEFINE Out(x) ==
      /\ sent' \in Seq(Sent) /\ Len(sent') = Len(sent) + 1 /\ Len(sent) - taken < OutCap
      /\ \A i \in 1 .. Len(sent) : sent'[i] = sent[i]
      /\ sent'[Len(sent) + 1] = x
<1>1. CASE SendFirst \/ ForwardEvent
  <2>1. /\ pump \in {"first", "forward"} /\ acc # <<>>
        /\ Head(acc) = acc[1] /\ Forward(acc[1]) \in Sent
        /\ UNCHANGED <<readerVars, raw, taken, consumer>>
    BY <1>1, HeadOfAcc, ItemTypes DEF SendFirst, ForwardEvent, NotByPump, ItemInv
  <2>2. Send(Forward(acc[1]), "events", "exited")
    BY <1>1, <2>1 DEF SendFirst, ForwardEvent
  <2>3. \/ pump' = "events" /\ Out(Forward(acc[1]))
        \/ pump' = "exited" /\ Closed /\ sent' = sent
    BY <2>1, <2>2, SendCases
  <2>4. CASE pump' = "events"
    <3>1. UNCHANGED injected /\ acc' = Tail(acc)
      BY <1>1, <2>4 DEF SendFirst, ForwardEvent, Note, flagVars
    <3>2. pump = "first" => Note(acc[1])
      BY <1>1, <2>1, <2>4 DEF SendFirst, ForwardEvent
    <3>3. pump = "forward" => UNCHANGED flagVars
      BY <1>1 DEF SendFirst, ForwardEvent
    <3>4. pump = "forward" => /\ upstream[acc[1]] \in {"finish", "done"} => finished
                              /\ upstream[acc[1]] = "done" => doneSent
      BY DEF FlagInv
    <3> QED
      BY <2>1, <2>3, <2>4, <3>1, <3>2, <3>3, <3>4, Forwarded
  <2>5. CASE pump' = "exited"
    <3>1. UNCHANGED flagVars /\ acc' \in {acc, Tail(acc)}
      BY <1>1, <2>5 DEF SendFirst, ForwardEvent
    <3> QED
      BY <2>1, <2>3, <2>5, <3>1, GivenUp
  <2> QED
    BY <2>3, <2>4, <2>5
<1>2. CASE ErrorInject \/ IdleInject
  <2>1. PICK next \in {"broke", "mark"} :
          /\ Send(Inject, next, "exited")
          /\ pump' = next => injected' = TRUE /\ doneSent' = TRUE
          /\ pump' # next => UNCHANGED <<injected, doneSent>>
    BY <1>2 DEF ErrorInject, IdleInject
  <2>2. /\ pump \in {"inject", "errorInject"} /\ UNCHANGED <<readerVars, raw, acc, taken, consumer, finished>>
    BY <1>2 DEF ErrorInject, IdleInject, NotByPump
  <2>3. \/ pump' = next /\ Out(Inject)
        \/ pump' = "exited" /\ Closed /\ sent' = sent
    BY <2>1, ItemTypes, SendCases
  <2>4. CASE pump' = next
    BY <2>1, <2>2, <2>3, <2>4, Ended DEF Inject, Done, EOF
  <2>5. CASE pump' = "exited"
    BY <2>1, <2>2, <2>3, <2>5, GivenUp DEF flagVars
  <2> QED
    BY <2>3, <2>4, <2>5
<1>3. CASE Mark
  <2>1. pump = "mark" /\ UNCHANGED <<readerVars, raw, acc, flagVars, taken, consumer>>
    BY <1>3 DEF Mark, NotByPump
  <2>2. CASE doneSent
    <3>1. pump' = "eof" /\ sent' = sent
      BY <1>3, <2>2 DEF Mark
    <3>2. TypeOK'
      BY <2>1, <3>1 DEF TypeOK, readerVars, flagVars, PumpStep
    <3>3. NothingSkipped' /\ SentInv' /\ ChainInv'
      BY <2>1, <3>1 DEF NothingSkipped, SentInv, ChainInv, Active, Position, IsEvent, readerVars
    <3>4. ItemInv' /\ FlagInv'
      BY <2>1, <3>1 DEF ItemInv, Run, FlagInv, Says, Position, IsEvent, readerVars, flagVars
    <3>5. EndingInv'
      BY <2>1, <2>2, <3>1 DEF EndingInv, Terminated, UpstreamDone, Position, IsEvent, readerVars,
         flagVars, Closed, Active
    <3> QED
      BY <3>2, <3>3, <3>4, <3>5
  <2>3. CASE ~doneSent
    <3>1. Send(Done, "eof", "eof")
      BY <1>3, <2>3 DEF Mark
    <3>2. \/ pump' = "eof" /\ Out(Done)
          \/ pump' = "eof" /\ Closed /\ sent' = sent
      BY <3>1, ItemTypes, SendCases
    <3>3. CASE Out(Done)
      BY <2>1, <2>3, <3>2, <3>3, Ended DEF Inject, Done, EOF, flagVars, TypeOK
    <3>4. CASE Closed /\ sent' = sent
      BY <2>1, <3>2, <3>4, GivenUp
    <3> QED
      BY <3>2, <3>3, <3>4
  <2> QED
    BY <2>2, <2>3
<1>4. CASE SendEOF
  <2>1. pump = "eof" /\ Send(EOF, "exited", "exited")
        /\ UNCHANGED <<readerVars, raw, acc, flagVars, taken, consumer>>
    BY <1>4 DEF SendEOF, NotByPump
  <2>2. \/ pump' = "exited" /\ Out(EOF)
        \/ pump' = "exited" /\ Closed /\ sent' = sent
    BY <2>1, ItemTypes, SendCases
  <2>3. CASE Out(EOF)
    BY <2>1, <2>2, <2>3, Ended DEF Inject, Done, EOF, flagVars, TypeOK
  <2>4. CASE Closed /\ sent' = sent
    BY <2>1, <2>2, <2>4, GivenUp
  <2> QED
    BY <2>2, <2>3, <2>4
<1> QED
  BY <1>1, <1>2, <1>3, <1>4
----------------------------------------------------------------------------
LEMMA PumpInvariant == Spec => []IInv
<1>1. ASSUME IInv, [Next]_vars PROVE IInv'
  <2>1. CASE ReadEvents
    BY <1>1, <2>1, StepRead
  <2>2. CASE ReadEnds \/ ReaderStep
    BY <1>1, <2>2, StepReader DEF ReaderStep
  <2>3. CASE PreReadData \/ TakeRaw
    BY <1>1, <2>3, StepTake
  <2>4. CASE PreReadFails \/ Finish \/ Cancelled
    BY <1>1, <2>4, StepEnd
  <2>5. CASE Drained \/ ErrorEvent
    BY <1>1, <2>5, StepLook
  <2>6. CASE Skip
    BY <1>1, <2>6, StepSkip
  <2>7. CASE Inspect
    BY <1>1, <2>7, StepInspect
  <2>8. CASE SendFirst \/ ForwardEvent \/ ErrorInject \/ IdleInject \/ Mark \/ SendEOF
    BY <1>1, <2>8, StepSend
  <2>9. CASE ConsumerStep
    BY <1>1, <2>9, StepConsumer
  <2>10. CASE UNCHANGED vars
    <3>1. UNCHANGED <<readerVars, raw, pump, acc, flagVars, sent, taken, consumer>>
      BY <2>10 DEF vars
    <3>2. TypeOK'
      BY <1>1, <3>1 DEF IInv, readerVars, flagVars, TypeOK
    <3>3. NothingSkipped' /\ SentInv'
      BY <1>1, <3>1 DEF IInv, readerVars, NothingSkipped, SentInv, Active, Position, IsEvent
    <3>4. ChainInv'
      BY <1>1, <3>1 DEF IInv, readerVars, ChainInv, Active, Handled, Queued, After, Position
    <3>5. ItemInv'
      BY <1>1, <3>1 DEF IInv, readerVars, ItemInv, Run
    <3>6. FlagInv'
      BY <1>1, <3>1 DEF IInv, readerVars, flagVars, FlagInv, Says, Position, IsEvent
    <3>7. EndingInv'
      BY <1>1, <3>1 DEF IInv, readerVars, flagVars, EndingInv, Terminated, UpstreamDone,
         Closed, Active, Position, IsEvent
    <3> QED
      BY <3>2, <3>3, <3>4, <3>5, <3>6, <3>7 DEF IInv
  <2> QED
    BY <1>1, <2>1, <2>2, <2>3, <2>4, <2>5, <2>6, <2>7, <2>8, <2>9, <2>10 DEF Next, PumpMoves
<1> QED
  BY <1>1, InitPump, PTL DEF Spec

\* Every variable stays of its type, and the channels within their capacities:
\* chunks in raw are events upstream has sent, and no goroutine gets lost
\* between its steps (the make calls of opencode.go's pump and newBody).
THEOREM PumpTypeCorrect == Spec => []TypeOK
<1>1. IInv => TypeOK
  BY DEF IInv
<1> QED
  BY <1>1, PumpInvariant, PTL

\* However reads split the events, and however slowly the client takes them,
\* what it gets is upstream's events in their order, without a gap but for
\* comments and errors (the loop over events in pump).
THEOREM ForwardsAll == Spec => []NothingSkipped
<1>1. IInv => NothingSkipped
  BY DEF IInv
<1> QED
  BY <1>1, PumpInvariant, PTL

\* Once a finish reason or upstream's [DONE] has been forwarded, no way to the
\* end of the stream injects a tool call.
THEOREM FinishedStaysFinished == Spec => []NoInjectionAfterFinish
<1>1. IInv => NoInjectionAfterFinish
  BY DEF IInv, FlagInv, Says, NoInjectionAfterFinish, Position, IsEvent
<1> QED
  BY <1>1, PumpInvariant, PTL

\* What was taken by a client that stays: a [DONE] before EOF, one at most by
\* the pump and none after upstream's, and nothing but EOF behind it.
THEOREM EndsWell == Spec => []WellTerminated
<1>1. IInv => WellTerminated
  <2> SUFFICES ASSUME IInv, NEW i \in 1 .. taken
      PROVE  /\ sent[i] = EOF => \E j \in 1 .. i - 1 : Terminated(j)
             /\ sent[i] \in {Inject, Done} =>
                  \A j \in Position : /\ j < i => IsEvent(j) /\ ~UpstreamDone(j)
                                      /\ j > i => sent[j] = EOF
    BY DEF WellTerminated, Terminated
  <2>1. i \in Position /\ i <= taken
    BY DEF IInv, TypeOK, Position
  <2> QED
    BY <2>1 DEF IInv, EndingInv
<1> QED
  BY <1>1, PumpInvariant, PTL
=============================================================================
