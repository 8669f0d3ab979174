-------------------------- MODULE QwenBrokerProofs -------------------------
(***************************************************************************)
(* What the broker guarantees for any number of agents and requests, any   *)
(* channel capacity and any length of answer.  The invariant follows a     *)
(* chunk on its way: what a browser has sent for a request is what was     *)
(* written to its client, what its channel holds, and the message its      *)
(* agent's loop is carrying, in that order.                                *)
(***************************************************************************)
EXTENDS QwenBroker, TLAPS

\* A request that is copying its channel to its client.
Streaming == {"stream", "flush"}

InFlight(a) == loop[a] \in {"unlock", "lookup", "forward"}

\* The loop of r's agent carries a chunk of r's answer.
Carrying(r) ==
  InFlight(agent[r]) /\ msg[agent[r]].req = r /\ msg[agent[r]].kind # "end"

\* Before its command is sent a request has no answer and an unused channel.
FreshInv ==
  \A r \in Requests :
    /\ pc[r] \in {"idle", "scan", "bind", "register", "write"} =>
         /\ answer[r] = "none" /\ emitted[r] = 0 /\ ~closed[r]
         /\ written[r] = <<>> /\ queue[r] = <<>>
    /\ pc[r] = "refused" => answer[r] = "none"
    /\ pc[r] \in {"bind", "register", "write", "stream", "flush"} => agent[r] \in Agents
    /\ pc[r] \in {"write", "stream", "flush"} => r \in streams
    /\ pc[r] \in Streaming => answer[r] # "none"

\* A message being handled is the last one of its request, whose channel is open.
FlightInv ==
  \A a \in Agents :
    InFlight(a) =>
      /\ msg[a] \in Message
      /\ agent[msg[a].req] = a
      /\ ~closed[msg[a].req]
      /\ answer[msg[a].req] # "none"
      /\ msg[a].kind = "end" <=> answer[msg[a].req] = "ended"
      /\ msg[a].kind # "end" => msg[a].n = emitted[msg[a].req] /\ msg[a].n > 0
      /\ loop[a] = "forward" /\ pc[msg[a].req] \in Streaming => found[a]

ClosedInv == \A r \in Requests : closed[r] => answer[r] = "ended"

\* Nothing is lost, doubled or reordered while a request is streaming.
StreamInv ==
  \A r \in Requests :
    /\ \A i \in 1 .. Len(written[r]) : written[r][i] = i
    /\ pc[r] \in Streaming =>
         /\ \A i \in 1 .. Len(queue[r]) : queue[r][i] = Len(written[r]) + i
         /\ emitted[r] = Len(written[r]) + Len(queue[r]) + (IF Carrying(r) THEN 1 ELSE 0)

IInv == TypeOK /\ BusyIsWatched /\ FreshInv /\ FlightInv /\ ClosedInv /\ StreamInv

LEMMA InitIInv == Init => IInv
<1> SUFFICES ASSUME Init PROVE IInv
  OBVIOUS
<1>1. TypeOK
  BY ChanAssumption DEF Init, TypeOK, ReqStep, LoopStep, Progress
<1>2. BusyIsWatched /\ FreshInv /\ FlightInv /\ ClosedInv /\ StreamInv
  BY DEF Init, BusyIsWatched, FreshInv, FlightInv, ClosedInv, StreamInv, InFlight,
     Streaming
<1> QED
  BY <1>1, <1>2 DEF IInv

\* What moves neither chunks nor streaming requests keeps StreamInv.
LEMMA StreamKept ==
  ASSUME StreamInv, UNCHANGED <<written, queue, emitted>>,
         \A r \in Requests :
           pc'[r] \in Streaming => pc[r] \in Streaming /\ (Carrying(r)' <=> Carrying(r))
  PROVE  StreamInv'
<1> SUFFICES ASSUME NEW r \in Requests
    PROVE  /\ \A i \in 1 .. Len(written'[r]) : written'[r][i] = i
           /\ pc'[r] \in Streaming =>
                /\ \A i \in 1 .. Len(queue'[r]) : queue'[r][i] = Len(written'[r]) + i
                /\ emitted'[r] = Len(written'[r]) + Len(queue'[r])
                                 + (IF Carrying(r)' THEN 1 ELSE 0)
  BY DEF StreamInv
<1> QED
  BY DEF StreamInv

\* Moving the head of a channel to the client's side keeps the numbering.
LEMMA MoveHead ==
  ASSUME NEW w \in Seq(Nat), NEW u \in Seq(Nat), u # <<>>,
         \A i \in 1 .. Len(w) : w[i] = i,
         \A i \in 1 .. Len(u) : u[i] = Len(w) + i
  PROVE  /\ Len(Append(w, Head(u))) + Len(Tail(u)) = Len(w) + Len(u)
         /\ \A i \in 1 .. Len(Append(w, Head(u))) : Append(w, Head(u))[i] = i
         /\ \A i \in 1 .. Len(Tail(u)) : Tail(u)[i] = Len(Append(w, Head(u))) + i
<1>1. Len(u) \in Nat \ {0} /\ Len(w) \in Nat /\ Head(u) = u[1]
  OBVIOUS
<1>2. Len(Append(w, Head(u))) = Len(w) + 1 /\ Len(Tail(u)) = Len(u) - 1
  BY <1>1
<1>3. Head(u) = Len(w) + 1
  BY <1>1
<1>4. \A i \in 1 .. Len(w) + 1 : Append(w, Head(u))[i] = i
  BY <1>1, <1>3
<1>5. \A i \in 1 .. Len(u) - 1 : Tail(u)[i] = u[i + 1] /\ i + 1 \in 1 .. Len(u)
  BY <1>1
<1>6. \A i \in 1 .. Len(u) - 1 : Tail(u)[i] = Len(w) + 1 + i
  BY <1>1, <1>5
<1> QED
  BY <1>1, <1>2, <1>4, <1>6

\* So does adding the chunk that comes next to a channel.
LEMMA PutLast ==
  ASSUME NEW k \in Nat, NEW u \in Seq(Nat), NEW n \in Nat, n = k + Len(u) + 1,
         \A i \in 1 .. Len(u) : u[i] = k + i
  PROVE  /\ Len(Append(u, n)) = Len(u) + 1
         /\ \A i \in 1 .. Len(Append(u, n)) : Append(u, n)[i] = k + i
<1>1. Len(u) \in Nat /\ Len(Append(u, n)) = Len(u) + 1
  OBVIOUS
<1>2. ASSUME NEW i \in 1 .. Len(u) + 1 PROVE Append(u, n)[i] = k + i
  BY <1>1, <1>2
<1> QED
  BY <1>1, <1>2

\* Every step keeps the invariant: one step of the proof per action.
LEMMA NextIInv == IInv /\ [Next]_vars => IInv'
<1> SUFFICES ASSUME IInv, [Next]_vars PROVE IInv'
  OBVIOUS
<1> USE ChanAssumption, NoneAssumption
<1> USE DEF IInv, managerVars, lockVars, chanVars, reqVars, loopVars, browserVars, Goto, LoopTo,
       Streaming
<1>1. ASSUME NEW r \in Requests, Arrive(r) PROVE IInv'
  <2> USE <1>1 DEF Arrive
  <2>1. TypeOK'
    BY DEF TypeOK, ReqStep, LoopStep, Progress
  <2>2. BusyIsWatched'
    BY DEF BusyIsWatched, TypeOK
  <2>3. FreshInv'
    BY DEF FreshInv, TypeOK
  <2>4. FlightInv'
    BY DEF FlightInv, FreshInv, InFlight, TypeOK, Message
  <2>5. ClosedInv'
    BY DEF ClosedInv, TypeOK
  <2>6. StreamInv'
    BY DEF StreamInv, FreshInv, FlightInv, Carrying, InFlight, TypeOK, Message
  <2> QED
    BY <2>1, <2>2, <2>3, <2>4, <2>5, <2>6
<1>2. ASSUME NEW r \in Requests, NEW a \in Agents, Pick(r, a) PROVE IInv'
  <2> USE <1>2 DEF Pick, TryLock
  <2>1. TypeOK'
    BY DEF TypeOK, ReqStep, LoopStep, Progress
  <2>2. BusyIsWatched'
    BY DEF BusyIsWatched, TypeOK
  <2>3. FreshInv'
    BY DEF FreshInv, TypeOK
  <2>4. FlightInv'
    BY DEF FlightInv, FreshInv, InFlight, TypeOK, Message
  <2>5. ClosedInv'
    BY DEF ClosedInv, TypeOK
  <2>6. StreamInv'
    <3>1. \A q \in Requests :
            pc'[q] \in Streaming => pc[q] \in Streaming /\ (Carrying(q)' <=> Carrying(q))
      BY DEF Carrying, InFlight, TypeOK
    <3> QED
      BY <3>1, StreamKept
  <2> QED
    BY <2>1, <2>2, <2>3, <2>4, <2>5, <2>6
<1>3. ASSUME NEW r \in Requests, NEW a \in Agents, PassOver(r, a) PROVE IInv'
  <2> USE <1>3 DEF PassOver
  <2>1. TypeOK'
    BY DEF TypeOK, ReqStep, LoopStep, Progress
  <2>2. BusyIsWatched'
    BY DEF BusyIsWatched, TypeOK
  <2>3. FreshInv'
    BY DEF FreshInv, TypeOK
  <2>4. FlightInv'
    BY DEF FlightInv, FreshInv, InFlight, TypeOK, Message
  <2>5. ClosedInv'
    BY DEF ClosedInv, TypeOK
  <2>6. StreamInv'
    BY DEF StreamInv, FreshInv, FlightInv, Carrying, InFlight, TypeOK, Message
  <2> QED
    BY <2>1, <2>2, <2>3, <2>4, <2>5, <2>6
<1>4. ASSUME NEW r \in Requests, Refuse(r) PROVE IInv'
  <2> USE <1>4 DEF Refuse
  <2>1. TypeOK'
    BY DEF TypeOK, ReqStep, LoopStep, Progress
  <2>2. BusyIsWatched'
    BY DEF BusyIsWatched, TypeOK
  <2>3. FreshInv'
    BY DEF FreshInv, TypeOK
  <2>4. FlightInv'
    BY DEF FlightInv, FreshInv, InFlight, TypeOK, Message
  <2>5. ClosedInv'
    BY DEF ClosedInv, TypeOK
  <2>6. StreamInv'
    BY DEF StreamInv, FreshInv, FlightInv, Carrying, InFlight, TypeOK, Message
  <2> QED
    BY <2>1, <2>2, <2>3, <2>4, <2>5, <2>6
<1>5. ASSUME NEW r \in Requests, BindChat(r) PROVE IInv'
  <2> USE <1>5 DEF BindChat
  <2>1. TypeOK'
    BY DEF TypeOK, ReqStep, LoopStep, Progress
  <2>2. BusyIsWatched'
    BY DEF BusyIsWatched, TypeOK
  <2>3. FreshInv'
    BY DEF FreshInv, TypeOK
  <2>4. FlightInv'
    BY DEF FlightInv, FreshInv, InFlight, TypeOK, Message
  <2>5. ClosedInv'
    BY DEF ClosedInv, TypeOK
  <2>6. StreamInv'
    BY DEF StreamInv, FreshInv, FlightInv, Carrying, InFlight, TypeOK, Message
  <2> QED
    BY <2>1, <2>2, <2>3, <2>4, <2>5, <2>6
<1>6. ASSUME NEW r \in Requests, Register(r) PROVE IInv'
  <2> USE <1>6 DEF Register
  <2>1. TypeOK'
    BY DEF TypeOK, ReqStep, LoopStep, Progress
  <2>2. BusyIsWatched'
    BY DEF BusyIsWatched, TypeOK
  <2>3. FreshInv'
    BY DEF FreshInv, TypeOK
  <2>4. FlightInv'
    BY DEF FlightInv, FreshInv, InFlight, TypeOK, Message
  <2>5. ClosedInv'
    BY DEF ClosedInv, TypeOK
  <2>6. StreamInv'
    BY DEF StreamInv, FreshInv, FlightInv, Carrying, InFlight, TypeOK, Message
  <2> QED
    BY <2>1, <2>2, <2>3, <2>4, <2>5, <2>6
<1>7. ASSUME NEW r \in Requests, Send(r) PROVE IInv'
  <2> USE <1>7 DEF Send
  <2>1. TypeOK'
    BY DEF TypeOK, ReqStep, LoopStep, Progress
  <2>2. BusyIsWatched'
    BY DEF BusyIsWatched, TypeOK
  <2>3. FreshInv'
    BY DEF FreshInv, TypeOK
  <2>4. FlightInv'
    BY DEF FlightInv, FreshInv, InFlight, TypeOK, Message
  <2>5. ClosedInv'
    BY DEF ClosedInv, FreshInv, TypeOK
  <2>6. StreamInv'
    BY DEF StreamInv, FreshInv, FlightInv, Carrying, InFlight, TypeOK, Message
  <2> QED
    BY <2>1, <2>2, <2>3, <2>4, <2>5, <2>6
<1>8. ASSUME NEW r \in Requests, SendFails(r) PROVE IInv'
  <2> USE <1>8 DEF SendFails
  <2>1. TypeOK'
    BY DEF TypeOK, ReqStep, LoopStep, Progress
  <2>2. BusyIsWatched'
    BY DEF BusyIsWatched, TypeOK
  <2>3. FreshInv'
    BY DEF FreshInv, TypeOK
  <2>4. FlightInv'
    BY DEF FlightInv, FreshInv, InFlight, TypeOK, Message
  <2>5. ClosedInv'
    BY DEF ClosedInv, TypeOK
  <2>6. StreamInv'
    BY DEF StreamInv, FreshInv, FlightInv, Carrying, InFlight, TypeOK, Message
  <2> QED
    BY <2>1, <2>2, <2>3, <2>4, <2>5, <2>6
<1>9. ASSUME NEW r \in Requests, Receive(r) PROVE IInv'
  <2> USE <1>9 DEF Receive
  <2>1. TypeOK'
    BY SMTT(30) DEF TypeOK, ReqStep, LoopStep, Progress
  <2>2. BusyIsWatched'
    BY DEF BusyIsWatched, TypeOK
  <2>3. FreshInv'
    BY DEF FreshInv, TypeOK
  <2>4. FlightInv'
    BY DEF FlightInv, FreshInv, InFlight, TypeOK, Message
  <2>5. ClosedInv'
    BY DEF ClosedInv, TypeOK
  <2>6. StreamInv'
    <3>1. written[r] \in Seq(Nat) /\ queue[r] \in Seq(Nat) /\ queue[r] # <<>>
      <4>1. written[r] \in Seq(1 .. MaxChunks) /\ queue[r] \in Seq(1 .. MaxChunks)
        BY DEF TypeOK
      <4> QED
        BY <4>1
    <3>2. /\ \A i \in 1 .. Len(queue[r]) : queue[r][i] = Len(written[r]) + i
          /\ \A i \in 1 .. Len(written[r]) : written[r][i] = i
          /\ emitted[r] = Len(written[r]) + Len(queue[r]) + (IF Carrying(r) THEN 1 ELSE 0)
      BY DEF StreamInv
    <3>3. written'[r] = Append(written[r], Head(queue[r])) /\ queue'[r] = Tail(queue[r])
      BY DEF TypeOK
    <3>4. \A q \in Requests : Carrying(q)' <=> Carrying(q)
      BY DEF Carrying, InFlight
    <3>5. /\ Len(written'[r]) + Len(queue'[r]) = Len(written[r]) + Len(queue[r])
          /\ \A i \in 1 .. Len(written'[r]) : written'[r][i] = i
          /\ \A i \in 1 .. Len(queue'[r]) : queue'[r][i] = Len(written'[r]) + i
      <4>1. PICK w, u : w = written[r] /\ u = queue[r]
        OBVIOUS
      <4>2. w \in Seq(Nat) /\ u \in Seq(Nat) /\ u # <<>>
        BY <3>1, <4>1
      <4>3. /\ \A i \in 1 .. Len(w) : w[i] = i
            /\ \A i \in 1 .. Len(u) : u[i] = Len(w) + i
        BY <3>2, <4>1
      <4>4. /\ Len(Append(w, Head(u))) + Len(Tail(u)) = Len(w) + Len(u)
            /\ \A i \in 1 .. Len(Append(w, Head(u))) : Append(w, Head(u))[i] = i
            /\ \A i \in 1 .. Len(Tail(u)) : Tail(u)[i] = Len(Append(w, Head(u))) + i
        BY ONLY <4>2, <4>3, MoveHead
      <4> QED
        BY ONLY <3>3, <4>1, <4>4
    <3>6. emitted'[r] = Len(written'[r]) + Len(queue'[r]) + (IF Carrying(r)' THEN 1 ELSE 0)
      <4>1. emitted'[r] = emitted[r]
        OBVIOUS
      <4>2. Carrying(r)' <=> Carrying(r)
        BY <3>4
      <4> QED
        BY ONLY <3>2, <3>5, <4>1, <4>2
    <3>7. \A q \in Requests \ {r} : written'[q] = written[q] /\ queue'[q] = queue[q]
      BY DEF TypeOK
    <3>8. ASSUME NEW q \in Requests \ {r}, pc'[q] \in Streaming
          PROVE  /\ \A i \in 1 .. Len(queue'[q]) : queue'[q][i] = Len(written'[q]) + i
                 /\ emitted'[q] = Len(written'[q]) + Len(queue'[q])
                                  + (IF Carrying(q)' THEN 1 ELSE 0)
      <4>1. pc[q] \in Streaming
        BY <3>8 DEF TypeOK
      <4> QED
        BY <3>4, <3>7, <4>1 DEF StreamInv
    <3> QED
      BY <3>5, <3>6, <3>7, <3>8 DEF StreamInv
  <2> QED
    BY <2>1, <2>2, <2>3, <2>4, <2>5, <2>6
<1>10. ASSUME NEW r \in Requests, ReceiveClosed(r) PROVE IInv'
  <2> USE <1>10 DEF ReceiveClosed
  <2>1. TypeOK'
    BY DEF TypeOK, ReqStep, LoopStep, Progress
  <2>2. BusyIsWatched'
    BY DEF BusyIsWatched, TypeOK
  <2>3. FreshInv'
    BY DEF FreshInv, TypeOK
  <2>4. FlightInv'
    BY DEF FlightInv, FreshInv, InFlight, TypeOK, Message
  <2>5. ClosedInv'
    BY DEF ClosedInv, TypeOK
  <2>6. StreamInv'
    BY DEF StreamInv, FreshInv, FlightInv, Carrying, InFlight, TypeOK, Message
  <2> QED
    BY <2>1, <2>2, <2>3, <2>4, <2>5, <2>6
<1>11. ASSUME NEW r \in Requests, Timeout(r) PROVE IInv'
  <2> USE <1>11 DEF Timeout
  <2>1. TypeOK'
    BY DEF TypeOK, ReqStep, LoopStep, Progress
  <2>2. BusyIsWatched'
    BY DEF BusyIsWatched, TypeOK
  <2>3. FreshInv'
    BY DEF FreshInv, TypeOK
  <2>4. FlightInv'
    BY DEF FlightInv, FreshInv, InFlight, TypeOK, Message
  <2>5. ClosedInv'
    BY DEF ClosedInv, TypeOK
  <2>6. StreamInv'
    BY DEF StreamInv, FreshInv, FlightInv, Carrying, InFlight, TypeOK, Message
  <2> QED
    BY <2>1, <2>2, <2>3, <2>4, <2>5, <2>6
<1>12. ASSUME NEW r \in Requests, TimeoutUnlock(r) PROVE IInv'
  <2> USE <1>12 DEF TimeoutUnlock, Unlock
  <2>1. TypeOK'
    BY DEF TypeOK, ReqStep, LoopStep, Progress
  <2>2. BusyIsWatched'
    BY DEF BusyIsWatched, TypeOK
  <2>3. FreshInv'
    BY DEF FreshInv, TypeOK
  <2>4. FlightInv'
    BY DEF FlightInv, FreshInv, InFlight, TypeOK, Message
  <2>5. ClosedInv'
    BY DEF ClosedInv, TypeOK
  <2>6. StreamInv'
    <3>1. \A q \in Requests :
            pc'[q] \in Streaming => pc[q] \in Streaming /\ (Carrying(q)' <=> Carrying(q))
      BY DEF Carrying, InFlight, TypeOK
    <3> QED
      BY <3>1, StreamKept
  <2> QED
    BY <2>1, <2>2, <2>3, <2>4, <2>5, <2>6
<1>13. ASSUME NEW r \in Requests, Unwind(r) PROVE IInv'
  <2> USE <1>13 DEF Unwind
  <2>1. TypeOK'
    BY DEF TypeOK, ReqStep, LoopStep, Progress
  <2>2. BusyIsWatched'
    BY DEF BusyIsWatched, TypeOK
  <2>3. FreshInv'
    BY DEF FreshInv, TypeOK
  <2>4. FlightInv'
    BY DEF FlightInv, FreshInv, InFlight, TypeOK, Message
  <2>5. ClosedInv'
    BY DEF ClosedInv, TypeOK
  <2>6. StreamInv'
    BY DEF StreamInv, FreshInv, FlightInv, Carrying, InFlight, TypeOK, Message
  <2> QED
    BY <2>1, <2>2, <2>3, <2>4, <2>5, <2>6
<1>14. ASSUME NEW r \in Requests, Release(r) PROVE IInv'
  <2> USE <1>14 DEF Release, Unlock
  <2>1. TypeOK'
    BY DEF TypeOK, ReqStep, LoopStep, Progress
  <2>2. BusyIsWatched'
    BY DEF BusyIsWatched, TypeOK
  <2>3. FreshInv'
    BY DEF FreshInv, TypeOK
  <2>4. FlightInv'
    BY DEF FlightInv, FreshInv, InFlight, TypeOK, Message
  <2>5. ClosedInv'
    BY DEF ClosedInv, TypeOK
  <2>6. StreamInv'
    <3>1. \A q \in Requests :
            pc'[q] \in Streaming => pc[q] \in Streaming /\ (Carrying(q)' <=> Carrying(q))
      BY DEF Carrying, InFlight, TypeOK
    <3> QED
      BY <3>1, StreamKept
  <2> QED
    BY <2>1, <2>2, <2>3, <2>4, <2>5, <2>6
<1>15. ASSUME NEW a \in Agents, AddAgent(a) PROVE IInv'
  <2> USE <1>15 DEF AddAgent
  <2>1. TypeOK'
    BY DEF TypeOK, ReqStep, LoopStep, Progress
  <2>2. BusyIsWatched'
    BY DEF BusyIsWatched, TypeOK
  <2>3. FreshInv'
    BY DEF FreshInv, TypeOK
  <2>4. FlightInv'
    BY DEF FlightInv, FreshInv, InFlight, TypeOK, Message
  <2>5. ClosedInv'
    BY DEF ClosedInv, TypeOK
  <2>6. StreamInv'
    <3>1. \A q \in Requests :
            pc'[q] \in Streaming => pc[q] \in Streaming /\ (Carrying(q)' <=> Carrying(q))
      BY DEF Carrying, InFlight, TypeOK
    <3> QED
      BY <3>1, StreamKept
  <2> QED
    BY <2>1, <2>2, <2>3, <2>4, <2>5, <2>6
<1>16. ASSUME NEW a \in Agents, Read(a) PROVE IInv'
  <2> USE <1>16 DEF Read
  <2>a. PICK m \in Message :
          Emit(a, m) /\ msg' = [msg EXCEPT ![a] = m]
          /\ loop' = [loop EXCEPT ![a] = IF m.kind = "chunk" THEN "lookup" ELSE "unlock"]
    OBVIOUS
  <2> DEFINE r == m.req
  <2>b. /\ r \in Requests /\ m.n \in 0 .. MaxChunks /\ agent[r] = a
        /\ answer[r] \in {"running", "finished"}
    BY <2>a DEF Emit, Message
  <2>t. emitted \in [Requests -> 0 .. MaxChunks] /\ answer \in [Requests -> Progress]
    BY DEF TypeOK
  <2>e. \/ /\ m.kind # "end" /\ m.n = emitted[r] + 1
           /\ answer[r] = "running" /\ answer'[r] \in {"running", "finished"}
           /\ emitted'[r] = m.n
        \/ m.kind = "end" /\ answer'[r] = "ended" /\ emitted'[r] = emitted[r]
    BY <2>a, <2>b, <2>t DEF Emit, Progress
  <2>f. \A q \in Requests \ {r} : answer'[q] = answer[q] /\ emitted'[q] = emitted[q]
    BY <2>a, <2>b, <2>t DEF Emit
  <2>g. emitted' \in [Requests -> 0 .. MaxChunks] /\ answer' \in [Requests -> Progress]
    BY <2>a, <2>b, <2>t DEF Emit, Progress
  <2>c. /\ answer'[r] # "none" /\ (m.kind = "end" <=> answer'[r] = "ended")
        /\ \A q \in Requests \ {r} : answer'[q] = answer[q] /\ emitted'[q] = emitted[q]
        /\ answer' \in [Requests -> Progress] /\ emitted' \in [Requests -> 0 .. MaxChunks]
    BY <2>e, <2>f, <2>g
  <2>d. /\ m.kind # "end" => m.n = emitted'[r] /\ emitted'[r] = emitted[r] + 1
        /\ m.kind = "end" => emitted'[r] = emitted[r]
    BY <2>e
  <2>1. TypeOK'
    BY <2>a, <2>c DEF TypeOK, LoopStep
  <2>2. BusyIsWatched'
    BY DEF BusyIsWatched, TypeOK
  <2>3. FreshInv'
    <3>1. pc[r] \notin {"idle", "scan", "bind", "register", "write", "refused"}
      BY <2>b DEF FreshInv
    <3> QED
      BY <2>b, <2>c, <3>1 DEF FreshInv
  <2>4. FlightInv'
    <3>1. ASSUME NEW b \in Agents \ {a}, InFlight(b)'
          PROVE  InFlight(b) /\ msg'[b] = msg[b] /\ loop'[b] = loop[b] /\ msg[b].req # r
                 /\ msg[b].req \in Requests
      BY <2>a, <2>b, <3>1 DEF InFlight, FlightInv, TypeOK, Message
    <3>2. ~closed[r] /\ msg'[a] = m /\ loop'[a] # "forward"
      BY <2>a, <2>b DEF ClosedInv, TypeOK
    <3>3. m.kind # "end" => m.n > 0
      BY <2>b, <2>d DEF TypeOK
    <3> QED
      BY <2>b, <2>c, <2>d, <3>1, <3>2, <3>3 DEF FlightInv
  <2>5. ClosedInv'
    BY <2>b, <2>c DEF ClosedInv
  <2>6. StreamInv'
    <3>1. ASSUME NEW q \in Requests \ {r}, pc[q] \in Streaming PROVE Carrying(q)' <=> Carrying(q)
      BY <2>a, <2>b DEF Carrying, InFlight, TypeOK
    <3>2. ~Carrying(r) /\ (Carrying(r)' <=> m.kind # "end")
      BY <2>a, <2>b DEF Carrying, InFlight, TypeOK
    <3>3. ASSUME pc[r] \in Streaming
          PROVE  emitted'[r] = Len(written[r]) + Len(queue[r]) + (IF Carrying(r)' THEN 1 ELSE 0)
      <4>1. emitted[r] = Len(written[r]) + Len(queue[r])
        <5>1. emitted[r] = Len(written[r]) + Len(queue[r]) + 0
          BY <2>b, <3>2, <3>3 DEF StreamInv
        <5>2. Len(written[r]) \in Nat /\ Len(queue[r]) \in Nat
          BY <2>b DEF TypeOK
        <5> QED
          BY <5>1, <5>2
      <4>2. CASE m.kind = "end"
        <5>1. Len(written[r]) \in Nat /\ Len(queue[r]) \in Nat
          BY <2>b DEF TypeOK
        <5>2. ~Carrying(r)' /\ emitted'[r] = emitted[r]
          BY <2>d, <3>2, <4>2
        <5> QED
          BY ONLY <4>1, <5>1, <5>2
      <4>3. CASE m.kind # "end"
        BY ONLY <2>d, <3>2, <4>1, <4>3
      <4> QED
        BY <4>2, <4>3
    <3> QED
      BY <2>c, <3>1, <3>3 DEF StreamInv
  <2> QED
    BY <2>1, <2>2, <2>3, <2>4, <2>5, <2>6
<1>17. ASSUME NEW a \in Agents, ReadFails(a) PROVE IInv'
  <2> USE <1>17 DEF ReadFails
  <2>1. TypeOK'
    BY DEF TypeOK, ReqStep, LoopStep, Progress
  <2>2. BusyIsWatched'
    BY DEF BusyIsWatched, TypeOK
  <2>3. FreshInv'
    BY DEF FreshInv, TypeOK
  <2>4. FlightInv'
    BY DEF FlightInv, FreshInv, InFlight, TypeOK, Message
  <2>5. ClosedInv'
    BY DEF ClosedInv, TypeOK
  <2>6. StreamInv'
    <3>1. \A q \in Requests :
            pc'[q] \in Streaming => pc[q] \in Streaming /\ (Carrying(q)' <=> Carrying(q))
      BY DEF Carrying, InFlight, TypeOK
    <3> QED
      BY <3>1, StreamKept
  <2> QED
    BY <2>1, <2>2, <2>3, <2>4, <2>5, <2>6
<1>18. ASSUME NEW a \in Agents, MessageUnlock(a) PROVE IInv'
  <2> USE <1>18 DEF MessageUnlock, Unlock
  <2>1. TypeOK'
    BY DEF TypeOK, ReqStep, LoopStep, Progress
  <2>2. BusyIsWatched'
    BY DEF BusyIsWatched, TypeOK
  <2>3. FreshInv'
    BY DEF FreshInv, TypeOK
  <2>4. FlightInv'
    BY DEF FlightInv, FreshInv, InFlight, TypeOK, Message
  <2>5. ClosedInv'
    BY DEF ClosedInv, TypeOK
  <2>6. StreamInv'
    <3>1. \A q \in Requests :
            pc'[q] \in Streaming => pc[q] \in Streaming /\ (Carrying(q)' <=> Carrying(q))
      BY DEF Carrying, InFlight, TypeOK
    <3> QED
      BY <3>1, StreamKept
  <2> QED
    BY <2>1, <2>2, <2>3, <2>4, <2>5, <2>6
<1>19. ASSUME NEW a \in Agents, Lookup(a) PROVE IInv'
  <2> USE <1>19 DEF Lookup
  <2>1. TypeOK'
    BY DEF TypeOK, ReqStep, LoopStep, Progress
  <2>2. BusyIsWatched'
    BY DEF BusyIsWatched, TypeOK
  <2>3. FreshInv'
    BY DEF FreshInv, TypeOK
  <2>4. FlightInv'
    <3>1. InFlight(a) /\ msg[a].req \in Requests
      BY DEF InFlight, FlightInv, Message
    <3>2. pc[msg[a].req] \in Streaming => found'[a]
      BY <3>1 DEF FreshInv, TypeOK
    <3>3. ASSUME NEW b \in Agents, InFlight(b)', b # a
          PROVE  InFlight(b) /\ (loop'[b] = "forward" => loop[b] = "forward" /\ found'[b] = found[b])
      BY <3>3 DEF InFlight, TypeOK
    <3> QED
      BY <3>1, <3>2, <3>3 DEF FlightInv
  <2>5. ClosedInv'
    BY DEF ClosedInv, TypeOK
  <2>6. StreamInv'
    <3>1. \A q \in Requests :
            pc'[q] \in Streaming => pc[q] \in Streaming /\ (Carrying(q)' <=> Carrying(q))
      BY DEF Carrying, InFlight, TypeOK
    <3> QED
      BY <3>1, StreamKept
  <2> QED
    BY <2>1, <2>2, <2>3, <2>4, <2>5, <2>6
<1>20. ASSUME NEW a \in Agents, Ignore(a) PROVE IInv'
  <2> USE <1>20 DEF Ignore, NextRead
  <2>1. TypeOK'
    BY DEF TypeOK, ReqStep, LoopStep, Progress
  <2>2. BusyIsWatched'
    BY DEF BusyIsWatched, TypeOK
  <2>3. FreshInv'
    BY DEF FreshInv, TypeOK
  <2>4. FlightInv'
    BY DEF FlightInv, FreshInv, InFlight, TypeOK, Message
  <2>5. ClosedInv'
    BY DEF ClosedInv, TypeOK
  <2>6. StreamInv'
    <3>1. \A q \in Requests :
            pc'[q] \in Streaming => pc[q] \in Streaming /\ (Carrying(q)' <=> Carrying(q))
      BY DEF Carrying, InFlight, TypeOK, FlightInv
    <3> QED
      BY <3>1, StreamKept
  <2> QED
    BY <2>1, <2>2, <2>3, <2>4, <2>5, <2>6
<1>21. ASSUME NEW a \in Agents, ForwardChunk(a) PROVE IInv'
  <2> USE <1>21 DEF ForwardChunk, NextRead
  <2>1. TypeOK'
    <3>1. msg[a] \in Message /\ msg[a].n \in 1 .. MaxChunks /\ msg[a].req \in Requests
      BY DEF InFlight, FlightInv, Message
    <3>2. queue' \in [Requests -> Seq(1 .. MaxChunks)]
      BY <3>1 DEF TypeOK
    <3>3. loop' \in [Agents -> LoopStep] /\ msg' \in [Agents -> Message \cup {NoMessage}]
          /\ found' \in [Agents -> BOOLEAN]
      BY DEF TypeOK, LoopStep
    <3> QED
      BY <3>2, <3>3 DEF TypeOK
  <2>2. BusyIsWatched'
    BY DEF BusyIsWatched, TypeOK
  <2>3. FreshInv'
    <3>1. InFlight(a) /\ msg[a] \in Message /\ msg[a].req \in Requests
          /\ answer[msg[a].req] # "none"
      BY DEF InFlight, FlightInv, Message
    <3> QED
      BY <3>1 DEF FreshInv, TypeOK
  <2>4. FlightInv'
    BY DEF FlightInv, FreshInv, InFlight, TypeOK, Message
  <2>5. ClosedInv'
    BY DEF ClosedInv, TypeOK
  <2>6. StreamInv'
    <3>0. PICK r \in Requests : r = msg[a].req
      BY DEF InFlight, FlightInv, Message
    <3>1. /\ InFlight(a) /\ msg[a] \in Message /\ r \in Requests /\ agent[r] = a
          /\ msg[a].req = r /\ msg[a].n = emitted[r]
      BY <3>0 DEF InFlight, FlightInv, Message
    <3>2. queue[r] \in Seq(1 .. MaxChunks) /\ written[r] \in Seq(1 .. MaxChunks)
          /\ queue'[r] = Append(queue[r], msg[a].n)
      BY <3>1 DEF TypeOK
    <3>3. Carrying(r) /\ ~Carrying(r)'
      <4>1. loop'[a] = "read" /\ agent'[r] = a
        BY <3>1 DEF TypeOK
      <4> QED
        BY <3>1, <4>1 DEF Carrying, InFlight
    <3>4. ASSUME pc[r] \in Streaming
          PROVE  /\ \A i \in 1 .. Len(queue'[r]) : queue'[r][i] = Len(written'[r]) + i
                 /\ emitted'[r] = Len(written'[r]) + Len(queue'[r])
      <4>1. emitted[r] = Len(written[r]) + Len(queue[r]) + 1
        BY <3>1, <3>3, <3>4 DEF StreamInv
      <4>2. \A i \in 1 .. Len(queue[r]) : queue[r][i] = Len(written[r]) + i
        BY <3>1, <3>4 DEF StreamInv
      <4>3. PICK k, u, n : k = Len(written[r]) /\ u = queue[r] /\ n = msg[a].n
        OBVIOUS
      <4>4. k \in Nat /\ u \in Seq(Nat) /\ n \in Nat /\ n = k + Len(u) + 1
        <5>1. u \in Seq(1 .. MaxChunks) /\ k \in Nat
          BY <3>2, <4>3
        <5>2. msg[a].n \in Nat
          BY <3>1 DEF Message
        <5>3. u \in Seq(Nat)
          BY ONLY <5>1, ChanAssumption
        <5>4. n = emitted[r] /\ n \in Nat
          BY ONLY <3>1, <4>3, <5>2
        <5>5. emitted[r] = k + Len(u) + 1
          BY ONLY <4>1, <4>3
        <5> QED
          BY ONLY <5>1, <5>3, <5>4, <5>5
      <4>5. \A i \in 1 .. Len(u) : u[i] = k + i
        BY <4>2, <4>3
      <4>6. /\ Len(Append(u, n)) = Len(u) + 1
            /\ \A i \in 1 .. Len(Append(u, n)) : Append(u, n)[i] = k + i
        BY ONLY <4>4, <4>5, PutLast
      <4>7. Len(written'[r]) = k /\ queue'[r] = Append(u, n) /\ emitted'[r] = n
            /\ Len(u) \in Nat
        BY <3>1, <3>2, <4>3
      <4> QED
        BY ONLY <4>4, <4>6, <4>7
    <3>5. ASSUME NEW q \in Requests \ {r}
          PROVE  queue'[q] = queue[q] /\ (pc[q] \in Streaming => (Carrying(q)' <=> Carrying(q)))
      BY <3>1, <3>5 DEF Carrying, InFlight, TypeOK
    <3>6. ASSUME NEW q \in Requests \ {r}, pc[q] \in Streaming
          PROVE  /\ \A i \in 1 .. Len(queue'[q]) : queue'[q][i] = Len(written'[q]) + i
                 /\ emitted'[q] = Len(written'[q]) + Len(queue'[q])
                                  + (IF Carrying(q)' THEN 1 ELSE 0)
      BY <3>5, <3>6 DEF StreamInv
    <3>7. pc[r] \in Streaming =>
            emitted'[r] = Len(written'[r]) + Len(queue'[r]) + (IF Carrying(r)' THEN 1 ELSE 0)
      <4> SUFFICES ASSUME pc[r] \in Streaming
          PROVE  emitted'[r] = Len(written'[r]) + Len(queue'[r])
                               + (IF Carrying(r)' THEN 1 ELSE 0)
        OBVIOUS
      <4>1. Len(queue'[r]) \in Nat /\ Len(written'[r]) \in Nat
        BY <3>2
      <4>2. emitted'[r] = Len(written'[r]) + Len(queue'[r]) + 0
        <5>1. emitted'[r] = Len(written'[r]) + Len(queue'[r])
          BY <3>4
        <5> QED
          BY ONLY <4>1, <5>1
      <4> QED
        BY <3>3, <4>2
    <3>8. \A q \in Requests : \A i \in 1 .. Len(written'[q]) : written'[q][i] = i
      BY DEF StreamInv
    <3> QED
      BY <3>4, <3>6, <3>7, <3>8 DEF StreamInv
  <2> QED
    BY <2>1, <2>2, <2>3, <2>4, <2>5, <2>6
<1>22. ASSUME NEW a \in Agents, ForwardEnd(a) PROVE IInv'
  <2> USE <1>22 DEF ForwardEnd, NextRead
  <2>1. TypeOK'
    BY DEF TypeOK, ReqStep, LoopStep, Progress
  <2>2. BusyIsWatched'
    BY DEF BusyIsWatched, TypeOK
  <2>3. FreshInv'
    <3>1. InFlight(a) /\ msg[a] \in Message /\ msg[a].req \in Requests
          /\ answer[msg[a].req] # "none"
      BY DEF InFlight, FlightInv, Message
    <3> QED
      BY <3>1 DEF FreshInv, TypeOK
  <2>4. FlightInv'
    BY DEF FlightInv, FreshInv, InFlight, TypeOK, Message
  <2>5. ClosedInv'
    <3>1. InFlight(a) /\ answer[msg[a].req] = "ended"
      BY DEF InFlight, FlightInv
    <3> QED
      BY <3>1 DEF ClosedInv, TypeOK
  <2>6. StreamInv'
    <3>1. \A q \in Requests :
            pc'[q] \in Streaming => pc[q] \in Streaming /\ (Carrying(q)' <=> Carrying(q))
      BY DEF Carrying, InFlight, TypeOK
    <3> QED
      BY <3>1, StreamKept
  <2> QED
    BY <2>1, <2>2, <2>3, <2>4, <2>5, <2>6
<1>23. ASSUME NEW a \in Agents, RemoveAgent(a) PROVE IInv'
  <2> USE <1>23 DEF RemoveAgent
  <2>1. TypeOK'
    BY DEF TypeOK, ReqStep, LoopStep, Progress
  <2>2. BusyIsWatched'
    BY DEF BusyIsWatched, TypeOK
  <2>3. FreshInv'
    BY DEF FreshInv, TypeOK
  <2>4. FlightInv'
    BY DEF FlightInv, FreshInv, InFlight, TypeOK, Message
  <2>5. ClosedInv'
    BY DEF ClosedInv, TypeOK
  <2>6. StreamInv'
    <3>1. \A q \in Requests :
            pc'[q] \in Streaming => pc[q] \in Streaming /\ (Carrying(q)' <=> Carrying(q))
      BY DEF Carrying, InFlight, TypeOK
    <3> QED
      BY <3>1, StreamKept
  <2> QED
    BY <2>1, <2>2, <2>3, <2>4, <2>5, <2>6
<1>24. ASSUME NEW a \in Agents, WatchdogFires(a) PROVE IInv'
  <2> USE <1>24 DEF WatchdogFires
  <2>1. TypeOK'
    BY DEF TypeOK, ReqStep, LoopStep, Progress
  <2>2. BusyIsWatched'
    BY DEF BusyIsWatched, TypeOK
  <2>3. FreshInv'
    BY DEF FreshInv, TypeOK
  <2>4. FlightInv'
    BY DEF FlightInv, FreshInv, InFlight, TypeOK, Message
  <2>5. ClosedInv'
    BY DEF ClosedInv, TypeOK
  <2>6. StreamInv'
    <3>1. \A q \in Requests :
            pc'[q] \in Streaming => pc[q] \in Streaming /\ (Carrying(q)' <=> Carrying(q))
      BY DEF Carrying, InFlight, TypeOK
    <3> QED
      BY <3>1, StreamKept
  <2> QED
    BY <2>1, <2>2, <2>3, <2>4, <2>5, <2>6
<1>25. ASSUME NEW a \in Agents, ForceUnlock(a) PROVE IInv'
  <2> USE <1>25 DEF ForceUnlock
  <2>1. TypeOK'
    BY DEF TypeOK, ReqStep, LoopStep, Progress
  <2>2. BusyIsWatched'
    BY DEF BusyIsWatched, TypeOK
  <2>3. FreshInv'
    BY DEF FreshInv, TypeOK
  <2>4. FlightInv'
    BY DEF FlightInv, FreshInv, InFlight, TypeOK, Message
  <2>5. ClosedInv'
    BY DEF ClosedInv, TypeOK
  <2>6. StreamInv'
    BY DEF StreamInv, FreshInv, FlightInv, Carrying, InFlight, TypeOK, Message
  <2> QED
    BY <2>1, <2>2, <2>3, <2>4, <2>5, <2>6
<1>26. ASSUME NEW r \in Requests, Flushed(r) PROVE IInv'
  <2> USE <1>26 DEF Flushed
  <2>1. TypeOK'
    BY DEF TypeOK, ReqStep, LoopStep, Progress
  <2>2. BusyIsWatched'
    BY DEF BusyIsWatched, TypeOK
  <2>3. FreshInv'
    BY DEF FreshInv, TypeOK
  <2>4. FlightInv'
    BY DEF FlightInv, FreshInv, InFlight, TypeOK, Message
  <2>5. ClosedInv'
    BY DEF ClosedInv, TypeOK
  <2>6. StreamInv'
    <3>1. \A q \in Requests :
            pc'[q] \in Streaming => pc[q] \in Streaming /\ (Carrying(q)' <=> Carrying(q))
      BY DEF Carrying, InFlight, TypeOK
    <3> QED
      BY <3>1, StreamKept
  <2> QED
    BY <2>1, <2>2, <2>3, <2>4, <2>5, <2>6
<1>27. CASE UNCHANGED vars
  BY <1>27 DEF vars, TypeOK, BusyIsWatched, FreshInv, FlightInv, ClosedInv, StreamInv, Carrying, InFlight
<1> QED
  BY <1>1, <1>2, <1>3, <1>4, <1>5, <1>6, <1>7, <1>8, <1>9, <1>10, <1>11, <1>12, <1>13, <1>14, <1>15, <1>16, <1>17,
     <1>18, <1>19, <1>20, <1>21, <1>22, <1>23, <1>24, <1>25, <1>26, <1>27
  DEF Next, RequestMoves, WriteReturns, LoopMoves, Watchdog

LEMMA Invariance == Spec => []IInv
  BY InitIInv, NextIInv, PTL DEF Spec

(* Every variable keeps its type; a channel only ever holds numbers of      *)
(* chunks and no loop carries anything but a message of its browser.        *)
THEOREM TypeCorrect == Spec => []TypeOK
<1>1. IInv => TypeOK
  BY DEF IInv
<1> QED
  BY <1>1, Invariance, PTL

(* No agent is ever locked without a watchdog, however the request, the     *)
(* loop and the watchdogs of earlier requests interleave.                   *)
THEOREM Watched == Spec => []BusyIsWatched
<1>1. IInv => BusyIsWatched
  BY DEF IInv
<1> QED
  BY <1>1, Invariance, PTL

(* handleWS never touches a closed channel, although it looks the channel   *)
(* up and uses it in two steps.                                             *)
THEOREM ChannelsUsedOpen == Spec => []NoPanic
<1>1. IInv => NoPanic
  BY DEF IInv, FlightInv, NoPanic, InFlight
<1> QED
  BY <1>1, Invariance, PTL
----------------------------------------------------------------------------
(* The broker implements Relay.                                             *)

\* A step of the relay's state seen through the mapping.
LEMMA Stutters ==
  ASSUME UNCHANGED <<emitted, answer, written>>,
         \A q \in Requests : Outcome(q)' = Outcome(q)
  PROVE  UNCHANGED AbstractRelay!relayVars
<1>1. [q \in Requests |-> Outcome(q)]' = [q \in Requests |-> Outcome(q)]
  OBVIOUS
<1> QED
  BY <1>1 DEF AbstractRelay!relayVars

\* A request that gives up, or is refused, aborts its stream.
LEMMA Aborts ==
  ASSUME NEW r \in Requests, UNCHANGED <<emitted, answer, written>>,
         Outcome(r) = "open", Outcome(r)' = "aborted",
         \A q \in Requests \ {r} : Outcome(q)' = Outcome(q)
  PROVE  AbstractRelay!Abort(r)
<1>1. [q \in Requests |-> Outcome(q)]'
      = [[q \in Requests |-> Outcome(q)] EXCEPT ![r] = "aborted"]
  OBVIOUS
<1> QED
  BY <1>1 DEF AbstractRelay!Abort

LEMMA InitRefines == Init => AbstractRelay!Init
  BY DEF Init, AbstractRelay!Init, Outcome

\* Writing the head of the channel to the client delivers the next chunk.
LEMMA ReceiveRefines ==
  ASSUME IInv, NEW r \in Requests, Receive(r)
  PROVE  AbstractRelay!Deliver(r)
<1> USE DEF Receive
<1>1. written \in [Requests -> Seq(1 .. MaxChunks)] /\ written[r] \in Seq(1 .. MaxChunks)
      /\ queue[r] \in Seq(1 .. MaxChunks) /\ queue[r] # <<>>
  BY DEF IInv, TypeOK
<1>2. /\ \A i \in 1 .. Len(queue[r]) : queue[r][i] = Len(written[r]) + i
      /\ emitted[r] = Len(written[r]) + Len(queue[r]) + (IF Carrying(r) THEN 1 ELSE 0)
  BY DEF IInv, StreamInv, Streaming
<1>3. Len(written[r]) \in Nat /\ Len(queue[r]) \in Nat \ {0} /\ Head(queue[r]) = queue[r][1]
  BY ONLY <1>1
<1>4. Head(queue[r]) = Len(written[r]) + 1 /\ Len(written[r]) < emitted[r]
  <2>1. PICK k, n, e, c : k = Len(written[r]) /\ n = Len(queue[r]) /\ e = emitted[r]
                          /\ c = IF Carrying(r) THEN 1 ELSE 0
    OBVIOUS
  <2>2. k \in Nat /\ n \in Nat \ {0} /\ c \in Nat /\ e = k + n + c
    BY ONLY <1>2, <1>3, <2>1
  <2>3. k < e
    BY ONLY <2>2
  <2>4. \A i \in 1 .. n : queue[r][i] = k + i
    BY ONLY <1>2, <2>1
  <2>5. queue[r][1] = k + 1
    BY ONLY <2>2, <2>4
  <2> QED
    BY ONLY <1>3, <2>1, <2>3, <2>5
<1>5. written' = [written EXCEPT ![r] = Append(@, Len(@) + 1)]
  BY <1>4
<1>6. \A q \in Requests : Outcome(q)' = Outcome(q)
  BY DEF Outcome, Goto, IInv, TypeOK
<1>7. [q \in Requests |-> Outcome(q)]' = [q \in Requests |-> Outcome(q)]
  BY <1>6
<1>8. Outcome(r) = "open"
  BY DEF Outcome
<1> QED
  BY <1>4, <1>5, <1>7, <1>8 DEF AbstractRelay!Deliver, browserVars

\* A closed channel is read empty only when everything sent was delivered.
LEMMA ReceiveClosedRefines ==
  ASSUME IInv, NEW r \in Requests, ReceiveClosed(r)
  PROVE  AbstractRelay!Complete(r)
<1> USE DEF ReceiveClosed, Goto
<1>s. pc[r] \in Streaming
  BY DEF Streaming
<1>1. ~Carrying(r) /\ answer[r] = "ended"
  <2>1. agent[r] \in Agents
    BY DEF IInv, FreshInv
  <2> QED
    BY <2>1 DEF IInv, Carrying, FlightInv, ClosedInv
<1>2. emitted[r] = Len(written[r]) + Len(queue[r]) + 0
  BY <1>s, <1>1 DEF IInv, StreamInv
<1>3. Len(written[r]) \in Nat /\ Len(queue[r]) = 0
  BY DEF IInv, TypeOK
<1>4. emitted[r] = Len(written[r])
  BY ONLY <1>2, <1>3
<1>5. \A q \in Requests : Outcome(q)' = IF q = r THEN "complete" ELSE Outcome(q)
  BY DEF Outcome, IInv, TypeOK
<1>6. [q \in Requests |-> Outcome(q)]'
      = [[q \in Requests |-> Outcome(q)] EXCEPT ![r] = "complete"]
  BY <1>5
<1>7. Outcome(r) = "open"
  BY DEF Outcome
<1> QED
  BY <1>1, <1>4, <1>6, <1>7 DEF AbstractRelay!Complete, browserVars

\* What the browser sends extends its answer, or ends it.
LEMMA ReadRefines ==
  ASSUME IInv, NEW a \in Agents, Read(a)
  PROVE  \E r \in Requests : AbstractRelay!Produce(r) \/ AbstractRelay!Seal(r)
<1>1. PICK m \in Message : Emit(a, m)
  BY DEF Read
<1>2. PICK r \in Requests : r = m.req
  BY DEF Message
<1>3. m.n \in 0 .. MaxChunks
  BY DEF Message
<1>4. emitted \in [Requests -> 0 .. MaxChunks] /\ answer \in [Requests -> Progress]
  BY DEF IInv, TypeOK
<1>5. UNCHANGED <<written, pc>>
  BY DEF Read, reqVars
<1>6. [q \in Requests |-> Outcome(q)]' = [q \in Requests |-> Outcome(q)]
  BY <1>5 DEF Outcome
<1>7. CASE m.kind = "end"
  <2>1. answer[r] # "ended" /\ answer' = [answer EXCEPT ![r] = "ended"] /\ emitted' = emitted
    BY <1>1, <1>2, <1>7 DEF Emit
  <2>2. [q \in Requests |-> answer[q] = "ended"]'
        = [[q \in Requests |-> answer[q] = "ended"] EXCEPT ![r] = TRUE]
    BY <1>4, <2>1
  <2> QED
    BY <1>5, <1>6, <2>1, <2>2 DEF AbstractRelay!Seal
<1>8. CASE m.kind # "end"
  <2>1. answer[r] = "running" /\ emitted[r] + 1 = m.n
        /\ emitted' = [emitted EXCEPT ![r] = m.n]
        /\ answer' = IF m.kind = "chunk" THEN answer ELSE [answer EXCEPT ![r] = "finished"]
    BY <1>1, <1>2, <1>8 DEF Emit
  <2>2. emitted[r] < MaxChunks /\ emitted' = [emitted EXCEPT ![r] = @ + 1]
    <3>1. emitted[r] \in 0 .. MaxChunks /\ emitted[r] + 1 = m.n /\ MaxChunks \in Nat
      BY ONLY <1>2, <1>4, <2>1, ChanAssumption
    <3>2. emitted[r] < MaxChunks
      BY ONLY <1>3, <3>1
    <3> QED
      BY ONLY <2>1, <3>1, <3>2
  <2>3. \A q \in Requests : answer'[q] = "ended" <=> answer[q] = "ended"
    BY <1>4, <2>1
  <2>4. [q \in Requests |-> answer[q] = "ended"]' = [q \in Requests |-> answer[q] = "ended"]
    BY <2>3
  <2> QED
    BY <1>5, <1>6, <2>1, <2>2, <2>4 DEF AbstractRelay!Produce
<1> QED
  BY <1>7, <1>8

\* Every step of the broker is a step of the relay or changes nothing it shows.
LEMMA NextRefines ==
  IInv /\ [Next]_vars => [AbstractRelay!Next]_(AbstractRelay!relayVars)
<1> SUFFICES ASSUME IInv, [Next]_vars
    PROVE  AbstractRelay!Next \/ UNCHANGED AbstractRelay!relayVars
  OBVIOUS
<1> USE DEF Goto, lockVars, managerVars, chanVars, reqVars, loopVars, browserVars
<1>t. pc \in [Requests -> ReqStep] /\ answer \in [Requests -> Progress]
  BY DEF IInv, TypeOK
<1>1. ASSUME NEW r \in Requests, Receive(r) PROVE AbstractRelay!Next
  BY <1>1, ReceiveRefines DEF AbstractRelay!Next
<1>2. ASSUME NEW r \in Requests, ReceiveClosed(r) PROVE AbstractRelay!Next
  BY <1>2, ReceiveClosedRefines DEF AbstractRelay!Next
<1>3. ASSUME NEW a \in Agents, Read(a) PROVE AbstractRelay!Next
  BY <1>3, ReadRefines DEF AbstractRelay!Next
<1>4. ASSUME NEW r \in Requests, Refuse(r) \/ SendFails(r) \/ Timeout(r)
      PROVE  AbstractRelay!Next
  <2>1. Outcome(r) = "open" /\ Outcome(r)' = "aborted"
    BY <1>4, <1>t DEF Refuse, SendFails, Timeout, Outcome
  <2>2. \A q \in Requests \ {r} : Outcome(q)' = Outcome(q)
    BY <1>4, <1>t DEF Refuse, SendFails, Timeout, Outcome
  <2>3. UNCHANGED <<emitted, answer, written>>
    BY <1>4 DEF Refuse, SendFails, Timeout
  <2> QED
    BY <2>1, <2>2, <2>3, Aborts DEF AbstractRelay!Next
<1>5. ASSUME NEW r \in Requests, Send(r) PROVE UNCHANGED AbstractRelay!relayVars
  <2>1. answer[r] = "none"
    BY <1>5 DEF Send, IInv, FreshInv
  <2>2. \A q \in Requests : (answer'[q] = "ended" <=> answer[q] = "ended")
                            /\ Outcome(q)' = Outcome(q)
    BY <1>5, <1>t, <2>1 DEF Send, Outcome
  <2>3. /\ [q \in Requests |-> answer[q] = "ended"]' = [q \in Requests |-> answer[q] = "ended"]
        /\ [q \in Requests |-> Outcome(q)]' = [q \in Requests |-> Outcome(q)]
    BY <2>2
  <2> QED
    BY <1>5, <2>3 DEF Send, AbstractRelay!relayVars
<1>6. ASSUME NEW r \in Requests,
             \/ Arrive(r) \/ BindChat(r) \/ Register(r) \/ TimeoutUnlock(r)
             \/ Unwind(r) \/ Release(r) \/ Flushed(r)
             \/ \E a \in Agents : Pick(r, a) \/ PassOver(r, a)
      PROVE  UNCHANGED AbstractRelay!relayVars
  <2>1. UNCHANGED <<emitted, answer, written>>
    BY <1>6
    DEF Arrive, BindChat, Register, TimeoutUnlock, Unwind, Release, Flushed, Pick, PassOver
  <2>2. \A q \in Requests \ {r} : pc'[q] = pc[q]
    BY <1>6, <1>t
    DEF Arrive, BindChat, Register, TimeoutUnlock, Unwind, Release, Flushed, Pick, PassOver
  <2>3. \A q \in Requests : Outcome(q)' = Outcome(q)
    <3>1. Outcome(r)' = Outcome(r)
      <4>1. CASE Unwind(r)
        <5>1. \/ pc[r] = "drained" /\ pc'[r] = "served"
              \/ pc[r] = "unwind" /\ pc'[r] \in {"release", "aborted"}
          <6>1. Goto(r, IF pc[r] = "drained" THEN "served"
                        ELSE IF answer[r] = "none" THEN "release" ELSE "aborted")
            BY <4>1 DEF Unwind
          <6>2. CASE pc[r] = "drained"
            BY <1>t, <6>1, <6>2
          <6>3. CASE pc[r] = "unwind"
            BY <1>t, <6>1, <6>3
          <6> QED
            BY <4>1, <6>2, <6>3 DEF Unwind
        <5> QED
          BY <5>1 DEF Outcome
      <4>2. CASE Flushed(r)
        BY <1>t, <4>2 DEF Flushed, Outcome
      <4>3. CASE \E a \in Agents : Pick(r, a) \/ PassOver(r, a)
        BY <1>t, <4>3 DEF Pick, PassOver, Outcome
      <4>4. CASE Arrive(r) \/ BindChat(r) \/ Register(r) \/ TimeoutUnlock(r) \/ Release(r)
        BY <1>t, <4>4 DEF Arrive, BindChat, Register, TimeoutUnlock, Release, Outcome
      <4> QED
        BY <1>6, <4>1, <4>2, <4>3, <4>4
    <3> QED
      BY <2>2, <3>1 DEF Outcome
  <2> QED
    BY <2>1, <2>3, Stutters
<1>7. ASSUME NEW a \in Agents,
             AddAgent(a) \/ ReadFails(a) \/ LoopMoves(a) \/ Watchdog(a)
      PROVE  UNCHANGED AbstractRelay!relayVars
  <2>1. UNCHANGED <<emitted, answer, written, pc>>
    BY <1>7 DEF AddAgent, ReadFails, LoopMoves, Watchdog, MessageUnlock, Lookup, Ignore,
       ForwardChunk, ForwardEnd, RemoveAgent, WatchdogFires, ForceUnlock
  <2> QED
    BY <2>1, Stutters DEF Outcome
<1>8. CASE UNCHANGED vars
  BY <1>8, Stutters DEF vars, Outcome
<1> QED
  BY <1>1, <1>2, <1>3, <1>4, <1>5, <1>6, <1>7, <1>8 DEF Next, RequestMoves, WriteReturns

(* The broker relays each answer in order, without gaps, and whole when the *)
(* request ends normally: it implements Relay, for any number of agents,    *)
(* requests and chunks and whatever the capacity of the channels.           *)
THEOREM Relays == Spec => RelaysAnswers
<1>1. Spec => AbstractRelay!Init /\ [][AbstractRelay!Next]_(AbstractRelay!relayVars)
  BY InitRefines, NextRefines, Invariance, PTL DEF Spec
<1> QED
  BY <1>1 DEF RelaysAnswers, AbstractRelay!Spec
=============================================================================
