---------------------------- MODULE QwenBroker -----------------------------
(***************************************************************************)
(* The qwen broker: HTTP requests for a chat are executed by browser       *)
(* agents, each connected by one websocket.  A request goroutine           *)
(* (handleChatAPI) locks an idle agent, registers a channel under its      *)
(* request id, sends an execute command and copies the channel to its      *)
(* client.  One goroutine per agent (handleWS) reads the browser's         *)
(* messages, unlocks the agent when an answer is finished and forwards     *)
(* each message to the channel of its request.  A watchdog timer unlocks   *)
(* an agent that stays locked.                                             *)
(*                                                                         *)
(* The browser is not part of the repository.  It is taken to run what it  *)
(* is sent: the answer to a request is a series of chunks, the last one    *)
(* perhaps marked finished, and then one done (or error) message.  A       *)
(* message is chosen when the loop reads it; it was sent before that.      *)
(* Nothing obliges a browser to answer, or a browser or a client to read:  *)
(* no connection has a write deadline.  Time is abstracted away: the       *)
(* 3-minute watchdog may fire whenever it is armed, and the 300-second     *)
(* timeout whenever a request is parked on an empty channel - or neither   *)
(* ever, when Slow is FALSE.                                               *)
(***************************************************************************)
EXTENDS Naturals, Sequences, FiniteSets

CONSTANTS
  Agents, Requests, Chats,
  ChanCap,     \* capacity of a request's channel (100)
  MaxChunks,   \* bound: chunks of one answer
  Slow,        \* whether anything may take the minutes that timers wait for
  NoChat,      \* a request without a chat id
  None         \* no agent

ASSUME ChanAssumption ==
  ChanCap \in Nat \ {0} /\ MaxChunks \in Nat /\ Slow \in BOOLEAN
ASSUME NoneAssumption == None \notin Agents /\ NoChat \notin Chats

VARIABLES
  agents,      \* manager.Agents
  chatRoute,   \* manager.ChatRoute, None where a chat has no entry
  busy,        \* IsBusy
  timer,       \* timer[a]: BusyTimer is armed
  fired,       \* fired[a]: watchdog callbacks started that have not yet unlocked
  streams,     \* requests registered in the ActiveStreams of their agent
  queue,       \* queue[r]: what is buffered in the channel of r
  closed,      \* closed[r]: that channel is closed
  pc, chat, agent, tried,   \* of each request: step, chat id, agent, agents tried
  written,     \* written[r]: chunks r has taken up and written to its client
  loop, msg, found,         \* of each agent's loop: step, message, lookup result
  emitted,     \* emitted[r]: chunks the browser has sent for r
  answer       \* answer[r]: how far the browser is with r

managerVars == <<agents, chatRoute>>
lockVars    == <<busy, timer, fired>>
chanVars    == <<streams, queue, closed>>
reqVars     == <<pc, chat, agent, tried, written>>
loopVars    == <<loop, msg, found>>
browserVars == <<emitted, answer>>
vars == <<managerVars, lockVars, chanVars, reqVars, loopVars, browserVars>>

ReqStep == {"idle", "scan", "bind", "register", "write", "stream", "flush", "timeout",
            "drained", "unwind", "release", "served", "aborted", "refused"}
Blocked == {"write", "flush"}   \* at a write that its peer may hold up
LoopStep == {"off", "read", "unlock", "lookup", "forward", "remove", "gone"}
Progress == {"none", "running", "finished", "ended"}
Kind == {"chunk", "finished", "end"}   \* "end" is a done or an error message
Message == [req : Requests, kind : Kind, n : 0 .. MaxChunks]
NoMessage == [kind |-> "nothing"]

Goto(r, step) == pc' = [pc EXCEPT ![r] = step]
LoopTo(a, step) == loop' = [loop EXCEPT ![a] = step]
----------------------------------------------------------------------------
(* BrowserAgent: the busy flag and its watchdog.                            *)

\* Mutant: a locked agent gets no watchdog.
TryLockUnwatched(a) ==
  /\ ~busy[a]
  /\ busy' = [busy EXCEPT ![a] = TRUE]
  /\ UNCHANGED <<timer, fired>>

\* The old timer is stopped, a new one armed.
TryLock(a) ==
  /\ ~busy[a]
  /\ busy' = [busy EXCEPT ![a] = TRUE]
  /\ timer' = [timer EXCEPT ![a] = TRUE]
  /\ UNCHANGED fired

\* Mutant: the timer is stopped but the flag stays set.
UnlockKeepsBusy(a) ==
  /\ timer' = [timer EXCEPT ![a] = FALSE]
  /\ UNCHANGED <<busy, fired>>

\* Stopping a timer does not recall a callback that has started.
Unlock(a) ==
  /\ busy' = [busy EXCEPT ![a] = FALSE]
  /\ timer' = [timer EXCEPT ![a] = FALSE]
  /\ UNCHANGED fired

WatchdogFires(a) ==
  /\ Slow /\ timer[a]
  /\ timer' = [timer EXCEPT ![a] = FALSE]
  /\ fired' = [fired EXCEPT ![a] = @ + 1]
  /\ UNCHANGED <<busy, managerVars, chanVars, reqVars, loopVars, browserVars>>

ForceUnlock(a) ==
  /\ fired[a] > 0
  /\ fired' = [fired EXCEPT ![a] = @ - 1]
  /\ busy' = [busy EXCEPT ![a] = FALSE]
  /\ UNCHANGED <<timer, managerVars, chanVars, reqVars, loopVars, browserVars>>
----------------------------------------------------------------------------
(* handleChatAPI, with PickAndLockAgent and BindChat.                       *)

\* manager.Lock is held for reading during a scan; a writer waits for it.
NoReader == \A q \in Requests : pc[q] # "scan"

\* A request comes in; PickAndLockAgent takes the read lock.
Arrive(r) ==
  /\ pc[r] = "idle"
  /\ \E c \in Chats \cup {NoChat} : chat' = [chat EXCEPT ![r] = c]
  /\ Goto(r, "scan")
  /\ UNCHANGED <<managerVars, lockVars, chanVars, agent, tried, written, loopVars, browserVars>>

\* The agents to try: the one the chat sticks to, or all, in random order.
Sticky(r) == chat[r] \in Chats /\ chatRoute[chat[r]] \in agents
Candidates(r) == IF Sticky(r) THEN {chatRoute[chat[r]]} ELSE agents

Pick(r, a) ==
  /\ pc[r] = "scan"
  /\ a \in Candidates(r) \ tried[r]
  /\ TryLock(a)
  /\ agent' = [agent EXCEPT ![r] = a]
  /\ tried' = [tried EXCEPT ![r] = {}]
  /\ Goto(r, "bind")
  /\ UNCHANGED <<managerVars, chanVars, chat, written, loopVars, browserVars>>

PassOver(r, a) ==
  /\ pc[r] = "scan"
  /\ a \in Candidates(r) \ tried[r]
  /\ busy[a]
  /\ tried' = [tried EXCEPT ![r] = @ \cup {a}]
  /\ UNCHANGED <<managerVars, lockVars, chanVars, pc, chat, agent, written, loopVars, browserVars>>

\* No agent, or every one found busy when it was tried: 503.
Refuse(r) ==
  /\ pc[r] = "scan"
  /\ Candidates(r) \subseteq tried[r]
  /\ tried' = [tried EXCEPT ![r] = {}]
  /\ chat' = [chat EXCEPT ![r] = NoChat]
  /\ Goto(r, "refused")
  /\ UNCHANGED <<managerVars, lockVars, chanVars, agent, written, loopVars, browserVars>>

BindChat(r) ==
  /\ pc[r] = "bind"
  /\ IF chat[r] = NoChat
       THEN UNCHANGED chatRoute
       ELSE NoReader /\ chatRoute' = [chatRoute EXCEPT ![chat[r]] = agent[r]]
  /\ Goto(r, "register")
  /\ chat' = [chat EXCEPT ![r] = NoChat]
  /\ UNCHANGED <<agents, lockVars, chanVars, agent, tried, written, loopVars, browserVars>>

Register(r) ==
  /\ pc[r] = "register"
  /\ streams' = streams \cup {r}
  /\ Goto(r, "write")
  /\ UNCHANGED <<managerVars, lockVars, queue, closed, chat, agent, tried, written, loopVars, browserVars>>

\* WriteJSON succeeds; the browser will have the command, if it still lives.
\* The ResponseWriter of this server can always flush, so the streaming begins.
Send(r) ==
  /\ pc[r] = "write"
  /\ loop[agent[r]] # "gone"
  /\ answer' = [answer EXCEPT ![r] = "running"]
  /\ Goto(r, "stream")
  /\ UNCHANGED <<managerVars, lockVars, chanVars, chat, agent, tried, written, loopVars, emitted>>

\* WriteJSON fails: 500, and the deferred calls run, the last deferred first.
SendFails(r) ==
  /\ pc[r] = "write"
  /\ Goto(r, "unwind")
  /\ UNCHANGED <<managerVars, lockVars, chanVars, chat, agent, tried, written, loopVars, browserVars>>

\* Mutant: the handler may leave early with its channel still registered.
ReceiveOrLeave(r) ==
  /\ pc[r] = "stream"
  /\ queue[r] # <<>>
  /\ \/ /\ written' = [written EXCEPT ![r] = Append(@, Head(queue[r]))]
        /\ queue' = [queue EXCEPT ![r] = Tail(@)]
        /\ Goto(r, "flush")
     \/ Goto(r, "served") /\ UNCHANGED <<written, queue>>
  /\ UNCHANGED <<managerVars, lockVars, streams, closed, chat, agent, tried, loopVars, browserVars>>

\* A chunk is taken from the channel and its write to the client begins.
Receive(r) ==
  /\ pc[r] = "stream"
  /\ queue[r] # <<>>
  /\ written' = [written EXCEPT ![r] = Append(@, Head(queue[r]))]
  /\ queue' = [queue EXCEPT ![r] = Tail(@)]
  /\ Goto(r, "flush")
  /\ UNCHANGED <<managerVars, lockVars, streams, closed, chat, agent, tried, loopVars, browserVars>>

\* Fprint and Flush return, an error unnoticed, and the timeout is set anew.
Flushed(r) ==
  /\ pc[r] = "flush"
  /\ Goto(r, "stream")
  /\ UNCHANGED <<managerVars, lockVars, chanVars, chat, agent, tried, written, loopVars, browserVars>>

\* The channel is closed and drained: the answer ends normally.
ReceiveClosed(r) ==
  /\ pc[r] = "stream"
  /\ queue[r] = <<>> /\ closed[r]
  /\ Goto(r, "drained")
  /\ UNCHANGED <<managerVars, lockVars, chanVars, chat, agent, tried, written, loopVars, browserVars>>

\* Mutant: only a connected agent is timed out.
TimeoutConnected(r) ==
  /\ Slow /\ pc[r] = "stream" /\ agent[r] \in agents
  /\ queue[r] = <<>> /\ ~closed[r]
  /\ Goto(r, "timeout")
  /\ UNCHANGED <<managerVars, lockVars, chanVars, chat, agent, tried, written, loopVars, browserVars>>

\* Nothing came for 300 seconds.
Timeout(r) ==
  /\ Slow /\ pc[r] = "stream"
  /\ queue[r] = <<>> /\ ~closed[r]
  /\ Goto(r, "timeout")
  /\ UNCHANGED <<managerVars, lockVars, chanVars, chat, agent, tried, written, loopVars, browserVars>>

TimeoutUnlock(r) ==
  /\ pc[r] = "timeout"
  /\ Unlock(agent[r])
  /\ Goto(r, "unwind")
  /\ UNCHANGED <<managerVars, chanVars, chat, agent, tried, written, loopVars, browserVars>>

\* The deferred delete; then, unless the command was sent, the deferred unlock.
Unwind(r) ==
  /\ pc[r] \in {"unwind", "drained"}
  /\ streams' = streams \ {r}
  /\ Goto(r, IF pc[r] = "drained" THEN "served"
             ELSE IF answer[r] = "none" THEN "release" ELSE "aborted")
  /\ UNCHANGED <<managerVars, lockVars, queue, closed, chat, agent, tried, written, loopVars, browserVars>>

Release(r) ==
  /\ pc[r] = "release"
  /\ Unlock(agent[r])
  /\ Goto(r, "aborted")
  /\ UNCHANGED <<managerVars, chanVars, chat, agent, tried, written, loopVars, browserVars>>
----------------------------------------------------------------------------
(* handleWS.                                                                *)

AddAgent(a) ==
  /\ loop[a] = "off" /\ NoReader
  /\ agents' = agents \cup {a}
  /\ LoopTo(a, "read")
  /\ UNCHANGED <<chatRoute, lockVars, chanVars, reqVars, msg, found, browserVars>>

\* The next message of a browser about a request it was sent.
Emit(a, m) ==
  LET r == m.req IN
  /\ agent[r] = a
  /\ \/ /\ m.kind \in {"chunk", "finished"} /\ answer[r] = "running"
        /\ m.n = emitted[r] + 1
        /\ answer' = IF m.kind = "chunk" THEN answer ELSE [answer EXCEPT ![r] = "finished"]
        /\ emitted' = [emitted EXCEPT ![r] = m.n]
     \/ /\ m.kind = "end" /\ answer[r] \in {"running", "finished"}
        /\ m.n = 0
        /\ answer' = [answer EXCEPT ![r] = "ended"]
        /\ UNCHANGED emitted

Read(a) ==
  /\ loop[a] = "read"
  /\ \E m \in Message :
       /\ Emit(a, m)
       /\ msg' = [msg EXCEPT ![a] = m]
       /\ LoopTo(a, IF m.kind = "chunk" THEN "lookup" ELSE "unlock")
  /\ UNCHANGED <<managerVars, lockVars, chanVars, reqVars, found>>

\* The connection is lost.
ReadFails(a) ==
  /\ loop[a] = "read"
  /\ LoopTo(a, "remove")
  /\ UNCHANGED <<managerVars, lockVars, chanVars, reqVars, msg, found, browserVars>>

\* A done, an error or a finished chunk unlocks the agent.
MessageUnlock(a) ==
  /\ loop[a] = "unlock"
  /\ Unlock(a)
  /\ LoopTo(a, "lookup")
  /\ UNCHANGED <<managerVars, chanVars, reqVars, msg, found, browserVars>>

Lookup(a) ==
  /\ loop[a] = "lookup"
  /\ found' = [found EXCEPT ![a] = msg[a].req \in streams]
  /\ LoopTo(a, "forward")
  /\ UNCHANGED <<managerVars, lockVars, chanVars, reqVars, msg, browserVars>>

NextRead(a) ==
  /\ LoopTo(a, "read")
  /\ msg' = [msg EXCEPT ![a] = NoMessage]
  /\ found' = [found EXCEPT ![a] = FALSE]

Ignore(a) ==
  /\ loop[a] = "forward" /\ ~found[a]
  /\ NextRead(a)
  /\ UNCHANGED <<managerVars, lockVars, chanVars, reqVars, browserVars>>

\* Mutant: a chunk that does not fit is dropped.
ForwardChunkOrDrop(a) ==
  /\ loop[a] = "forward" /\ found[a] /\ msg[a].kind # "end"
  /\ LET r == msg[a].req IN
       queue' = IF Len(queue[r]) < ChanCap
                  THEN [queue EXCEPT ![r] = Append(@, msg[a].n)] ELSE queue
  /\ NextRead(a)
  /\ UNCHANGED <<managerVars, lockVars, streams, closed, reqVars, browserVars>>

\* Mutant: a finished chunk closes the channel, and so does the done after it.
ForwardChunkAndClose(a) ==
  /\ loop[a] = "forward" /\ found[a] /\ msg[a].kind # "end"
  /\ LET r == msg[a].req IN
       /\ Len(queue[r]) < ChanCap
       /\ queue' = [queue EXCEPT ![r] = Append(@, msg[a].n)]
       /\ closed' = [closed EXCEPT ![r] = msg[a].kind = "finished"]
  /\ NextRead(a)
  /\ UNCHANGED <<managerVars, lockVars, streams, reqVars, browserVars>>

\* The send blocks while the channel is full.
ForwardChunk(a) ==
  /\ loop[a] = "forward" /\ found[a] /\ msg[a].kind # "end"
  /\ LET r == msg[a].req IN
       /\ Len(queue[r]) < ChanCap
       /\ queue' = [queue EXCEPT ![r] = Append(@, msg[a].n)]
  /\ NextRead(a)
  /\ UNCHANGED <<managerVars, lockVars, streams, closed, reqVars, browserVars>>

\* Mutant: a done message is sent on instead of closing the channel.
ForwardEndAsChunk(a) ==
  /\ loop[a] = "forward" /\ found[a] /\ msg[a].kind = "end"
  /\ queue' = [queue EXCEPT ![msg[a].req] = Append(@, msg[a].n)]
  /\ NextRead(a)
  /\ UNCHANGED <<managerVars, lockVars, streams, closed, reqVars, browserVars>>

ForwardEnd(a) ==
  /\ loop[a] = "forward" /\ found[a] /\ msg[a].kind = "end"
  /\ closed' = [closed EXCEPT ![msg[a].req] = TRUE]
  /\ NextRead(a)
  /\ UNCHANGED <<managerVars, lockVars, streams, queue, reqVars, browserVars>>

\* The deferred RemoveAgent, with the chats routed to the agent, and Close.
RemoveAgent(a) ==
  /\ loop[a] = "remove" /\ NoReader
  /\ agents' = agents \ {a}
  /\ chatRoute' = [c \in Chats |-> IF chatRoute[c] = a THEN None ELSE chatRoute[c]]
  /\ LoopTo(a, "gone")
  /\ UNCHANGED <<lockVars, chanVars, reqVars, msg, found, browserVars>>
----------------------------------------------------------------------------
Init ==
  /\ agents = {} /\ chatRoute = [c \in Chats |-> None]
  /\ busy = [a \in Agents |-> FALSE]
  /\ timer = [a \in Agents |-> FALSE]
  /\ fired = [a \in Agents |-> 0]
  /\ streams = {}
  /\ queue = [r \in Requests |-> <<>>] /\ closed = [r \in Requests |-> FALSE]
  /\ pc = [r \in Requests |-> "idle"]
  /\ chat = [r \in Requests |-> NoChat]
  /\ agent = [r \in Requests |-> None]
  /\ tried = [r \in Requests |-> {}]
  /\ written = [r \in Requests |-> <<>>]
  /\ loop = [a \in Agents |-> "off"]
  /\ msg = [a \in Agents |-> NoMessage]
  /\ found = [a \in Agents |-> FALSE]
  /\ emitted = [r \in Requests |-> 0]
  /\ answer = [r \in Requests |-> "none"]

RequestMoves(r) ==
  \/ \E a \in Agents : Pick(r, a) \/ PassOver(r, a)
  \/ Refuse(r) \/ BindChat(r) \/ Register(r)
  \/ Receive(r) \/ ReceiveClosed(r) \/ Timeout(r) \/ TimeoutUnlock(r)
  \/ Unwind(r) \/ Release(r)

\* A write ends when the peer reads on or its connection breaks.
WriteReturns(r) == Send(r) \/ SendFails(r) \/ Flushed(r)

LoopMoves(a) ==
  \/ MessageUnlock(a) \/ Lookup(a) \/ Ignore(a) \/ ForwardChunk(a)
  \/ ForwardEnd(a) \/ RemoveAgent(a)

Watchdog(a) == WatchdogFires(a) \/ ForceUnlock(a)

Next ==
  \/ \E r \in Requests : Arrive(r) \/ RequestMoves(r) \/ WriteReturns(r)
  \/ \E a \in Agents : AddAgent(a) \/ Read(a) \/ ReadFails(a) \/ LoopMoves(a)
  \/ \E a \in Agents : Watchdog(a)

Spec == Init /\ [][Next]_vars

(***************************************************************************)
(* A goroutine that can run does run, and an armed timer fires.  Nothing   *)
(* is asked of browsers or clients: none has to connect, answer, close or  *)
(* read what it is sent, so no write has to return.                        *)
(***************************************************************************)
Fairness ==
  /\ \A r \in Requests : WF_vars(RequestMoves(r))
  /\ \A a \in Agents : WF_vars(LoopMoves(a)) /\ WF_vars(Watchdog(a))

FairSpec == Spec /\ Fairness
----------------------------------------------------------------------------
(* Properties.                                                              *)

TypeOK ==
  /\ agents \subseteq Agents
  /\ chatRoute \in [Chats -> Agents \cup {None}]
  /\ busy \in [Agents -> BOOLEAN] /\ timer \in [Agents -> BOOLEAN]
  /\ fired \in [Agents -> Nat]
  /\ streams \subseteq Requests
  /\ queue \in [Requests -> Seq(1 .. MaxChunks)]
  /\ closed \in [Requests -> BOOLEAN]
  /\ pc \in [Requests -> ReqStep]
  /\ chat \in [Requests -> Chats \cup {NoChat}]
  /\ agent \in [Requests -> Agents \cup {None}]
  /\ tried \in [Requests -> SUBSET Agents]
  /\ written \in [Requests -> Seq(1 .. MaxChunks)]
  /\ loop \in [Agents -> LoopStep]
  /\ msg \in [Agents -> Message \cup {NoMessage}]
  /\ found \in [Agents -> BOOLEAN]
  /\ emitted \in [Requests -> 0 .. MaxChunks]
  /\ answer \in [Requests -> Progress]

(* An agent that is locked will be unlocked whatever its browser and its    *)
(* request do: at every moment a watchdog is armed or about to unlock it.   *)
BusyIsWatched == \A a \in Agents : busy[a] => timer[a] \/ fired[a] > 0

(* handleWS never sends on a closed channel or closes one twice, which      *)
(* would end the process: the lookup and the use of the channel are not     *)
(* atomic, and a request may give up between them.                          *)
NoPanic ==
  \A a \in Agents : loop[a] = "forward" /\ found[a] => ~closed[msg[a].req]

(* A locked agent becomes free again.                                       *)
AgentFreed == \A a \in Agents : busy[a] ~> ~busy[a]

(* Every request ends: it is refused, served, or given up, even when its    *)
(* agent disconnects and nobody will ever close its channel.  Only a peer   *)
(* that stops reading and keeps its connection can hold it up for good, in  *)
(* a write without a deadline.                                              *)
RequestEnds ==
  \A r \in Requests :
    [](pc[r] = "scan" =>
         \/ <>(pc[r] \in {"served", "aborted", "refused"})
         \/ <>[](pc[r] \in Blocked))

(* A slow client delays its agent's loop, and the loop goes back to reading *)
(* as soon as that client reads on.  Two things block it for good at a full *)
(* channel: a client that never reads again, and a request that gave up     *)
(* between the lookup of its channel and the send.                          *)
LoopReturns ==
  \A a \in Agents :
    [](loop[a] = "forward" =>
         \/ <>(loop[a] = "read")
         \/ <>[](loop[a] = "forward" /\ pc[msg[a].req] \in {"aborted", "flush"}))

Outcome(r) ==
  CASE pc[r] \in {"drained", "served"} -> "complete"
    [] pc[r] \in {"aborted", "refused", "unwind", "release", "timeout"} -> "aborted"
    [] OTHER -> "open"

AbstractRelay == INSTANCE Relay WITH
  Clients   <- Requests,
  produced  <- emitted,
  sealed    <- [r \in Requests |-> answer[r] = "ended"],
  delivered <- written,
  outcome   <- [r \in Requests |-> Outcome(r)]

(* The broker relays each answer as Relay promises: in order, without gaps, *)
(* and whole when the request ends normally, however the messages of several*)
(* answers, disconnects and timeouts interleave.                            *)
RelaysAnswers == AbstractRelay!Spec

(* An agent executes one request at a time: a request takes it with TryLock *)
(* ("atomic", qwen.go:76), gets a 503 when all are busy (qwen.go:301), and  *)
(* leaves the unlocking to the loop that sees its answer end (qwen.go:350). *)
OneRequestPerAgent ==
  \A q, r \in Requests :
    answer[q] = "running" /\ answer[r] = "running" /\ agent[q] = agent[r] => q = r
=============================================================================
