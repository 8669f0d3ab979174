---------------------------- MODULE VideoStream -----------------------------
(***************************************************************************)
(* StreamVideoProxy: one request for a file of Size bytes, proxied with a  *)
(* loop that copies what upstream sends, a buffer at a time, until the end,*)
(* until the client has gone, or until the limit it computed for itself:   *)
(* when the client asked for one range and upstream ignored that, sending  *)
(* the whole file with 200, the answer is turned into a 206 of that range. *)
(*                                                                         *)
(* Bytes are known by their position in the file.  Upstream's body is a run*)
(* of positions and the client gets a prefix of it, so that two numbers    *)
(* say what was delivered.  Upstream and client are external: upstream may *)
(* honour or ignore a range, stall or break at any moment; the client may  *)
(* leave at any moment, or stay and stop reading.  Two servers run this    *)
(* handler, and only the second sets a write timeout (twimg.go:519), so    *)
(* nothing is assumed of one.                                              *)
(***************************************************************************)
EXTENDS Integers, FiniteSets

CONSTANTS
  Size,     \* bytes of the file
  Buf       \* bytes of the copy buffer (32 KiB)

ASSUME SizeAssumption == Size \in Nat \ {0}
ASSUME BufAssumption == Buf \in Nat \ {0}

VARIABLES
  method, range,          \* what the client asks for
  step,                   \* of the handler
  body, length,           \* upstream's answer: status, first position and number
                          \* of bytes of the body; its Content-Length, or Unknown
  status, limit,          \* what the handler answers and the most it copies
  pulled, copied,         \* bytes read from upstream, bytes written to the client
  chunk, last,            \* of the current round: bytes read, rerr # nil
  broken,                 \* upstream's body failed
  gone, expired,          \* the request's context: client left, 30 minutes passed
  late,                   \* history: reads started after the client had left
  aborted                 \* videoAbortedCount of this request

askVars  == <<method, range>>
bodyVars == <<body, length, status, limit>>
loopVars == <<pulled, copied, chunk, last, broken>>
ctxVars  == <<gone, expired>>
vars == <<askVars, step, bodyVars, loopVars, ctxVars, late, aborted>>

Positions == 0 .. Size - 1
Unknown == -1
Unbounded == -1
Cancelled == gone \/ expired

(* The forms of a Range header; "other" stands for one of several ranges or *)
(* one that cannot be parsed.                                               *)
None         == [form |-> "none"]
Other        == [form |-> "other"]
Span(a, b)   == [form |-> "span", a |-> a, b |-> b]
From(a)      == [form |-> "from", a |-> a]
LastBytes(n) == [form |-> "suffix", n |-> n]
Numbers == 0 .. Size + 1
Ranges == {None, Other} \cup {Span(a, b) : a, b \in Numbers}
            \cup {From(a) : a \in Numbers} \cup {LastBytes(n) : n \in Numbers}

(* The positions a well-formed range asks for.                              *)
Asked(rng) ==
  CASE rng.form = "span" -> {p \in Positions : rng.a <= p /\ p <= rng.b}
    [] rng.form = "from" -> {p \in Positions : rng.a <= p}
    [] rng.form = "suffix" -> {p \in Positions : Size - rng.n <= p}
    [] OTHER -> Positions

NotARange == [start |-> 0, end |-> 0, suffix |-> 0, bounded |-> FALSE]
singleRange(rng) ==
  CASE rng.form = "span" /\ rng.a <= rng.b ->
         [start |-> rng.a, end |-> rng.b, suffix |-> 0, bounded |-> TRUE]
    [] rng.form = "from" -> [start |-> rng.a, end |-> 0, suffix |-> 0, bounded |-> TRUE]
    [] rng.form = "suffix" /\ rng.n > 0 ->
         [start |-> 0, end |-> 0, suffix |-> rng.n, bounded |-> TRUE]
    [] OTHER -> NotARange
----------------------------------------------------------------------------
(* The end of the request's context.                                        *)

ClientLeaves ==
  /\ ~gone /\ step # "done"
  /\ gone' = TRUE
  /\ UNCHANGED <<askVars, step, bodyVars, loopVars, expired, late, aborted>>

\* Mutant: the deadline covers the request for headers only.
ExpireEarly ==
  /\ ~expired /\ step \in {"arrive", "headers"}
  /\ expired' = TRUE
  /\ UNCHANGED <<askVars, step, bodyVars, loopVars, gone, late, aborted>>

\* context.WithTimeout: the deadline passes.
Expire ==
  /\ ~expired /\ step # "done"
  /\ expired' = TRUE
  /\ UNCHANGED <<askVars, step, bodyVars, loopVars, gone, late, aborted>>
----------------------------------------------------------------------------
Arrive ==
  /\ step = "arrive"
  /\ IF Cancelled
       THEN step' = "done" /\ status' = 499
       ELSE step' = "headers" /\ UNCHANGED status
  /\ UNCHANGED <<askVars, body, length, limit, loopVars, ctxVars, late, aborted>>

\* client.Do fails: no connection, no header in time, or cancelled.
RequestFails ==
  /\ step = "headers"
  /\ step' = "done"
  /\ status' = IF Cancelled THEN 499 ELSE 502
  /\ UNCHANGED <<askVars, body, length, limit, loopVars, ctxVars, late, aborted>>

FirstOf(S) == CHOOSE p \in S : \A q \in S : p <= q

(* What upstream may answer: the whole file with or without its length, the *)
(* range if there is one to honour, or an error without a body.             *)
Answers ==
  LET n == Cardinality(Asked(range))
  IN {[code |-> 200, first |-> 0, bytes |-> Size, length |-> l] : l \in {Size, Unknown}}
     \cup {[code |-> 404, first |-> 0, bytes |-> 0, length |-> 0]}
     \cup (IF singleRange(range).bounded /\ n > 0
             THEN {[code |-> 206, first |-> FirstOf(Asked(range)), bytes |-> n, length |-> l] : l \in {n, Unknown}}
             ELSE {})

(* The range r0..r1 of the rewritten answer, as a number of bytes.          *)
Clamped(req, total) ==
  IF req.suffix > 0
    THEN req.suffix
    ELSE (IF req.end >= total THEN total - 1 ELSE req.end) - req.start + 1

Rewrites(req, code, total) ==
  /\ req.bounded /\ code = 200 /\ total >= 0
  /\ IF req.suffix > 0 THEN req.suffix < total ELSE req.start < total

\* Mutant: a range that ends behind the file is rewritten as it stands.
RewriteUnclamped(ans) ==
  LET req == singleRange(range) IN
  IF Rewrites(req, ans.code, ans.length)
    THEN status' = 206 /\ limit' = req.end - req.start + 1
    ELSE status' = ans.code /\ limit' = Unbounded

\* A limit below 0 is what the loop takes for no limit at all.
Rewrite(ans) ==
  LET req == singleRange(range) IN
  IF Rewrites(req, ans.code, ans.length)
    THEN status' = 206 /\ limit' = Clamped(req, ans.length)
    ELSE status' = ans.code /\ limit' = Unbounded

UpstreamAnswers ==
  /\ step = "headers"
  /\ \E ans \in Answers :
       /\ body' = [code |-> ans.code, first |-> ans.first,
                   bytes |-> IF method = "HEAD" THEN 0 ELSE ans.bytes]
       /\ length' = ans.length
       /\ Rewrite(ans)
  /\ step' = "loop"
  /\ UNCHANGED <<askVars, loopVars, ctxVars, late, aborted>>
----------------------------------------------------------------------------
(* The copy loop.                                                           *)

Limited == limit >= 0
Full == Limited /\ copied >= limit

\* Mutant: the client is looked for only before the first read.
NextRoundUnchecked ==
  /\ step = "loop"
  /\ step' = IF Full \/ (Cancelled /\ pulled = 0) THEN "end" ELSE "read"
  /\ UNCHANGED <<askVars, bodyVars, loopVars, ctxVars, late, aborted>>

NextRound ==
  /\ step = "loop"
  /\ step' = IF Full \/ Cancelled THEN "end" ELSE "read"
  /\ UNCHANGED <<askVars, bodyVars, loopVars, ctxVars, late, aborted>>

CountLate == late' = IF gone THEN late + 1 ELSE late

\* The end of the body may come with the last bytes or after them.
Read ==
  /\ step = "read"
  /\ \E n \in 1 .. Buf :
       /\ pulled + n <= body.bytes
       /\ pulled' = pulled + n
       /\ chunk' = n
       /\ last' \in {FALSE, pulled + n = body.bytes}
  /\ step' = "write"
  /\ CountLate
  /\ UNCHANGED <<askVars, bodyVars, copied, broken, ctxVars, aborted>>

ReadEnds ==
  /\ step = "read" /\ pulled = body.bytes
  /\ step' = "end"
  /\ CountLate
  /\ UNCHANGED <<askVars, bodyVars, loopVars, ctxVars, aborted>>

ReadFails ==
  /\ step = "read"
  /\ broken' = TRUE
  /\ step' = "end"
  /\ CountLate
  /\ UNCHANGED <<askVars, bodyVars, pulled, copied, chunk, last, ctxVars, aborted>>

\* Mutant: a chunk that crosses the limit is written whole.
PieceWhole == chunk

\* The part of the chunk that the limit leaves.
Piece == IF Limited /\ copied + chunk > limit THEN limit - copied ELSE chunk

\* Mutant: the last chunk is dropped when the end came with it.
WriteUnlessLast ==
  /\ step = "write"
  /\ copied' = IF last THEN copied ELSE copied + Piece
  /\ step' = IF last THEN "end" ELSE "loop"
  /\ UNCHANGED <<askVars, bodyVars, pulled, chunk, last, broken, ctxVars, late, aborted>>

Write ==
  /\ step = "write"
  /\ copied' = copied + Piece
  /\ step' = IF last THEN "end" ELSE "loop"
  /\ UNCHANGED <<askVars, bodyVars, pulled, chunk, last, broken, ctxVars, late, aborted>>

\* The client has gone, or took nothing until the write timeout of its server.
WriteFails ==
  /\ step = "write"
  /\ step' = "cut"
  /\ UNCHANGED <<askVars, bodyVars, loopVars, ctxVars, late, aborted>>

\* Mutant: only a failed write counts as an abort.
FinishUncancelled ==
  /\ step \in {"end", "cut"}
  /\ aborted' = (step = "cut")
  /\ step' = "done"
  /\ UNCHANGED <<askVars, bodyVars, loopVars, ctxVars, late>>

Finish ==
  /\ step \in {"end", "cut"}
  /\ aborted' = (step = "cut" \/ Cancelled)
  /\ step' = "done"
  /\ UNCHANGED <<askVars, bodyVars, loopVars, ctxVars, late>>
----------------------------------------------------------------------------
Init ==
  /\ method \in {"GET", "HEAD"}
  /\ range \in Ranges
  /\ step = "arrive"
  /\ body = [code |-> 0, first |-> 0, bytes |-> 0] /\ length = Unknown
  /\ status = 0 /\ limit = Unbounded
  /\ pulled = 0 /\ copied = 0 /\ chunk = 0 /\ last = FALSE /\ broken = FALSE
  /\ gone = FALSE /\ expired = FALSE
  /\ late = 0 /\ aborted = FALSE

Next ==
  \/ ClientLeaves \/ Expire
  \/ Arrive \/ RequestFails \/ UpstreamAnswers
  \/ NextRound \/ Read \/ ReadEnds \/ ReadFails
  \/ Write \/ WriteFails \/ Finish

Spec == Init /\ [][Next]_vars

(* The handler runs on.  A request is answered or fails: the transport gives*)
(* up waiting for headers, and the context ends the wait for a connection.  *)
(* The context expires, and a cancelled context ends a read that would wait *)
(* for ever; without that, a read need not return.  A write need not return *)
(* at all: the context does not end it, and not every server times it out.  *)
FairSpec ==
  /\ Spec
  /\ WF_vars(Arrive) /\ WF_vars(RequestFails \/ UpstreamAnswers)
  /\ WF_vars(Expire)
  /\ WF_vars(NextRound) /\ WF_vars(Cancelled /\ ReadFails)
  /\ WF_vars(Finish)
----------------------------------------------------------------------------
TypeOK ==
  /\ method \in {"GET", "HEAD"} /\ range \in Ranges
  /\ step \in {"arrive", "headers", "loop", "read", "write", "end", "cut", "done"}
  /\ body \in [code : {0, 200, 206, 404}, first : Positions, bytes : 0 .. Size]
  /\ length \in Unknown .. Size
  /\ status \in {0, 200, 206, 404, 499, 502} /\ limit \in -Size .. Size
  /\ pulled \in 0 .. Size /\ copied \in 0 .. Size /\ chunk \in 0 .. Buf
  /\ {last, broken, gone, expired, aborted} \subseteq BOOLEAN
  /\ late \in Nat

Delivered == {body.first + i : i \in 0 .. copied - 1}
Rewritten == status # body.code

(* Of an answer cut down to a range, no more than the range is written, and *)
(* upstream is read no further than the buffer that holds its end (the loop *)
(* of StreamVideoProxy and its clamp).                                      *)
ReadsNoFurther == Limited => copied <= limit /\ pulled < limit + Buf

(* A client that leaves stops the transfer: between its leaving and the end *)
(* at most one read, the one the check in front of it came too early for.   *)
StopsOnDisconnect == late <= 1

(* An answer that is a passthrough, or cut down to a range bytes=0-b, and   *)
(* that was neither aborted nor broken off, delivers the bytes it should:   *)
(* what upstream sent, and the range asked for.                             *)
RightBytes ==
  step = "done" /\ method = "GET" /\ status \in {200, 206, 404} /\ ~aborted /\ ~broken =>
    /\ ~Rewritten => copied = body.bytes
    /\ Rewritten /\ range.form = "span" /\ range.a = 0 => Delivered = Asked(range)
    /\ status = 206 /\ ~Rewritten => Delivered = Asked(range)

(* An answer that was cut short is counted in videoAbortedCount unless it   *)
(* was upstream that broke off, and so is every one whose client has left.  *)
AbortsCounted ==
  step = "done" /\ status \in {200, 206, 404} =>
    /\ aborted \/ broken \/ method = "HEAD" \/ copied = IF Limited THEN limit ELSE body.bytes
    /\ gone => aborted

(* The handler ends whatever upstream does or fails to do.  Of the clients  *)
(* only one that keeps its connection and never reads on can hold it up:    *)
(* the 30 minutes of the context do not reach into a write.                 *)
HandlerEnds == <>(step = "done") \/ <>[](step = "write")

(* "the 200 is rewritten as 206 + Content-Range, and only the bytes of the  *)
(* requested range are read" (video_stream.go:99-101): a 206 delivers the   *)
(* range asked for.                                                         *)
RangeDelivered ==
  step = "done" /\ method = "GET" /\ status = 206 /\ ~aborted /\ ~broken =>
    Delivered = Asked(range)
=============================================================================
