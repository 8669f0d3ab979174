------------------------- MODULE VideoStreamProofs -------------------------
(***************************************************************************)
(* What StreamVideoProxy guarantees for a file and a buffer of any size.   *)
(* The loop is in balance at its head: what was read has been written, cut *)
(* to the limit.  A read starts only below the limit and from a client that*)
(* was there when the loop looked.                                         *)
(***************************************************************************)
EXTENDS VideoStream, FiniteSetTheorems, TLAPS

Answered == body.code # 0
Sent == {body.first + i : i \in 0 .. body.bytes - 1}
Cut(n) == IF Limited /\ n > limit THEN limit ELSE n

\* What upstream answered, and the status and limit made of it.
AnswerInv ==
  /\ Answered =>
       \/ status = body.code /\ limit = Unbounded
       \/ /\ body.code = 200 /\ status = 206
          /\ Rewrites(singleRange(range), 200, Size)
          /\ limit = Clamped(singleRange(range), Size)
  /\ ~Answered => status \in {0, 499, 502} /\ limit = Unbounded
  /\ body.code = 200 => body.first = 0 /\ (method = "GET" => body.bytes = Size)
  /\ body.code = 206 /\ method = "GET" => Sent = Asked(range)

\* Before the answer nothing was copied.
EarlyInv ==
  /\ step \in {"arrive", "headers"} => ~Answered
  /\ step \in {"loop", "read", "write", "end", "cut"} => Answered
  /\ ~Answered => pulled = 0 /\ copied = 0
  /\ aborted => step = "done"

\* Written is what was read, up to the limit.
CopyInv ==
  /\ step \in {"loop", "read"} => copied = Cut(pulled)
  /\ step = "read" => (Limited => pulled < limit)
  /\ step = "write" => /\ copied = pulled - chunk
                       /\ Limited => copied < limit
                       /\ last => pulled = body.bytes
  /\ pulled <= body.bytes /\ copied <= pulled
  /\ Limited => copied <= limit /\ pulled < limit + Buf

\* The loop ends with the client, the limit, a failure or the end of the body.
EndInv ==
  /\ step = "end" => Cancelled \/ broken \/ Full
                       \/ (pulled = body.bytes /\ copied = Cut(pulled))
  /\ step = "done" /\ Answered =>
       /\ aborted \/ broken \/ Full \/ (pulled = body.bytes /\ copied = Cut(pulled))
       /\ gone => aborted

\* The client is looked for before each read: one that starts late is the last.
LateInv == late # 0 => late = 1 /\ gone /\ step \in {"loop", "write", "end", "cut", "done"}

IInv == TypeOK /\ AnswerInv /\ EarlyInv /\ CopyInv /\ EndInv /\ LateInv
----------------------------------------------------------------------------
USE SizeAssumption, BufAssumption DEF Unbounded, Unknown, Positions

\* A parsed range keeps the numbers of the header; only one that is none is unbounded.
LEMMA SingleRangeType ==
  ASSUME NEW rng \in Ranges
  PROVE  /\ singleRange(rng) \in [start : Numbers, end : Numbers,
                                  suffix : Numbers, bounded : BOOLEAN]
         /\ singleRange(rng).bounded => rng.form \in {"span", "from", "suffix"}
<1>1. CASE rng \in {None, Other}
  BY <1>1 DEF None, Other, singleRange, NotARange, Numbers
<1>2. CASE \E a, b \in Numbers : rng = Span(a, b)
  BY <1>2 DEF Span, singleRange, NotARange, Numbers
<1>3. CASE \E a \in Numbers : rng = From(a)
  BY <1>3 DEF From, singleRange, NotARange, Numbers
<1>4. CASE \E n \in Numbers : rng = LastBytes(n)
  BY <1>4 DEF LastBytes, singleRange, NotARange, Numbers
<1> QED
  BY <1>1, <1>2, <1>3, <1>4 DEF Ranges

\* The bytes a range asks for are consecutive.
LEMMA AskedInterval ==
  ASSUME NEW rng \in Ranges, rng.form \in {"span", "from", "suffix"}
  PROVE  \E lo \in 0 .. Size + 1, hi \in -1 .. Size - 1 : Asked(rng) = lo .. hi
<1>1. CASE \E a, b \in Numbers : rng = Span(a, b)
  <2>1. PICK a \in Numbers, b \in Numbers : rng = Span(a, b)
    BY <1>1
  <2>2. CASE b >= Size
    <3>1. Asked(rng) = a .. Size - 1
      BY <2>1, <2>2 DEF Asked, Span, Numbers
    <3> QED
      BY <3>1 DEF Numbers
  <2>3. CASE b < Size
    <3>1. Asked(rng) = a .. b
      BY <2>1, <2>3 DEF Asked, Span, Numbers
    <3> QED
      BY <2>3, <3>1 DEF Numbers
  <2> QED
    BY <2>2, <2>3 DEF Numbers
<1>2. CASE \E a \in Numbers : rng = From(a)
  <2>1. PICK a \in Numbers : rng = From(a)
    BY <1>2
  <2>2. Asked(rng) = a .. Size - 1
    BY <2>1 DEF Asked, From, Numbers
  <2> QED
    BY <2>2 DEF Numbers
<1>3. CASE \E n \in Numbers : rng = LastBytes(n)
  <2>1. PICK n \in Numbers : rng = LastBytes(n)
    BY <1>3
  <2> DEFINE lo == IF n > Size THEN 0 ELSE Size - n
  <2>2. Asked(rng) = lo .. Size - 1
    BY <2>1 DEF Asked, LastBytes, Numbers
  <2>3. lo \in 0 .. Size + 1
    BY DEF Numbers
  <2> QED
    BY <2>2, <2>3
<1> QED
  BY <1>1, <1>2, <1>3 DEF Ranges, None, Other

\* What upstream sends when it honours a range are the bytes asked for.
LEMMA HonouredRange ==
  ASSUME NEW rng \in Ranges, rng.form \in {"span", "from", "suffix"},
         Cardinality(Asked(rng)) > 0
  PROVE  /\ FirstOf(Asked(rng)) \in Positions
         /\ Cardinality(Asked(rng)) \in 0 .. Size
         /\ {FirstOf(Asked(rng)) + i : i \in 0 .. Cardinality(Asked(rng)) - 1} = Asked(rng)
<1>1. PICK lo \in 0 .. Size + 1, hi \in -1 .. Size - 1 : Asked(rng) = lo .. hi
  BY AskedInterval
<1>2. Cardinality(lo .. hi) = IF lo > hi THEN 0 ELSE hi - lo + 1
  BY FS_Interval
<1>3. lo <= hi /\ Cardinality(Asked(rng)) = hi - lo + 1
  BY <1>1, <1>2
<1>4. FirstOf(lo .. hi) = lo
  BY <1>3 DEF FirstOf
<1>5. {lo + i : i \in 0 .. hi - lo} = lo .. hi
  <2>1. ASSUME NEW q \in lo .. hi PROVE q \in {lo + i : i \in 0 .. hi - lo}
    <3>1. q - lo \in 0 .. hi - lo /\ q = lo + (q - lo)
      OBVIOUS
    <3> QED
      BY <3>1
  <2> QED
    BY <2>1
<1>6. Cardinality(Asked(rng)) - 1 = hi - lo
  BY <1>3
<1>7. {FirstOf(Asked(rng)) + i : i \in 0 .. Cardinality(Asked(rng)) - 1} = Asked(rng)
  BY <1>1, <1>4, <1>5, <1>6
<1>8. lo \in 0 .. Size - 1 /\ hi - lo + 1 \in 0 .. Size
  BY <1>3
<1> QED
  BY <1>1, <1>3, <1>4, <1>7, <1>8
----------------------------------------------------------------------------
\* The limit of a rewritten answer is a number of bytes of the file, or below 1.
LEMMA LimitType ==
  ASSUME NEW rng \in Ranges, Rewrites(singleRange(rng), 200, Size)
  PROVE  /\ Clamped(singleRange(rng), Size) \in -Size .. Size
         /\ rng.form = "span" /\ rng.a = 0 =>
              /\ Clamped(singleRange(rng), Size) > 0
              /\ Clamped(singleRange(rng), Size) =
                   IF rng.b >= Size THEN Size ELSE rng.b + 1
              /\ rng.b \in Nat
<1>1. CASE rng \in {None, Other}
  BY <1>1 DEF None, Other, singleRange, NotARange, Rewrites
<1>2. CASE \E a, b \in Numbers : rng = Span(a, b)
  BY <1>2 DEF Span, singleRange, NotARange, Numbers, Rewrites, Clamped
<1>3. CASE \E a \in Numbers : rng = From(a)
  BY <1>3 DEF From, singleRange, NotARange, Numbers, Rewrites, Clamped
<1>4. CASE \E n \in Numbers : rng = LastBytes(n)
  BY <1>4 DEF LastBytes, singleRange, NotARange, Numbers, Rewrites, Clamped
<1> QED
  BY <1>1, <1>2, <1>3, <1>4 DEF Ranges

\* Before the first read the loop is within any limit.
LEMMA NothingCopied == \A n \in Int : n >= 0 => 0 <= n /\ 0 < n + Buf
  OBVIOUS

LEMMA InitIInv == Init => IInv
<1> SUFFICES ASSUME Init PROVE IInv
  OBVIOUS
<1>1. TypeOK
  <2>1. {last, broken, gone, expired, aborted} \subseteq BOOLEAN
    BY DEF Init
  <2>2. body \in [code : {0, 200, 206, 404}, first : Positions, bytes : 0 .. Size]
    BY DEF Init
  <2> QED
    BY <2>1, <2>2 DEF Init, TypeOK
<1> QED
  BY <1>1 DEF Init, IInv, AnswerInv, EarlyInv, CopyInv, EndInv, LateInv,
              Answered, Limited, Full, Cut

LEMMA NextIInv == IInv /\ [Next]_vars => IInv'
<1> SUFFICES ASSUME IInv, [Next]_vars PROVE IInv'
  OBVIOUS
<1> USE DEF IInv, EarlyInv, LateInv, Answered, Cancelled, Full, Cut,
            askVars, bodyVars, loopVars, ctxVars
<1>1. CASE ClientLeaves
  <2>1. TypeOK'
    BY <1>1 DEF ClientLeaves, TypeOK
  <2>2. AnswerInv' /\ CopyInv' /\ EndInv'
    BY <1>1 DEF ClientLeaves, AnswerInv, Sent, CopyInv, EndInv, Limited
  <2> QED
    BY <1>1, <2>1, <2>2 DEF ClientLeaves
<1>2. CASE Expire
  <2>1. TypeOK'
    BY <1>2 DEF Expire, TypeOK
  <2>2. AnswerInv' /\ CopyInv' /\ EndInv'
    BY <1>2 DEF Expire, AnswerInv, Sent, CopyInv, EndInv, Limited
  <2> QED
    BY <1>2, <2>1, <2>2 DEF Expire
<1>3. CASE Arrive
  <2>1. TypeOK'
    BY <1>3 DEF Arrive, TypeOK
  <2>2. AnswerInv' /\ CopyInv' /\ EndInv'
    BY <1>3 DEF Arrive, AnswerInv, Sent, CopyInv, EndInv, Limited
  <2> QED
    BY <1>3, <2>1, <2>2 DEF Arrive
<1>4. CASE RequestFails
  <2>1. TypeOK'
    BY <1>4 DEF RequestFails, TypeOK
  <2>2. AnswerInv' /\ CopyInv' /\ EndInv'
    BY <1>4 DEF RequestFails, AnswerInv, Sent, CopyInv, EndInv, Limited
  <2> QED
    BY <1>4, <2>1, <2>2 DEF RequestFails
<1>5. CASE UpstreamAnswers
  <2> USE <1>5 DEF UpstreamAnswers
  <2>1. PICK ans \in Answers :
          /\ body' = [code |-> ans.code, first |-> ans.first,
                      bytes |-> IF method = "HEAD" THEN 0 ELSE ans.bytes]
          /\ length' = ans.length
          /\ Rewrite(ans)
    OBVIOUS
  <2>2. /\ ans.code \in {200, 206, 404} /\ ans.first \in Positions
        /\ ans.bytes \in 0 .. Size /\ ans.length \in Unknown .. Size
        /\ ans.code = 200 => ans.first = 0 /\ ans.bytes = Size /\ ans.length \in {Size, Unknown}
        /\ ans.code = 206 => {ans.first + i : i \in 0 .. ans.bytes - 1} = Asked(range)
    <3>1. CASE ans.code = 206
      <4>1. range \in Ranges /\ range.form \in {"span", "from", "suffix"}
            /\ Cardinality(Asked(range)) > 0
        BY <3>1, SingleRangeType DEF TypeOK, Answers
      <4>2. ans.bytes = Cardinality(Asked(range))
            /\ ans.first = FirstOf(Asked(range))
            /\ ans.length \in {ans.bytes, Unknown}
        BY <3>1 DEF Answers
      <4> QED
        BY <3>1, <4>1, <4>2, HonouredRange
    <3>2. CASE ans.code # 206
      BY <3>2 DEF Answers
    <3> QED
      BY <3>1, <3>2
  <2>3. \/ status' = ans.code /\ limit' = Unbounded
        \/ /\ ans.code = 200 /\ status' = 206
           /\ Rewrites(singleRange(range), 200, Size)
           /\ limit' = Clamped(singleRange(range), Size)
    BY <2>1, <2>2 DEF Rewrite, Rewrites
  <2>4. status' \in {200, 206, 404} /\ limit' \in -Size .. Size
    BY <2>2, <2>3, LimitType DEF TypeOK
  <2>5. TypeOK'
    BY <2>1, <2>2, <2>4 DEF TypeOK
  <2>6. AnswerInv'
    BY <2>1, <2>2, <2>3 DEF AnswerInv, Sent, TypeOK
  <2>7. CopyInv' /\ EndInv'
    <3>1. pulled' = 0 /\ copied' = 0 /\ step' = "loop"
      OBVIOUS
    <3>2. body'.bytes \in Nat
      BY <2>5 DEF TypeOK
    <3>3. limit' \in Int
      BY <2>4
    <3>a. Cut(pulled)' = 0
      BY <3>1, <3>3 DEF Limited
    <3>b. pulled' <= body'.bytes
      BY <3>1, <3>2
    <3>c. Limited' => copied' <= limit' /\ pulled' < limit' + Buf
      BY <3>1, <3>3, NothingCopied DEF Limited
    <3>4. CopyInv'
      BY <3>1, <3>a, <3>b, <3>c DEF CopyInv
    <3>5. EndInv'
      BY <3>1 DEF EndInv
    <3> QED
      BY <3>4, <3>5
  <2>8. EarlyInv' /\ LateInv'
    BY <2>1, <2>2
  <2> QED
    BY <2>5, <2>6, <2>7, <2>8
<1>6. CASE NextRound
  <2>1. TypeOK'
    BY <1>6 DEF NextRound, TypeOK
  <2>2. AnswerInv'
    BY <1>6 DEF NextRound, AnswerInv, Sent
  <2>3. CopyInv' /\ EndInv'
    BY <1>6 DEF NextRound, CopyInv, EndInv, Limited, TypeOK
  <2> QED
    BY <1>6, <2>1, <2>2, <2>3 DEF NextRound
<1>7. CASE Read
  <2>1. PICK n \in 1 .. Buf :
          /\ pulled + n <= body.bytes /\ pulled' = pulled + n /\ chunk' = n
          /\ last' \in {FALSE, pulled + n = body.bytes}
    BY <1>7 DEF Read
  <2>2. TypeOK'
    <3>1. last' \in BOOLEAN
      BY <2>1
    <3>2. {last, broken, gone, expired, aborted}' \subseteq BOOLEAN
      BY <1>7, <3>1 DEF Read, TypeOK
    <3>3. pulled' \in 0 .. Size /\ chunk' \in 0 .. Buf /\ late' \in Nat
      BY <1>7, <2>1 DEF Read, CountLate, TypeOK
    <3> QED
      BY <1>7, <3>2, <3>3 DEF Read, TypeOK
  <2>3. AnswerInv'
    BY <1>7 DEF Read, AnswerInv, Sent
  <2>4. CopyInv' /\ EndInv'
    <3>1. last' => pulled' = body.bytes
      BY <2>1
    <3>2. copied = pulled /\ copied' = copied /\ limit' = limit /\ body' = body
      BY <1>7 DEF Read, CopyInv, Limited, TypeOK
    <3>3. CopyInv'
      BY <1>7, <2>1, <3>1, <3>2 DEF Read, CopyInv, Limited, TypeOK
    <3>4. EndInv'
      BY <1>7 DEF Read, EndInv
    <3> QED
      BY <3>3, <3>4
  <2>5. EarlyInv' /\ LateInv'
    BY <1>7 DEF Read, CountLate, TypeOK
  <2> QED
    BY <2>2, <2>3, <2>4, <2>5
<1>8. CASE ReadEnds
  <2>1. TypeOK'
    BY <1>8 DEF ReadEnds, CountLate, TypeOK
  <2>2. AnswerInv'
    BY <1>8 DEF ReadEnds, AnswerInv, Sent
  <2>3. CopyInv' /\ EndInv'
    BY <1>8 DEF ReadEnds, CopyInv, EndInv, Limited, TypeOK
  <2>4. EarlyInv' /\ LateInv'
    BY <1>8 DEF ReadEnds, CountLate, TypeOK
  <2> QED
    BY <2>1, <2>2, <2>3, <2>4
<1>9. CASE ReadFails
  <2>1. TypeOK'
    BY <1>9 DEF ReadFails, CountLate, TypeOK
  <2>2. AnswerInv'
    BY <1>9 DEF ReadFails, AnswerInv, Sent
  <2>3. CopyInv' /\ EndInv'
    BY <1>9 DEF ReadFails, CopyInv, EndInv, Limited, TypeOK
  <2>4. EarlyInv' /\ LateInv'
    BY <1>9 DEF ReadFails, CountLate, TypeOK
  <2> QED
    BY <2>1, <2>2, <2>3, <2>4
<1>10. CASE Write
  <2>1. copied' = Cut(pulled) /\ copied' <= pulled /\ copied' \in 0 .. Size
        /\ (Limited => copied' <= limit)
    BY <1>10 DEF Write, Piece, CopyInv, Limited, TypeOK
  <2>2. TypeOK'
    BY <1>10, <2>1 DEF Write, TypeOK
  <2>3. AnswerInv'
    BY <1>10 DEF Write, AnswerInv, Sent
  <2>4. CopyInv' /\ EndInv'
    BY <1>10, <2>1 DEF Write, CopyInv, EndInv, Limited, TypeOK
  <2> QED
    BY <1>10, <2>2, <2>3, <2>4 DEF Write
<1>11. CASE WriteFails
  <2>1. TypeOK'
    BY <1>11 DEF WriteFails, TypeOK
  <2>2. AnswerInv' /\ CopyInv' /\ EndInv'
    BY <1>11 DEF WriteFails, AnswerInv, Sent, CopyInv, EndInv, Limited
  <2> QED
    BY <1>11, <2>1, <2>2 DEF WriteFails
<1>12. CASE Finish
  <2>1. TypeOK'
    BY <1>12 DEF Finish, TypeOK
  <2>2. AnswerInv' /\ CopyInv'
    BY <1>12 DEF Finish, AnswerInv, Sent, CopyInv, Limited
  <2>3. EndInv'
    BY <1>12 DEF Finish, EndInv, Limited
  <2> QED
    BY <1>12, <2>1, <2>2, <2>3 DEF Finish
<1>13. CASE UNCHANGED vars
  BY <1>13 DEF vars, TypeOK, AnswerInv, Sent, CopyInv, EndInv, Limited
<1> QED
  BY <1>1, <1>2, <1>3, <1>4, <1>5, <1>6, <1>7, <1>8, <1>9, <1>10, <1>11, <1>12,
     <1>13 DEF Next

LEMMA IInvHolds == Spec => []IInv
<1> QED
  BY InitIInv, NextIInv, PTL DEF Spec
----------------------------------------------------------------------------
(* Every variable keeps its type; no byte is counted that is not of the     *)
(* file, and a limit is never more than the file (StreamVideoProxy).        *)
THEOREM TypeCorrect == Spec => []TypeOK
<1>1. IInv => TypeOK
  BY DEF IInv
<1> QED
  BY IInvHolds, <1>1, PTL

(* For any size of file and buffer, an answer cut down to a range never gets*)
(* more than its limit, and upstream is read less than a buffer beyond it.  *)
THEOREM NoOverread == Spec => []ReadsNoFurther
<1>1. IInv => ReadsNoFurther
  BY DEF IInv, CopyInv, ReadsNoFurther
<1> QED
  BY IInvHolds, <1>1, PTL

(* After the client has left, at most one more read of upstream starts.     *)
THEOREM DisconnectStops == Spec => []StopsOnDisconnect
<1>1. IInv => StopsOnDisconnect
  BY DEF IInv, LateInv, TypeOK, StopsOnDisconnect
<1> QED
  BY IInvHolds, <1>1, PTL

(* Every answer that stops short of what it announced, and every one whose  *)
(* client has left, is counted as aborted, unless upstream broke off.       *)
THEOREM AbortsAreCounted == Spec => []AbortsCounted
<1>1. IInv => AbortsCounted
  <2> SUFFICES ASSUME IInv, step = "done", status \in {200, 206, 404}
               PROVE  /\ aborted \/ broken \/ method = "HEAD"
                           \/ copied = IF Limited THEN limit ELSE body.bytes
                      /\ gone => aborted
    BY DEF AbortsCounted
  <2> USE DEF IInv, Answered
  <2>1. Answered
    BY DEF AnswerInv
  <2>2. Limited /\ method = "GET" => limit <= body.bytes
    BY <2>1, LimitType DEF AnswerInv, Limited, TypeOK
  <2> QED
    BY <2>1, <2>2 DEF EndInv, CopyInv, Full, Cut, Limited, TypeOK
<1> QED
  BY IInvHolds, <1>1, PTL

(* A passthrough delivers what upstream sent, the range asked for when it   *)
(* is a 206, and a rewritten answer from byte 0 on delivers its range.      *)
THEOREM BytesRight == Spec => []RightBytes
<1>1. IInv => RightBytes
  <2> SUFFICES ASSUME IInv, step = "done", method = "GET", status \in {200, 206, 404},
                      ~aborted, ~broken
               PROVE  /\ ~Rewritten => copied = body.bytes
                      /\ Rewritten /\ range.form = "span" /\ range.a = 0
                           => Delivered = Asked(range)
                      /\ status = 206 /\ ~Rewritten => Delivered = Asked(range)
    BY DEF RightBytes
  <2> USE DEF IInv, Answered
  <2>1. Answered
    BY DEF AnswerInv
  <2>2. Full \/ (pulled = body.bytes /\ copied = Cut(pulled))
    BY <2>1 DEF EndInv
  <2>3. ASSUME ~Rewritten PROVE copied = body.bytes
    BY <2>1, <2>2, <2>3 DEF AnswerInv, Rewritten, Full, Cut, Limited
  <2>4. ASSUME Rewritten, range.form = "span", range.a = 0
        PROVE  Delivered = Asked(range)
    <3>1. /\ body.first = 0 /\ body.bytes = Size
          /\ limit = IF range.b >= Size THEN Size ELSE range.b + 1
          /\ limit > 0 /\ range.b \in Nat
      BY <2>1, <2>4, LimitType DEF AnswerInv, Rewritten, TypeOK
    <3>2. copied = limit
      BY <2>2, <3>1 DEF Full, Cut, Limited, CopyInv, TypeOK
    <3>3. Asked(range) = 0 .. limit - 1
      BY <2>4, <3>1 DEF Asked
    <3>4. Delivered = {0 + i : i \in 0 .. limit - 1}
      BY <3>1, <3>2 DEF Delivered
    <3> QED
      BY <3>3, <3>4, <3>1
  <2>5. ASSUME status = 206, ~Rewritten PROVE Delivered = Asked(range)
    BY <2>3, <2>5 DEF AnswerInv, Rewritten, Delivered, Sent
  <2> QED
    BY <2>3, <2>4, <2>5
<1> QED
  BY IInvHolds, <1>1, PTL
=============================================================================
