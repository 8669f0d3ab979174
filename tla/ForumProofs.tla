------------------------------ MODULE ForumProofs ------------------------------
(***************************************************************************)
(* Proofs about Forum, for any number of concurrent requests and any size  *)
(* of the tables.  What is known of one request (Sound) survives the steps *)
(* of all others because rows keep their place and their parent, and what  *)
(* is deleted stays so; the counts follow from the sets they count.        *)
(***************************************************************************)
EXTENDS Forum, FiniteSetTheorems, TLAPS

Request == [op : Op, tid : 0 .. MaxNo, bid : -1 .. 1, no : 0 .. MaxNo]
Row == [r : 0 .. MaxNo, del : BOOLEAN]

(* The tables and the history: listed threads are topics, what was posted   *)
(* is listed, and so is the thread of a reply that was counted.             *)
TablesSound ==
  /\ \A t \in DOMAIN board : thread[t].r = 0
  /\ posted \subseteq DOMAIN board
  /\ \A n \in counted : thread[n].r \in DOMAIN board

(* A handler that writes goes on with the row it inserted.                  *)
WriterSound(p) ==
  /\ pc[p] \in {"toBoard", "count"} =>
       req[p].no \in Nos /\ thread[req[p].no].r = req[p].tid
  /\ pc[p] = "toBoard" => req[p].tid = 0

(* What a reader has gathered was not deleted when it arrived, nor were the *)
(* threads it is about to read; the thread it is asked for was checked.     *)
ReaderSound(p) ==
  /\ rows[p] \subseteq Nos /\ todo[p] \subseteq Nos
  /\ known[p].posted \subseteq posted /\ known[p].deleted \subseteq Deleted
  /\ pc[p] \notin {"read", "done"} => rows[p] = {}
  /\ pc[p] = "idle" => head[p] = "start" /\ list[p] = "start" /\ todo[p] = {}
  /\ pc[p] = "read" => \/ req[p].op = "thread" /\ req[p].tid > 0
                       \/ req[p].op = "board" /\ req[p].tid = 0
  /\ pc[p] = "read" /\ req[p].op = "thread" =>
       /\ todo[p] = {}
       /\ \A n \in rows[p] : n \notin known[p].deleted /\ thread[n].r = req[p].tid
       /\ head[p] \in {"parent", "num", "ok"} =>
            req[p].tid \in Nos /\ req[p].tid \notin known[p].deleted
       /\ head[p] = "parent" => thread[req[p].tid].r # 0
       /\ head[p] = "num" => thread[req[p].tid].r = 0
       /\ head[p] = "ok" => thread[req[p].tid].r \notin known[p].deleted
  /\ pc[p] = "read" /\ req[p].op = "board" =>
       /\ \A n \in rows[p] : {n, thread[n].r} \cap known[p].deleted = {}
       /\ todo[p] \cap known[p].deleted = {}
       /\ head[p] \in {"start", "ok"}
  /\ pc[p] = "done" => \A n \in rows[p] : {n, thread[n].r} \cap known[p].deleted = {}
  /\ pc[p] = "read" /\ head[p] = "missing" /\ req[p].tid \in known[p].posted
       => req[p].tid \in Deleted

Sound(p) == WriterSound(p) /\ ReaderSound(p)

ForumInv ==
  TypeOK /\ TablesSound /\ (\A p \in Requests : Sound(p)) /\ RepliesCounted

(* No step of a handler takes anything of this back.                        *)
RowsKept ==
  /\ Nos \subseteq Nos'
  /\ \A n \in Nos : thread'[n].r = thread[n].r /\ (thread[n].del => thread'[n].del)
  /\ posted \subseteq posted'

Same(q) ==
  /\ pc'[q] = pc[q] /\ req'[q] = req[q]
  /\ head'[q] = head[q] /\ list'[q] = list[q] /\ todo'[q] = todo[q]
  /\ rows'[q] = rows[q] /\ known'[q] = known[q]
-----------------------------------------------------------------------------
\* The numbers of the rows.
LEMMA NosType ==
  ASSUME TypeOK
  PROVE  /\ Len(thread) \in Nat /\ Nos \subseteq 1 .. MaxNo /\ 0 \notin Nos
         /\ \A n \in Nos : thread[n] \in Row
<1>1. MaxNo \in Nat /\ thread \in Seq(Row) /\ Len(thread) <= MaxNo
  BY MaxNoAssumption DEF TypeOK, Row
<1>2. Len(thread) \in Nat /\ \A n \in 1 .. Len(thread) : thread[n] \in Row
  BY <1>1
<1> QED
  BY <1>1, <1>2 DEF Nos

\* What is remembered of a request: nothing, or its kind and parameters.
LEMMA RequestTypes ==
  /\ NoRequest \in Request
  /\ \A o \in Op, t \in 0 .. MaxNo, b \in -1 .. 1 :
       [op |-> o, tid |-> t, bid |-> b, no |-> 0] \in Request
BY MaxNoAssumption DEF NoRequest, Request, Op

\* A step that touches only requests' steps and parameters keeps the types.
LEMMA RequestSteps ==
  ASSUME TypeOK, NEW p \in Requests, NEW step \in Step, NEW record \in Request,
         pc' = [pc EXCEPT ![p] = step], req' = [req EXCEPT ![p] = record]
  PROVE  pc' \in [Requests -> Step] /\ req' \in [Requests -> Request]
BY DEF TypeOK, Request

\* What is known of a request survives a step of another one.
LEMMA OthersSound ==
  ASSUME TypeOK, NEW q \in Requests, Sound(q), RowsKept, Same(q),
         req[q].no \in Nat
  PROVE  Sound(q)'
<1>1. Deleted \subseteq Deleted'
  BY DEF RowsKept, Deleted
<1>2. WriterSound(q)'
  BY DEF Sound, WriterSound, RowsKept, Same
<1>3. ReaderSound(q)'
  BY <1>1 DEF Sound, ReaderSound, RowsKept, Same
<1> QED
  BY <1>2, <1>3 DEF Sound

\* The two rules for counts that the proof of RepliesCounted needs.
LEMMA CountRules ==
  ASSUME NEW n \in Nat
  PROVE  /\ \A S \in SUBSET (1 .. n) : Cardinality(S) \in 0 .. n
         /\ \A S \in SUBSET (1 .. n) : \A T \in SUBSET S :
              Cardinality(T) <= Cardinality(S)
<1>1. IsFiniteSet(1 .. n) /\ Cardinality(1 .. n) = n
  BY FS_Interval
<1>2. \A S \in SUBSET (1 .. n) : IsFiniteSet(S) /\ Cardinality(S) <= n /\ Cardinality(S) \in Nat
  BY <1>1, FS_Subset, FS_CardinalityType
<1>3. \A S \in SUBSET (1 .. n) : \A T \in SUBSET S : Cardinality(T) <= Cardinality(S)
  BY <1>2, FS_Subset
<1> QED
  BY <1>2, <1>3
-----------------------------------------------------------------------------
\* A step that leaves the tables alone has to be looked at for one request.
LEMMA TablesAlone ==
  ASSUME ForumInv, NEW p \in Requests, UNCHANGED <<tables, posted, counted>>,
         TypeOK', Sound(p)', \A q \in Requests \ {p} : Same(q)
  PROVE  ForumInv'
<1>1. RowsKept
  BY DEF RowsKept, tables, Nos
<1>2. ASSUME NEW q \in Requests \ {p} PROVE Sound(q)'
  <2>1. req[q].no \in Nat
    BY MaxNoAssumption DEF ForumInv, TypeOK
  <2> QED
    BY <1>1, <1>2, <2>1, OthersSound DEF ForumInv
<1>3. TablesSound' /\ RepliesCounted'
  BY DEF ForumInv, TablesSound, RepliesCounted, tables, Nos, Replies, Visible
<1> QED
  BY <1>2, <1>3 DEF ForumInv

\* A request arrives; what a reader is told about later is what there is now.
LEMMA StepArrive == ASSUME ForumInv, NEW p \in Requests, Arrive(p) PROVE ForumInv'
<1>1. PICK t \in Tids :
        \/ \E o \in {"post", "dice"}, b \in -1 .. 1 : ArrivePost(p, o, t, b)
        \/ ArriveDelete(p, t)
        \/ ArriveRead(p, IF t > 0 THEN "thread" ELSE "board", t)
  BY DEF Arrive
<1>2. t \in 0 .. MaxNo /\ MaxNo \in Nat /\ pc[p] = "idle"
  BY <1>1, MaxNoAssumption DEF ArrivePost, ArriveDelete, ArriveRead
<1>3. Deleted \subseteq Nos /\ Nos \subseteq 1 .. MaxNo /\ posted \subseteq Nos
  BY NosType DEF ForumInv, TypeOK, Deleted
<1>4. CASE \E o \in {"post", "dice"}, b \in -1 .. 1 : ArrivePost(p, o, t, b)
  <2>1. PICK o \in {"post", "dice"}, b \in -1 .. 1 : ArrivePost(p, o, t, b)
    BY <1>4
  <2>2. /\ UNCHANGED <<tables, reading, posted, counted>>
        /\ pc' \in {[pc EXCEPT ![p] = "rejected"], [pc EXCEPT ![p] = "insert"]}
        /\ req' \in {[req EXCEPT ![p] = NoRequest],
                     [req EXCEPT ![p] = [op |-> o, tid |-> t, bid |-> b, no |-> 0]]}
    BY <2>1 DEF ArrivePost, Return, Accept, Goto
  <2>3. TypeOK'
    <3>1. [op |-> o, tid |-> t, bid |-> b, no |-> 0] \in Request
      BY <1>2, RequestTypes DEF Op
    <3>2. \E step \in Step, record \in Request :
             pc' = [pc EXCEPT ![p] = step] /\ req' = [req EXCEPT ![p] = record]
      BY <2>2, <3>1, RequestTypes DEF Step
    <3>3. pc' \in [Requests -> Step] /\ req' \in [Requests -> Request]
      BY <3>2, RequestSteps DEF ForumInv
    <3> QED
      BY <2>2, <3>3 DEF ForumInv, TypeOK, Nos, Request, reading, tables
  <2>4. Sound(p)' /\ \A q \in Requests \ {p} : Same(q)
    BY <1>2, <2>2 DEF ForumInv, TypeOK, Sound, WriterSound, ReaderSound, Same,
        Nos, Deleted, reading, tables
  <2> QED
    BY <2>2, <2>3, <2>4, TablesAlone
<1>5. CASE ArriveDelete(p, t)
  <2>1. TypeOK'
    <3>1. /\ "delete" \in Step
          /\ [op |-> "delete", tid |-> t, bid |-> 0, no |-> 0] \in Request
      <4>1. "delete" \in Op /\ "delete" \in Step /\ 0 \in -1 .. 1
        BY DEF Op, Step
      <4> QED
        BY <1>2, <4>1, RequestTypes
    <3>2. /\ pc' = [pc EXCEPT ![p] = "delete"]
          /\ req' = [req EXCEPT ![p] = [op |-> "delete", tid |-> t, bid |-> 0, no |-> 0]]
      BY <1>5 DEF ArriveDelete, Accept, Goto
    <3>3. pc' \in [Requests -> Step] /\ req' \in [Requests -> Request]
      BY <3>1, <3>2, RequestSteps DEF ForumInv
    <3> QED
      BY <1>5, <3>3 DEF ArriveDelete, ForumInv, TypeOK, Nos, Request, reading, tables
  <2>2. Sound(p)' /\ \A q \in Requests \ {p} : Same(q)
    BY <1>2, <1>5 DEF ArriveDelete, Accept, Goto, ForumInv, TypeOK, Sound,
        WriterSound, ReaderSound, Same, Nos, Deleted, reading, tables
  <2> QED
    BY <1>5, <2>1, <2>2, TablesAlone DEF ArriveDelete
<1>6. CASE ArriveRead(p, IF t > 0 THEN "thread" ELSE "board", t)
  <2> DEFINE o == IF t > 0 THEN "thread" ELSE "board"
  <2>1. /\ req' = [req EXCEPT ![p] = [op |-> o, tid |-> t, bid |-> 0, no |-> 0]]
        /\ pc' = [pc EXCEPT ![p] = "read"]
        /\ known' = [known EXCEPT ![p] = [posted |-> posted, deleted |-> Deleted]]
        /\ UNCHANGED <<tables, head, list, todo, rows, posted, counted>>
    BY <1>6 DEF ArriveRead, Accept, Goto
  <2>2. /\ (o = "thread" /\ t > 0) \/ (o = "board" /\ t = 0)
        /\ o \in Op
    BY <1>2 DEF Op
  <2> HIDE DEF o
  <2>3. TypeOK'
    <3>1. "read" \in Step /\ 0 \in -1 .. 1
      BY DEF Step
    <3>2. [op |-> o, tid |-> t, bid |-> 0, no |-> 0] \in Request
      BY <1>2, <2>2, <3>1, RequestTypes
    <3>3. pc' \in [Requests -> Step] /\ req' \in [Requests -> Request]
      BY <2>1, <3>1, <3>2, RequestSteps DEF ForumInv
    <3> QED
      BY <1>3, <2>1, <3>3 DEF ForumInv, TypeOK, Nos, Request, tables
  <2>4. Sound(p)' /\ \A q \in Requests \ {p} : Same(q)
    BY <1>2, <1>3, <2>1, <2>2 DEF ForumInv, TypeOK, Sound, WriterSound,
        ReaderSound, Same, Nos, Deleted, tables
  <2> QED
    BY <2>1, <2>3, <2>4, TablesAlone
<1> QED
  BY <1>1, <1>4, <1>5, <1>6

\* A handler fails, or a delete is refused: what was written stays.
LEMMA StepFails ==
  ASSUME ForumInv, NEW p \in Requests, PostFails(p) \/ DeleteFails(p)
  PROVE  ForumInv'
<1>1. /\ pc[p] \in {"insert", "toBoard", "count", "delete"}
      /\ pc' \in {[pc EXCEPT ![p] = "done"], [pc EXCEPT ![p] = "failed"]}
      /\ req' = [req EXCEPT ![p] = NoRequest]
      /\ UNCHANGED <<tables, reading, posted, counted>>
  BY DEF PostFails, DeleteFails, Return, Goto
<1>2. TypeOK'
  <2>1. pc' \in [Requests -> Step] /\ req' \in [Requests -> Request]
    BY <1>1, RequestTypes, RequestSteps DEF ForumInv, Step
  <2> QED
    BY <1>1, <2>1 DEF ForumInv, TypeOK, Nos, Request, reading, tables
<1>3. Sound(p)' /\ \A q \in Requests \ {p} : Same(q)
  BY ZenonT(40), <1>1 DEF ForumInv, TypeOK, Sound, WriterSound, ReaderSound, Same, Nos,
      Deleted, reading, tables
<1> QED
  BY <1>1, <1>2, <1>3, TablesAlone
-----------------------------------------------------------------------------
\* A reader's query; the tables stay, and so does what other requests know.
LEMMA StepRead ==
  ASSUME ForumInv, NEW p \in Requests,
         ReadThread(p) \/ ReadParent(p) \/ ReadNum(p) \/ ReadReplies(p) \/ ReadBoard(p)
         \/ (\E t \in todo[p] : ReadPreview(p, t)) \/ PreviewsDone(p) \/ ReadFails(p)
  PROVE  ForumInv'
<1>1. /\ Nos \subseteq 1 .. MaxNo /\ 0 \notin Nos /\ Deleted \subseteq Nos
      /\ \A t : Replies(t) \subseteq Nos /\ Replies(t) \cap Deleted = {}
      /\ \A n : Visible(n) <=> n \in Nos \ Deleted
      /\ \A t : \A n \in Replies(t) : thread[n].r = t
  BY NosType DEF ForumInv, Deleted, Replies, Visible
<1>2. /\ TypeOK /\ Sound(p) /\ TablesSound /\ DOMAIN board \subseteq Nos
      /\ posted \subseteq Nos /\ posted \subseteq DOMAIN board
  BY DEF ForumInv, TypeOK, TablesSound
<1>3. CASE ReadThread(p)
  <2>1. TypeOK'
    BY <1>2, <1>3 DEF ReadThread, HeadTo, TypeOK, HeadStep, Nos, tables
  <2>2. Sound(p)' /\ \A q \in Requests \ {p} : Same(q)
    BY <1>1, <1>2, <1>3 DEF ReadThread, HeadTo, TypeOK, Sound, WriterSound,
        ReaderSound, TablesSound, Same, Nos, Deleted, tables
  <2> QED
    BY <1>3, <2>1, <2>2, TablesAlone DEF ReadThread
<1>4. CASE ReadParent(p)
  <2>1. TypeOK'
    BY <1>2, <1>4 DEF ReadParent, HeadTo, TypeOK, HeadStep, Nos, tables
  <2>2. Sound(p)' /\ \A q \in Requests \ {p} : Same(q)
    BY <1>1, <1>2, <1>4 DEF ReadParent, HeadTo, TypeOK, Sound, WriterSound,
        ReaderSound, TablesSound, Same, Nos, Deleted, tables
  <2> QED
    BY <1>4, <2>1, <2>2, TablesAlone DEF ReadParent
<1>5. CASE ReadNum(p)
  <2>1. TypeOK'
    BY <1>2, <1>5 DEF ReadNum, HeadTo, TypeOK, HeadStep, Nos, tables
  <2>2. Sound(p)' /\ \A q \in Requests \ {p} : Same(q)
    BY <1>1, <1>2, <1>5 DEF ReadNum, HeadTo, TypeOK, Sound, WriterSound,
        ReaderSound, TablesSound, Same, Nos, Deleted, tables
  <2> QED
    BY <1>5, <2>1, <2>2, TablesAlone DEF ReadNum
<1>6. CASE ReadReplies(p)
  <2>1. TypeOK'
    BY <1>1, <1>2, <1>6 DEF ReadReplies, ListTo, TypeOK, ListStep, Nos, tables
  <2>2. Sound(p)' /\ \A q \in Requests \ {p} : Same(q)
    BY <1>1, <1>2, <1>6 DEF ReadReplies, ListTo, TypeOK, Sound, WriterSound,
        ReaderSound, Same, Nos, Deleted, tables
  <2> QED
    BY <1>6, <2>1, <2>2, TablesAlone DEF ReadReplies
<1>7. CASE ReadBoard(p)
  <2> DEFINE listed == {t \in DOMAIN board : Visible(t)}
  <2>1. /\ rows' = [rows EXCEPT ![p] = listed] /\ todo' = [todo EXCEPT ![p] = listed]
        /\ list' = [list EXCEPT ![p] = "previews"] /\ head' = [head EXCEPT ![p] = "ok"]
        /\ pc[p] = "read" /\ req[p].op = "board"
        /\ UNCHANGED <<tables, pc, req, known, posted, counted>>
    BY <1>7 DEF ReadBoard, ListTo, HeadTo
  <2>2. /\ listed \subseteq Nos /\ listed \cap Deleted = {}
        /\ \A t \in listed : thread[t].r = 0
    BY <1>1, <1>2 DEF TablesSound
  <2> HIDE DEF listed
  <2>3. TypeOK'
    BY <1>1, <1>2, <2>1, <2>2 DEF TypeOK, ListStep, HeadStep, Nos, tables
  <2>4. Sound(p)' /\ \A q \in Requests \ {p} : Same(q)
    <3>1. /\ known[p].deleted \subseteq Deleted /\ listed \cap known[p].deleted = {}
          /\ \A t \in listed : {t, thread[t].r} \cap known[p].deleted = {}
      BY ZenonT(40), <1>1, <1>2, <2>2 DEF Sound, ReaderSound
    <3>2. /\ rows'[p] = listed /\ todo'[p] = listed /\ head'[p] = "ok"
          /\ Nos' = Nos /\ Deleted' = Deleted
      BY <1>2, <2>1 DEF TypeOK, Nos, Deleted, tables
    <3>3. WriterSound(p)'
      BY <2>1 DEF WriterSound
    <3>4. ReaderSound(p)'
      BY <1>2, <2>1, <2>2, <3>1, <3>2 DEF Sound, ReaderSound, tables
    <3>5. \A q \in Requests \ {p} : Same(q)
      BY <1>2, <2>1 DEF TypeOK, Same
    <3> QED
      BY <3>3, <3>4, <3>5 DEF Sound
  <2> QED
    BY <2>1, <2>3, <2>4, TablesAlone
<1>8. ASSUME NEW t \in todo[p], ReadPreview(p, t) PROVE ForumInv'
  <2>1. TypeOK'
    BY <1>1, <1>2, <1>8 DEF ReadPreview, TypeOK, Nos, tables
  <2>2. Sound(p)' /\ \A q \in Requests \ {p} : Same(q)
    BY <1>1, <1>2, <1>8 DEF ReadPreview, TypeOK, Sound, WriterSound, ReaderSound,
        Same, Nos, Deleted, tables
  <2> QED
    BY <1>8, <2>1, <2>2, TablesAlone DEF ReadPreview
<1>9. CASE PreviewsDone(p)
  <2>1. TypeOK'
    BY <1>2, <1>9 DEF PreviewsDone, ListTo, TypeOK, ListStep, Nos, tables
  <2>2. Sound(p)' /\ \A q \in Requests \ {p} : Same(q)
    BY <1>2, <1>9 DEF PreviewsDone, ListTo, TypeOK, Sound, WriterSound, ReaderSound,
        Same, Nos, Deleted, tables
  <2> QED
    BY <1>9, <2>1, <2>2, TablesAlone DEF PreviewsDone
<1>10. CASE ReadFails(p)
  <2>1. /\ head' \in {head, [head EXCEPT ![p] = "error"]}
        /\ head' # head => req[p].op = "thread"
        /\ list' \in {list, [list EXCEPT ![p] = "error"]}
        /\ pc[p] = "read"
        /\ UNCHANGED <<tables, pc, req, todo, rows, known, posted, counted>>
    BY <1>10 DEF ReadFails, HeadTo, ListTo
  <2>2. TypeOK'
    BY <1>2, <2>1 DEF TypeOK, ListStep, HeadStep, Nos, tables
  <2>3. Sound(p)' /\ \A q \in Requests \ {p} : Same(q)
    BY <1>2, <2>1 DEF TypeOK, Sound, WriterSound, ReaderSound, Same, Nos, Deleted, tables
  <2> QED
    BY <2>1, <2>2, <2>3, TablesAlone
<1> QED
  BY <1>3, <1>4, <1>5, <1>6, <1>7, <1>8, <1>9, <1>10

\* The answer is put together.
LEMMA StepAnswer == ASSUME ForumInv, NEW p \in Requests, Answer(p) PROVE ForumInv'
<1>1. /\ TypeOK /\ Sound(p) /\ Deleted \subseteq Nos /\ 0 \notin Nos /\ Nos \subseteq 1 .. MaxNo
  BY NosType DEF ForumInv, Deleted
<1>2. /\ pc[p] = "read" /\ req' = [req EXCEPT ![p] = NoRequest]
      /\ UNCHANGED <<tables, head, list, todo, known, posted, counted>>
  BY DEF Answer, Return
<1>3. /\ pc' \in {[pc EXCEPT ![p] = "done"], [pc EXCEPT ![p] = "failed"]}
      /\ pc'[p] = "done" => head[p] = "ok"
      /\ rows' = [rows EXCEPT ![p] =
                     IF pc'[p] = "failed" THEN {}
                     ELSE IF req[p].op = "thread" THEN rows[p] \cup {req[p].tid}
                     ELSE rows[p]]
  BY <1>1 DEF Answer, Return, Goto, TypeOK
<1>4. pc' \in [Requests -> Step] /\ req' \in [Requests -> Request]
  <2>1. \E step \in Step : pc' = [pc EXCEPT ![p] = step]
    BY <1>3 DEF Step
  <2> QED
    BY <1>1, <1>2, <2>1, RequestTypes, RequestSteps
<1>5. rows'[p] \subseteq Nos
  BY <1>1, <1>2, <1>3 DEF TypeOK, Sound, ReaderSound
<1>6. TypeOK'
  BY <1>1, <1>2, <1>3, <1>4, <1>5 DEF TypeOK, Nos, Request, tables
<1>7. Sound(p)' /\ \A q \in Requests \ {p} : Same(q)
  BY <1>1, <1>2, <1>3, <1>5 DEF TypeOK, Sound, WriterSound, ReaderSound, Same, Nos,
      Deleted, tables
<1> QED
  BY <1>2, <1>6, <1>7, TablesAlone
-----------------------------------------------------------------------------
\* A row is inserted: it is the last, it is not deleted, and nobody has
\* counted it or listed it.
LEMMA StepInsert == ASSUME ForumInv, NEW p \in Requests, Insert(p) PROVE ForumInv'
<1> DEFINE n == Len(thread) + 1
           row == [r |-> req[p].tid, del |-> FALSE]
<1>1. /\ TypeOK /\ TablesSound /\ RepliesCounted /\ Sound(p)
      /\ Len(thread) \in Nat /\ MaxNo \in Nat /\ row \in Row /\ n \in Nat
      /\ thread \in Seq(Row) /\ req[p].tid \in 0 .. MaxNo
  BY NosType, MaxNoAssumption DEF ForumInv, TypeOK, Row
<1>2. /\ thread' = Append(thread, row) /\ Len(thread) < MaxNo /\ pc[p] = "insert"
      /\ UNCHANGED <<board, reading, posted, counted>>
      /\ \/ pc' = [pc EXCEPT ![p] = "done"] /\ req' = [req EXCEPT ![p] = NoRequest]
         \/ /\ pc' = [pc EXCEPT ![p] = "toBoard"] /\ req[p].tid = 0
            /\ req' = [req EXCEPT ![p].no = n]
         \/ pc' = [pc EXCEPT ![p] = "count"] /\ req' = [req EXCEPT ![p].no = n]
  BY DEF Insert, Return, Goto
<1>3. /\ thread' \in Seq(Row) /\ Len(thread') = n /\ thread'[n] = row
      /\ \A k \in Nos : thread'[k] = thread[k]
  BY <1>1, <1>2 DEF Nos
<1>4. Nos' = Nos \cup {n} /\ n \notin Nos /\ RowsKept
  BY <1>1, <1>2, <1>3 DEF Nos, RowsKept
<1> HIDE DEF n, row
<1>5. n \in 0 .. MaxNo
  BY <1>1, <1>2 DEF n
<1>6. \E step \in Step, record \in Request :
         pc' = [pc EXCEPT ![p] = step] /\ req' = [req EXCEPT ![p] = record]
  <2>1. [req[p] EXCEPT !.no = n] \in Request
    BY <1>1, <1>5 DEF TypeOK, Request
  <2>2. {"done", "toBoard", "count"} \subseteq Step
    BY DEF Step
  <2> QED
    BY <1>2, <2>1, <2>2, RequestTypes
<1>7. TypeOK'
  <2>1. pc' \in [Requests -> Step] /\ req' \in [Requests -> Request]
    BY <1>1, <1>6, RequestSteps
  <2> QED
    BY <1>1, <1>2, <1>3, <1>4, <2>1 DEF TypeOK, Row, Request, reading, n
<1>8. \A q \in Requests \ {p} : Same(q)
  BY <1>1, <1>2 DEF TypeOK, Same, reading
<1>9. \A q \in Requests \ {p} : Sound(q)'
  <2> SUFFICES ASSUME NEW q \in Requests \ {p} PROVE Sound(q)'
    OBVIOUS
  <2>1. req[q].no \in Nat
    BY <1>1 DEF TypeOK
  <2> QED
    BY <1>1, <1>4, <1>8, <2>1, OthersSound DEF ForumInv
<1>10. Sound(p)'
  <2>1. WriterSound(p)'
    BY <1>1, <1>2, <1>3, <1>4 DEF TypeOK, WriterSound, row
  <2>2. Deleted \subseteq Deleted'
    BY <1>4 DEF RowsKept, Deleted
  <2>3. ReaderSound(p)'
    BY <1>1, <1>2, <1>4, <2>2 DEF TypeOK, Sound, ReaderSound, reading
  <2> QED
    BY <2>1, <2>3 DEF Sound
<1>11. TablesSound'
  BY <1>1, <1>2, <1>3 DEF TypeOK, TablesSound
<1>12. RepliesCounted'
  <2> SUFFICES ASSUME NEW t \in DOMAIN board
               PROVE  /\ Cardinality(Replies(t)' \cap counted) <= board[t]
                      /\ board[t] <= Cardinality({k \in Nos' : thread'[k].r = t})
    BY <1>2 DEF RepliesCounted
  <2>1. Replies(t)' \cap counted = Replies(t) \cap counted
    BY <1>1, <1>3, <1>4 DEF TypeOK, Replies, Visible
  <2>2. /\ {k \in Nos : thread[k].r = t} \subseteq {k \in Nos' : thread'[k].r = t}
        /\ {k \in Nos' : thread'[k].r = t} \subseteq 1 .. n
    BY <1>1, <1>3, <1>4 DEF Nos, n
  <2>3. /\ Cardinality({k \in Nos : thread[k].r = t})
             <= Cardinality({k \in Nos' : thread'[k].r = t})
        /\ Cardinality({k \in Nos : thread[k].r = t}) \in Int
        /\ Cardinality({k \in Nos' : thread'[k].r = t}) \in Int
    BY <1>1, <2>2, CountRules DEF n
  <2>4. board[t] \in Int
    BY <1>1 DEF TypeOK
  <2>5. /\ Cardinality(Replies(t) \cap counted) <= board[t]
        /\ board[t] <= Cardinality({k \in Nos : thread[k].r = t})
    BY <1>1 DEF RepliesCounted
  <2>6. Cardinality(Replies(t)' \cap counted) <= board[t]
    BY <2>1, <2>5, Zenon
  <2> DEFINE before == Cardinality({k \in Nos : thread[k].r = t})
             after == Cardinality({k \in Nos' : thread'[k].r = t})
  <2>7. before <= after /\ before \in Int /\ after \in Int /\ board[t] <= before
    BY <2>3, <2>5
  <2> HIDE DEF before, after
  <2>8. board[t] <= after
    BY <2>4, <2>7
  <2> QED
    BY <2>6, <2>8 DEF after
<1> QED
  BY <1>7, <1>9, <1>10, <1>11, <1>12 DEF ForumInv

\* A topic is listed: none of its replies was counted before, as its row was
\* not there to count them in.
LEMMA StepToBoard == ASSUME ForumInv, NEW p \in Requests, PostToBoard(p) PROVE ForumInv'
<1> DEFINE no == req[p].no
<1>1. /\ TypeOK /\ TablesSound /\ RepliesCounted /\ Sound(p)
      /\ Nos \subseteq 1 .. MaxNo /\ MaxNo \in Nat /\ Len(thread) \in Nat
  BY NosType, MaxNoAssumption DEF ForumInv
<1>2. /\ board' = [t \in DOMAIN board \cup {no} |-> IF t \in DOMAIN board THEN board[t] ELSE 0]
      /\ posted' = posted \cup {no} /\ pc[p] = "toBoard"
      /\ pc' = [pc EXCEPT ![p] = "done"] /\ req' = [req EXCEPT ![p] = NoRequest]
      /\ UNCHANGED <<thread, reading, counted>>
  BY DEF PostToBoard, Return, Goto
<1>3. no \in Nos /\ thread[no].r = 0
  BY <1>1, <1>2 DEF Sound, WriterSound
<1> HIDE DEF no
<1>4. RowsKept /\ Nos' = Nos /\ Deleted' = Deleted
  BY <1>2 DEF RowsKept, Nos, Deleted
<1>5. TypeOK'
  <2>1. "done" \in Step
    BY DEF Step
  <2>2. pc' \in [Requests -> Step] /\ req' \in [Requests -> Request]
    BY <1>1, <1>2, <2>1, RequestTypes, RequestSteps
  <2>3. DOMAIN board' \subseteq Nos /\ \A t \in DOMAIN board' : board'[t] \in 0 .. MaxNo
    BY <1>1, <1>2, <1>3 DEF TypeOK
  <2> QED
    BY <1>1, <1>2, <1>3, <1>4, <2>2, <2>3 DEF TypeOK, Request, reading
<1>6. \A q \in Requests \ {p} : Same(q)
  BY <1>1, <1>2 DEF TypeOK, Same, reading
<1>7. \A q \in Requests \ {p} : Sound(q)'
  <2> SUFFICES ASSUME NEW q \in Requests \ {p} PROVE Sound(q)'
    OBVIOUS
  <2>1. req[q].no \in Nat
    BY <1>1 DEF TypeOK
  <2> QED
    BY <1>1, <1>4, <1>6, <2>1, OthersSound DEF ForumInv
<1>8. Sound(p)'
  BY <1>1, <1>2, <1>4 DEF TypeOK, Sound, WriterSound, ReaderSound, reading
<1>9. TablesSound'
  BY <1>1, <1>2, <1>3 DEF TypeOK, TablesSound
<1>10. RepliesCounted'
  <2> SUFFICES ASSUME NEW t \in DOMAIN board \cup {no}
               PROVE  /\ Cardinality(Replies(t) \cap counted) <= board'[t]
                      /\ board'[t] <= Cardinality({k \in Nos : thread[k].r = t})
    BY <1>2, <1>4 DEF RepliesCounted, Replies, Visible
  <2>1. CASE t \in DOMAIN board
    BY <1>1, <1>2, <2>1 DEF RepliesCounted
  <2>2. CASE t \notin DOMAIN board
    <3>1. board'[t] = 0
      BY <1>2, <2>2
    <3>2. Replies(t) \cap counted = {}
      BY <1>1, <2>2 DEF TablesSound, Replies
    <3>3. {k \in Nos : thread[k].r = t} \subseteq 1 .. Len(thread)
      BY DEF Nos
    <3>4. Cardinality({k \in Nos : thread[k].r = t}) \in Nat
      BY <1>1, <3>3, CountRules
    <3> QED
      BY <3>1, <3>2, <3>4, FS_EmptySet
  <2> QED
    BY <2>1, <2>2
<1> QED
  BY <1>5, <1>7, <1>8, <1>9, <1>10 DEF ForumInv

\* The count of a thread is taken from the table: it misses nothing that is
\* there.
LEMMA StepCount == ASSUME ForumInv, NEW p \in Requests, UpdateReplyNum(p) PROVE ForumInv'
<1> DEFINE thr == req[p].tid
           no == req[p].no
<1>1. /\ TypeOK /\ TablesSound /\ RepliesCounted /\ Sound(p)
      /\ Nos \subseteq 1 .. MaxNo /\ MaxNo \in Nat /\ Len(thread) \in Nat
  BY NosType, MaxNoAssumption DEF ForumInv
<1>2. /\ pc[p] = "count"
      /\ pc' = [pc EXCEPT ![p] = "done"] /\ req' = [req EXCEPT ![p] = NoRequest]
      /\ UNCHANGED <<thread, reading, posted>>
      /\ IF thr \in DOMAIN board
           THEN /\ board' = [board EXCEPT ![thr] = Cardinality(Replies(thr))]
                /\ counted' = counted \cup {no}
           ELSE UNCHANGED <<board, counted>>
  BY DEF UpdateReplyNum, Return, Goto
<1>3. no \in Nos /\ thread[no].r = thr
  BY <1>1, <1>2 DEF Sound, WriterSound
<1> HIDE DEF no, thr
<1>4. RowsKept /\ Nos' = Nos /\ Deleted' = Deleted /\ DOMAIN board' = DOMAIN board
  BY <1>2 DEF RowsKept, Nos, Deleted
<1>5. \A t : /\ Replies(t) \subseteq {k \in Nos : thread[k].r = t}
             /\ {k \in Nos : thread[k].r = t} \subseteq 1 .. Len(thread)
  BY DEF Replies, Visible, Nos
<1>6. \A t : /\ Cardinality(Replies(t)) \in 0 .. Len(thread)
             /\ Cardinality(Replies(t)) <= Cardinality({k \in Nos : thread[k].r = t})
            /\ Cardinality(Replies(t) \cap counted') <= Cardinality(Replies(t))
  <2> SUFFICES ASSUME NEW t
               PROVE  /\ Cardinality(Replies(t)) \in 0 .. Len(thread)
                      /\ Cardinality(Replies(t)) <= Cardinality({k \in Nos : thread[k].r = t})
                      /\ Cardinality(Replies(t) \cap counted') <= Cardinality(Replies(t))
    OBVIOUS
  <2>1. /\ Replies(t) \in SUBSET (1 .. Len(thread))
        /\ {k \in Nos : thread[k].r = t} \in SUBSET (1 .. Len(thread))
        /\ Replies(t) \in SUBSET {k \in Nos : thread[k].r = t}
        /\ Replies(t) \cap counted' \in SUBSET Replies(t)
    BY <1>5
  <2> QED
    BY <1>1, <2>1, CountRules
<1>7. TypeOK'
  <2>1. "done" \in Step
    BY DEF Step
  <2>2. pc' \in [Requests -> Step] /\ req' \in [Requests -> Request]
    BY <1>1, <1>2, <2>1, RequestTypes, RequestSteps
  <2>3. \A t \in DOMAIN board : board'[t] \in 0 .. MaxNo
    <3>1. /\ \A t \in DOMAIN board : board[t] \in 0 .. MaxNo
          /\ Len(thread) <= MaxNo /\ Cardinality(Replies(thr)) \in 0 .. Len(thread)
      BY <1>1, <1>6 DEF TypeOK
    <3>2. Cardinality(Replies(thr)) \in 0 .. MaxNo
      BY <1>1, <3>1
    <3>3. \A t \in DOMAIN board : board'[t] = board[t] \/ board'[t] = Cardinality(Replies(thr))
      BY <1>2
    <3> QED
      BY <3>1, <3>2, <3>3
  <2> QED
    BY ZenonT(40), <1>1, <1>2, <1>3, <1>4, <2>2, <2>3 DEF TypeOK, Request, reading
<1>8. \A q \in Requests \ {p} : Same(q)
  BY <1>1, <1>2 DEF TypeOK, Same, reading
<1>9. \A q \in Requests \ {p} : Sound(q)'
  <2> SUFFICES ASSUME NEW q \in Requests \ {p} PROVE Sound(q)'
    OBVIOUS
  <2>1. req[q].no \in Nat
    BY <1>1 DEF TypeOK
  <2> QED
    BY <1>1, <1>4, <1>8, <2>1, OthersSound DEF ForumInv
<1>10. Sound(p)'
  BY <1>1, <1>2, <1>4 DEF TypeOK, Sound, WriterSound, ReaderSound, reading
<1>11. TablesSound'
  BY <1>1, <1>2, <1>3, <1>4 DEF TablesSound
<1>12. RepliesCounted'
  <2> SUFFICES ASSUME NEW t \in DOMAIN board
               PROVE  /\ Cardinality(Replies(t) \cap counted') <= board'[t]
                      /\ board'[t] <= Cardinality({k \in Nos : thread[k].r = t})
    BY <1>2, <1>4 DEF RepliesCounted, Replies, Visible
  <2>1. CASE t = thr
    BY <1>2, <1>6, <2>1
  <2>2. CASE t # thr
    <3>1. board'[t] = board[t]
      BY <1>2, <2>2
    <3>2. Replies(t) \cap counted' = Replies(t) \cap counted
      BY <1>2, <1>3, <2>2 DEF Replies
    <3> QED
      BY <1>1, <3>1, <3>2 DEF RepliesCounted
  <2> QED
    BY <2>1, <2>2
<1> QED
  BY <1>7, <1>9, <1>10, <1>11, <1>12 DEF ForumInv

\* A row is marked: there are fewer replies to count, and no row moves.
LEMMA StepDelete == ASSUME ForumInv, NEW p \in Requests, DeleteThread(p) PROVE ForumInv'
<1>1. /\ TypeOK /\ TablesSound /\ RepliesCounted /\ Sound(p)
      /\ Nos \subseteq 1 .. MaxNo /\ MaxNo \in Nat /\ Len(thread) \in Nat
      /\ \A k \in Nos : thread[k] \in Row
  BY NosType, MaxNoAssumption DEF ForumInv
<1>2. /\ pc[p] = "delete"
      /\ pc' = [pc EXCEPT ![p] = "done"] /\ req' = [req EXCEPT ![p] = NoRequest]
      /\ UNCHANGED <<board, reading, posted, counted>>
      /\ \/ /\ req[p].tid \in Nos
            /\ thread' = [thread EXCEPT ![req[p].tid] = [@ EXCEPT !.del = TRUE]]
         \/ thread' = thread
  BY DEF DeleteThread, Return, Goto
<1>3. /\ thread' \in Seq(Row) /\ Len(thread') = Len(thread)
      /\ \A k \in Nos : thread'[k].r = thread[k].r /\ (thread[k].del => thread'[k].del)
  <2>1. thread \in Seq(Row)
    BY <1>1 DEF TypeOK, Row
  <2>2. CASE thread' = thread
    BY <2>1, <2>2
  <2>3. ASSUME req[p].tid \in Nos,
               thread' = [thread EXCEPT ![req[p].tid] = [@ EXCEPT !.del = TRUE]]
        PROVE  /\ thread' \in Seq(Row) /\ Len(thread') = Len(thread)
               /\ \A k \in Nos : thread'[k].r = thread[k].r /\ (thread[k].del => thread'[k].del)
    <3> DEFINE i == req[p].tid
               row == [thread[i] EXCEPT !.del = TRUE]
    <3>1. row \in Row /\ row.r = thread[i].r /\ row.del
      BY <1>1, <2>3 DEF Row
    <3>2. thread' = [thread EXCEPT ![i] = row] /\ i \in 1 .. Len(thread)
      BY <2>3 DEF Nos
    <3> HIDE DEF row, i
    <3>3. thread' \in Seq(Row) /\ Len(thread') = Len(thread)
      BY <2>1, <3>1, <3>2
    <3>4. \A k \in Nos : k # i => thread'[k] = thread[k]
      BY <2>1, <3>2 DEF Nos
    <3>5. thread'[i] = row
      BY <2>1, <3>2
    <3> QED
      BY <3>1, <3>3, <3>4, <3>5
  <2> QED
    BY <1>2, <2>2, <2>3
<1>4. Nos' = Nos /\ RowsKept /\ Deleted \subseteq Deleted'
  BY <1>2, <1>3 DEF Nos, RowsKept, Deleted
<1>5. TypeOK'
  <2>1. "done" \in Step
    BY DEF Step
  <2>2. pc' \in [Requests -> Step] /\ req' \in [Requests -> Request]
    BY <1>1, <1>2, <2>1, RequestTypes, RequestSteps
  <2> QED
    BY <1>1, <1>2, <1>3, <1>4, <2>2 DEF TypeOK, Row, Request, reading
<1>6. \A q \in Requests \ {p} : Same(q)
  BY <1>1, <1>2 DEF TypeOK, Same, reading
<1>7. \A q \in Requests \ {p} : Sound(q)'
  <2> SUFFICES ASSUME NEW q \in Requests \ {p} PROVE Sound(q)'
    OBVIOUS
  <2>1. req[q].no \in Nat
    BY <1>1 DEF TypeOK
  <2> QED
    BY <1>1, <1>4, <1>6, <2>1, OthersSound DEF ForumInv
<1>8. Sound(p)'
  BY <1>1, <1>2, <1>4 DEF TypeOK, Sound, WriterSound, ReaderSound, reading
<1>9. TablesSound'
  BY <1>1, <1>2, <1>3 DEF TypeOK, TablesSound
<1>10. RepliesCounted'
  <2> SUFFICES ASSUME NEW t \in DOMAIN board
               PROVE  /\ Cardinality(Replies(t)' \cap counted) <= board[t]
                      /\ board[t] <= Cardinality({k \in Nos' : thread'[k].r = t})
    BY <1>2 DEF RepliesCounted
  <2>1. {k \in Nos' : thread'[k].r = t} = {k \in Nos : thread[k].r = t}
    BY <1>3, <1>4
  <2>2. /\ Replies(t)' \cap counted \in SUBSET (Replies(t) \cap counted)
        /\ Replies(t) \cap counted \in SUBSET (1 .. Len(thread))
    BY <1>3, <1>4 DEF Replies, Visible, Nos
  <2>3. /\ Cardinality(Replies(t)' \cap counted) <= Cardinality(Replies(t) \cap counted)
        /\ Cardinality(Replies(t) \cap counted) \in Int
        /\ Cardinality(Replies(t)' \cap counted) \in Int
    BY <1>1, <2>2, CountRules
  <2>4. board[t] \in Int
    BY <1>1 DEF TypeOK
  <2>5. /\ Cardinality(Replies(t) \cap counted) <= board[t]
        /\ board[t] <= Cardinality({k \in Nos : thread[k].r = t})
    BY <1>1 DEF RepliesCounted
  <2>6. board[t] <= Cardinality({k \in Nos' : thread'[k].r = t})
    BY <2>1, <2>5, Zenon
  <2> DEFINE before == Cardinality(Replies(t) \cap counted)
             after == Cardinality(Replies(t)' \cap counted)
  <2>7. after <= before /\ before \in Int /\ after \in Int /\ before <= board[t]
    BY <2>3, <2>5
  <2> HIDE DEF before, after
  <2>8. after <= board[t]
    BY <2>4, <2>7
  <2> QED
    BY <2>6, <2>8 DEF after
<1> QED
  BY <1>5, <1>7, <1>8, <1>9, <1>10 DEF ForumInv
-----------------------------------------------------------------------------
\* The invariant holds at the start.
LEMMA InitForum == Init => ForumInv
<1> SUFFICES ASSUME Init PROVE ForumInv
  OBVIOUS
<1>1. /\ thread = <<>> /\ Len(thread) = 0 /\ Nos = {} /\ DOMAIN board = {}
      /\ posted = {} /\ counted = {}
  BY DEF Init, Nos
<1>2. TypeOK
  <2>1. thread \in Seq(Row) /\ MaxNo \in Nat
    BY <1>1, MaxNoAssumption
  <2>2. req \in [Requests -> Request]
    BY RequestTypes DEF Init
  <2> QED
    BY <1>1, <2>1, <2>2 DEF Init, TypeOK, Row, Request, Step, HeadStep, ListStep
<1>3. TablesSound /\ RepliesCounted
  BY <1>1 DEF TablesSound, RepliesCounted
<1>4. \A p \in Requests : Sound(p)
  BY <1>1 DEF Init, Sound, WriterSound, ReaderSound
<1> QED
  BY <1>2, <1>3, <1>4 DEF ForumInv

\* ForumInv is an invariant.
LEMMA ForumInvariant == Spec => []ForumInv
<1>1. Init => ForumInv
  BY InitForum
<1>2. ForumInv /\ [Next]_vars => ForumInv'
  <2> SUFFICES ASSUME ForumInv, [Next]_vars PROVE ForumInv'
    OBVIOUS
  <2>1. CASE UNCHANGED vars
    <3>1. UNCHANGED <<tables, pc, req, reading, posted, counted>>
      BY <2>1 DEF vars
    <3>2. TypeOK' /\ TablesSound'
      BY <3>1 DEF tables, reading, ForumInv, TypeOK, Nos, TablesSound
    <3>3. RepliesCounted'
      BY <3>1 DEF tables, ForumInv, RepliesCounted, Replies, Visible, Nos
    <3>4. ASSUME NEW p \in Requests PROVE Sound(p)'
      <4>1. RowsKept /\ Same(p)
        BY <3>1 DEF RowsKept, Same, Nos, tables, reading
      <4>2. req[p].no \in Nat
        BY MaxNoAssumption DEF ForumInv, TypeOK
      <4> QED
        BY <4>1, <4>2, OthersSound DEF ForumInv
    <3> QED
      BY <3>2, <3>3, <3>4 DEF ForumInv
  <2>2. ASSUME NEW p \in Requests, Arrive(p) \/ Posting(p) \/ Deleting(p) \/ Reading(p)
        PROVE  ForumInv'
    BY <2>2, StepArrive, StepInsert, StepToBoard, StepCount, StepFails, StepDelete,
        StepRead, StepAnswer DEF Posting, Deleting, Reading
  <2> QED
    BY <2>1, <2>2 DEF Next
<1> QED
  BY <1>1, <1>2, PTL DEF Spec

(* Every variable keeps its type: no request names a row that is not there, *)
(* and a thread is listed only once it has a row.                           *)
THEOREM ForumTypeCorrect == Spec => []TypeOK
<1>1. ForumInv => TypeOK
  BY DEF ForumInv
<1> QED
  BY <1>1, ForumInvariant, PTL

(* The reply count misses no reply whose handler has updated it, and never  *)
(* exceeds the replies ever posted, however statements interleave or fail.  *)
THEOREM CountsCorrect == Spec => []RepliesCounted
<1>1. ForumInv => RepliesCounted
  BY DEF ForumInv
<1> QED
  BY <1>1, ForumInvariant, PTL

(* What was deleted when a reader arrived is not in its answer, although    *)
(* that is put together from several queries.                               *)
THEOREM DeletedIsHidden == Spec => []DeletedStaysHidden
<1>1. ForumInv => DeletedStaysHidden
  BY DEF ForumInv, Sound, ReaderSound, DeletedStaysHidden
<1> QED
  BY <1>1, ForumInvariant, PTL

(* A topic whose posting was answered before a reader came is found by it,  *)
(* unless it is deleted meanwhile.                                          *)
THEOREM PostedIsFound == Spec => []PostedIsReadable
<1>1. ForumInv => PostedIsReadable
  BY DEF ForumInv, Sound, ReaderSound, PostedIsReadable
<1> QED
  BY <1>1, ForumInvariant, PTL
=============================================================================
