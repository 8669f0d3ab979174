------------------------------- MODULE Forum -------------------------------
(***************************************************************************)
(* The moonchan board: HTTP handlers that keep threads and replies in two  *)
(* tables of a database.  A handler runs several SQL statements and opens  *)
(* no transaction, so the statements of concurrent requests interleave;    *)
(* each statement is atomic, and any of them may fail.  A crash of the     *)
(* process stops every handler between two statements and leaves the       *)
(* tables as they are, as a handler that is never scheduled again does.    *)
(*                                                                         *)
(* Abstractions: the text of a post, pages (there are fewer rows than a    *)
(* page holds) and the order of lists are left out; a row belongs to the   *)
(* one who wants to delete it, or not, as the choice of DeleteThread.      *)
(***************************************************************************)
EXTENDS Integers, Sequences, FiniteSets

CONSTANTS
  Posters, Deleters, Readers,   \* requests, each handled once
  Tids,        \* bound: the thread numbers that requests name, 0 for none
  MaxNo        \* bound: rows of the thread table

ASSUME MaxNoAssumption == MaxNo \in Nat /\ Tids \subseteq 0 .. MaxNo
ASSUME RolesAssumption ==
  Posters \cap Deleters = {} /\ Posters \cap Readers = {} /\ Deleters \cap Readers = {}

VARIABLES
  thread,      \* the table thread: thread[no] is a row
  board,       \* the table board: board[tid] is the replynum of a listed thread
  pc,          \* of each request: its step
  req,         \* its kind and parameters, and the number of the row it inserted
  head,        \* a reader's: the goroutine that gets the thread
  list,        \* a reader's: the goroutines that get replies
  todo,        \* a board reader's: threads whose replies are still to be read
  rows,        \* a reader's: the rows in its answer
  posted,      \* history: topics whose posting to a board succeeded
  counted,     \* history: replies whose update found the board row of their thread
  known        \* history: what was posted and deleted when a reader arrived

tables  == <<thread, board>>
reading == <<head, list, todo, rows, known>>
vars == <<tables, pc, req, reading, posted, counted>>

Requests == Posters \cup Deleters \cup Readers
Op == {"none", "post", "dice", "delete", "thread", "board"}
Step == {"idle", "insert", "toBoard", "count", "delete", "read",
         "done", "failed", "rejected"}
HeadStep == {"start", "parent", "num", "ok", "missing", "error"}
ListStep == {"start", "previews", "ok", "error"}

NoRequest == [op |-> "none", tid |-> 0, bid |-> 0, no |-> 0]

Goto(p, step) == pc' = [pc EXCEPT ![p] = step]
HeadTo(p, step) == head' = [head EXCEPT ![p] = step]
ListTo(p, step) == list' = [list EXCEPT ![p] = step]
Accept(p, o, t, b) == req' = [req EXCEPT ![p] = [op |-> o, tid |-> t, bid |-> b, no |-> 0]]
Return(p, step) == Goto(p, step) /\ req' = [req EXCEPT ![p] = NoRequest]

Nos == 1 .. Len(thread)
Visible(n) == n \in Nos /\ ~thread[n].del
Replies(t) == {n \in Nos : thread[n].r = t /\ Visible(n)}
Deleted == {n \in Nos : thread[n].del}
----------------------------------------------------------------------------
(* post, and the roll of the dice reaction, which posts a reply too.        *)

\* Neither a thread nor a board is named: 400.
Rejected(o, t, b) == o = "post" /\ t = 0 /\ b = 0

ArrivePost(p, o, t, b) ==
  /\ pc[p] = "idle"
  /\ IF Rejected(o, t, b)
       THEN Return(p, "rejected")
       ELSE Accept(p, o, t, b) /\ Goto(p, "insert")
  /\ UNCHANGED <<tables, reading, posted, counted>>

\* Mutant: a topic is not listed before its posting is answered.
InsertUnlisted(p) ==
  /\ pc[p] = "insert" /\ Len(thread) < MaxNo
  /\ thread' = Append(thread, [r |-> req[p].tid, del |-> FALSE])
  /\ IF req[p].tid # 0
       THEN /\ Goto(p, "count")
            /\ req' = [req EXCEPT ![p].no = Len(thread) + 1]
            /\ UNCHANGED posted
       ELSE /\ Return(p, "done")
            /\ posted' = posted \cup {Len(thread) + 1}
  /\ UNCHANGED <<board, reading, counted>>

\* The row is visible from here on.  A topic posted to no board (bid < 0) is done.
Insert(p) ==
  /\ pc[p] = "insert" /\ Len(thread) < MaxNo
  /\ thread' = Append(thread, [r |-> req[p].tid, del |-> FALSE])
  /\ IF req[p].tid = 0 /\ req[p].bid <= 0
       THEN Return(p, "done")
       ELSE /\ Goto(p, IF req[p].tid = 0 THEN "toBoard" ELSE "count")
            /\ req' = [req EXCEPT ![p].no = Len(thread) + 1]
  /\ UNCHANGED <<board, reading, posted, counted>>

\* Mutant: the board row gets the thread parameter instead of the new number.
PostParameterToBoard(p) ==
  /\ pc[p] = "toBoard"
  /\ board' = [t \in DOMAIN board \cup {req[p].tid} |->
                 IF t \in DOMAIN board THEN board[t] ELSE 0]
  /\ posted' = posted \cup {req[p].no}
  /\ Return(p, "done")
  /\ UNCHANGED <<thread, reading, counted>>

\* INSERT IGNORE of a row with the column's default, 0.
PostToBoard(p) ==
  /\ pc[p] = "toBoard"
  /\ board' = [t \in DOMAIN board \cup {req[p].no} |->
                 IF t \in DOMAIN board THEN board[t] ELSE 0]
  /\ posted' = posted \cup {req[p].no}
  /\ Return(p, "done")
  /\ UNCHANGED <<thread, reading, counted>>

\* Mutant: only the replies up to the own one are counted.
UpdateReplyNumSoFar(p) ==
  /\ pc[p] = "count"
  /\ LET t == req[p].tid IN
       IF t \in DOMAIN board
         THEN /\ board' = [board EXCEPT ![t] =
                             Cardinality({n \in Replies(t) : n <= req[p].no})]
              /\ counted' = counted \cup {req[p].no}
         ELSE UNCHANGED <<board, counted>>
  /\ Return(p, "done")
  /\ UNCHANGED <<thread, reading, posted>>

\* One UPDATE with a sub-select; it changes no row when the thread is not listed.
UpdateReplyNum(p) ==
  /\ pc[p] = "count"
  /\ LET t == req[p].tid IN
       IF t \in DOMAIN board
         THEN /\ board' = [board EXCEPT ![t] = Cardinality(Replies(t))]
              /\ counted' = counted \cup {req[p].no}
         ELSE UNCHANGED <<board, counted>>
  /\ Return(p, "done")
  /\ UNCHANGED <<thread, reading, posted>>

\* A statement fails: 500, and what was written stays.  The dice ignore it.
PostFails(p) ==
  /\ pc[p] \in {"insert", "toBoard", "count"}
  /\ Return(p, IF req[p].op = "dice" THEN "done" ELSE "failed")
  /\ UNCHANGED <<tables, reading, posted, counted>>
----------------------------------------------------------------------------
(* delete.                                                                  *)

ArriveDelete(p, n) ==
  /\ pc[p] = "idle"
  /\ Accept(p, "delete", n, 0)
  /\ Goto(p, "delete")
  /\ UNCHANGED <<tables, reading, posted, counted>>

\* The row is marked when it exists and is the caller's; replynum stays.
DeleteThread(p) ==
  /\ pc[p] = "delete"
  /\ \/ req[p].tid \in Nos /\ thread' = [thread EXCEPT ![req[p].tid].del = TRUE]
     \/ UNCHANGED thread
  /\ Return(p, "done")
  /\ UNCHANGED <<board, reading, posted, counted>>

DeleteFails(p) ==
  /\ pc[p] = "delete"
  /\ Return(p, "failed")
  /\ UNCHANGED <<tables, reading, posted, counted>>
----------------------------------------------------------------------------
(* get: one thread with its replies, or the threads of a board.             *)

ArriveRead(p, o, t) ==
  /\ pc[p] = "idle"
  /\ Accept(p, o, t, 0)
  /\ Goto(p, "read")
  /\ known' = [known EXCEPT ![p] = [posted |-> posted, deleted |-> Deleted]]
  /\ UNCHANGED <<tables, head, list, todo, rows, posted, counted>>

\* getThreadByNo: the row, then its parent's row or its board's.
ReadThread(p) ==
  /\ pc[p] = "read" /\ req[p].op = "thread" /\ head[p] = "start"
  /\ HeadTo(p, IF ~Visible(req[p].tid) THEN "missing"
               ELSE IF thread[req[p].tid].r = 0 THEN "num" ELSE "parent")
  /\ UNCHANGED <<tables, pc, req, list, todo, rows, known, posted, counted>>

\* Mutant: the parent has to exist, deleted or not.
ReadParentUnchecked(p) ==
  /\ pc[p] = "read" /\ head[p] = "parent"
  /\ HeadTo(p, IF thread[req[p].tid].r \in Nos THEN "ok" ELSE "missing")
  /\ UNCHANGED <<tables, pc, req, list, todo, rows, known, posted, counted>>

ReadParent(p) ==
  /\ pc[p] = "read" /\ head[p] = "parent"
  /\ HeadTo(p, IF Visible(thread[req[p].tid].r) THEN "ok" ELSE "missing")
  /\ UNCHANGED <<tables, pc, req, list, todo, rows, known, posted, counted>>

ReadNum(p) ==
  /\ pc[p] = "read" /\ head[p] = "num"
  /\ HeadTo(p, IF req[p].tid \in DOMAIN board THEN "ok" ELSE "missing")
  /\ UNCHANGED <<tables, pc, req, list, todo, rows, known, posted, counted>>

\* getReplies, at the same time.
ReadReplies(p) ==
  /\ pc[p] = "read" /\ req[p].op = "thread" /\ list[p] = "start"
  /\ rows' = [rows EXCEPT ![p] = @ \cup Replies(req[p].tid)]
  /\ ListTo(p, "ok")
  /\ UNCHANGED <<tables, pc, req, head, todo, known, posted, counted>>

\* getBoardThreads, a join that leaves deleted threads out.
ReadBoard(p) ==
  /\ pc[p] = "read" /\ req[p].op = "board" /\ list[p] = "start"
  /\ LET listed == {t \in DOMAIN board : Visible(t)} IN
       /\ rows' = [rows EXCEPT ![p] = listed]
       /\ todo' = [todo EXCEPT ![p] = listed]
  /\ ListTo(p, "previews")
  /\ HeadTo(p, "ok")
  /\ UNCHANGED <<tables, pc, req, known, posted, counted>>

\* getRepliesPreview of each of them, all at the same time.
ReadPreview(p, t) ==
  /\ pc[p] = "read" /\ list[p] = "previews" /\ t \in todo[p]
  /\ rows' = [rows EXCEPT ![p] = @ \cup Replies(t)]
  /\ todo' = [todo EXCEPT ![p] = @ \ {t}]
  /\ UNCHANGED <<tables, pc, req, head, list, known, posted, counted>>

PreviewsDone(p) ==
  /\ pc[p] = "read" /\ list[p] = "previews" /\ todo[p] = {}
  /\ ListTo(p, "ok")
  /\ UNCHANGED <<tables, pc, req, head, todo, rows, known, posted, counted>>

\* A query fails.
ReadFails(p) ==
  /\ pc[p] = "read"
  /\ \/ req[p].op = "thread" /\ head[p] \in {"start", "parent", "num"}
        /\ HeadTo(p, "error") /\ UNCHANGED list
     \/ list[p] \in {"start", "previews"} /\ ListTo(p, "error") /\ UNCHANGED head
  /\ UNCHANGED <<tables, pc, req, todo, rows, known, posted, counted>>

\* Both goroutines are waited for; an error of either, or no such thread, is a 500.
Answer(p) ==
  /\ pc[p] = "read"
  /\ list[p] \in {"ok", "error"}
  /\ req[p].op = "thread" => head[p] \in {"ok", "missing", "error"}
  /\ IF head[p] = "ok" /\ list[p] = "ok"
       THEN /\ Return(p, "done")
            /\ rows' = [rows EXCEPT ![p] =
                           IF req[p].op = "thread" THEN @ \cup {req[p].tid} ELSE @]
       ELSE /\ Return(p, "failed")
            /\ rows' = [rows EXCEPT ![p] = {}]
  /\ UNCHANGED <<tables, head, list, todo, known, posted, counted>>
----------------------------------------------------------------------------
Init ==
  /\ thread = <<>> /\ board = [t \in {} |-> 0]
  /\ pc = [p \in Requests |-> "idle"]
  /\ req = [p \in Requests |-> NoRequest]
  /\ posted = {} /\ counted = {}
  /\ head = [p \in Requests |-> "start"]
  /\ list = [p \in Requests |-> "start"]
  /\ todo = [p \in Requests |-> {}]
  /\ rows = [p \in Requests |-> {}]
  /\ known = [p \in Requests |-> [posted |-> {}, deleted |-> {}]]

\* The board parameter only matters to a new topic.
Arrive(p) ==
  \E t \in Tids :
    \/ p \in Posters /\ \E b \in (IF t = 0 THEN -1 .. 1 ELSE {0}) : ArrivePost(p, "post", t, b)
    \/ p \in Posters /\ t > 0 /\ ArrivePost(p, "dice", t, 0)
    \/ p \in Deleters /\ t > 0 /\ ArriveDelete(p, t)
    \/ p \in Readers /\ ArriveRead(p, IF t > 0 THEN "thread" ELSE "board", t)

Posting(p) == Insert(p) \/ PostToBoard(p) \/ UpdateReplyNum(p) \/ PostFails(p)
Deleting(p) == DeleteThread(p) \/ DeleteFails(p)
Reading(p) ==
  \/ ReadThread(p) \/ ReadParent(p) \/ ReadNum(p) \/ ReadReplies(p)
  \/ ReadBoard(p) \/ (\E t \in todo[p] : ReadPreview(p, t)) \/ PreviewsDone(p)
  \/ ReadFails(p) \/ Answer(p)

Next == \E p \in Requests : Arrive(p) \/ Posting(p) \/ Deleting(p) \/ Reading(p)

Spec == Init /\ [][Next]_vars
----------------------------------------------------------------------------
(* Properties.                                                              *)

TypeOK ==
  /\ thread \in Seq([r : 0 .. MaxNo, del : BOOLEAN]) /\ Len(thread) <= MaxNo
  /\ DOMAIN board \subseteq Nos /\ \A t \in DOMAIN board : board[t] \in 0 .. MaxNo
  /\ pc \in [Requests -> Step]
  /\ req \in [Requests -> [op : Op, tid : 0 .. MaxNo, bid : -1 .. 1, no : 0 .. MaxNo]]
  /\ posted \subseteq Nos /\ counted \subseteq Nos
  /\ head \in [Requests -> HeadStep] /\ list \in [Requests -> ListStep]
  /\ todo \in [Requests -> SUBSET (1 .. MaxNo)]
  /\ rows \in [Requests -> SUBSET (1 .. MaxNo)]
  /\ known \in [Requests -> [posted : SUBSET (1 .. MaxNo), deleted : SUBSET (1 .. MaxNo)]]

(* The reply count of a listed thread misses no reply whose handler has     *)
(* updated it, in whatever order the inserts and updates of several replies *)
(* run, and never exceeds the replies ever posted to the thread.            *)
RepliesCounted ==
  \A t \in DOMAIN board :
    /\ Cardinality(Replies(t) \cap counted) <= board[t]
    /\ board[t] <= Cardinality({n \in Nos : thread[n].r = t})

(* What was deleted when a reader arrived is not in its answer, nor is a    *)
(* reply to a thread deleted by then, although the answer is put together   *)
(* from several queries made at different moments.                          *)
DeletedStaysHidden ==
  \A p \in Requests : \A n \in rows[p] :
    pc[p] = "done" => {n, thread[n].r} \cap known[p].deleted = {}

(* A topic whose posting to a board was answered before a reader came is    *)
(* found by that reader, unless it is deleted meanwhile.                    *)
PostedIsReadable ==
  \A p \in Requests :
    pc[p] = "read" /\ head[p] = "missing" /\ req[p].tid \in known[p].posted
    => req[p].tid \in Deleted
=============================================================================
