------------------------------- MODULE GMStore -------------------------------
(***************************************************************************)
(* The values of gm-polyfill.js: what userscripts keep with GM_setValue.   *)
(* Every window answers GM_getValue and GM_listValues from its own         *)
(* valueCache, filled once from IndexedDB; a change goes to that cache at  *)
(* once, and to the database and to the other windows' caches when the     *)
(* browser gets round to it.                                               *)
(*                                                                         *)
(* The browser (external) carries out the database requests of a window in *)
(* their order, a transaction that writes waits for those that read, and a *)
(* BroadcastChannel delivers the messages of one window to another in      *)
(* order.  A request can fail, and a window can be closed at any moment.   *)
(***************************************************************************)
EXTENDS Naturals, Sequences

CONSTANTS
  Windows,
  Keys,
  Values,
  MaxWrites     \* bound: calls of GM_setValue and GM_deleteValue

ASSUME WritesAssumption == MaxWrites \in Nat

VARIABLES
  phase,        \* of each window
  valueCache,   \* of each window
  cursor,       \* of each window: keys its preload has yet to visit
  pending,      \* of each window: dbSave and dbDelete not carried out
  channel,      \* from each window to each: messages under way
  store,        \* the database
  writes,       \* number of calls
  unsettled     \* history: keys whose last change was lost, met another one,
                \* or was not in the database while some window loaded it

gmVars == <<phase, valueCache, cursor, pending, channel, store, writes, unsettled>>

Absent == "absent"
Entry == Values \cup {Absent}
Change == [key : Keys, val : Entry]
Phase == {"closed", "opening", "loading", "ready", "failed"}
Running(w) == phase[w] # "closed"

About(k, changes) == \E i \in DOMAIN changes : changes[i].key = k
Pending(k) == \E w \in Windows : About(k, pending[w])
Loading == \E w \in Windows : phase[w] = "loading"
----------------------------------------------------------------------------
(* The script starts in a new window: the preload's request is made.        *)
OpenWindow(w) ==
  /\ phase[w] = "closed"
  /\ phase' = [phase EXCEPT ![w] = "opening"]
  /\ UNCHANGED <<valueCache, cursor, pending, channel, store, writes, unsettled>>

PreloadFails(w) ==
  /\ phase[w] = "opening"
  /\ phase' = [phase EXCEPT ![w] = "failed"]
  /\ UNCHANGED <<valueCache, cursor, pending, channel, store, writes, unsettled>>

PreloadStarts(w) ==
  /\ phase[w] = "opening"
  /\ phase' = [phase EXCEPT ![w] = "loading"]
  /\ cursor' = [cursor EXCEPT ![w] = {k \in Keys : store[k] # Absent}]
  /\ unsettled' = unsettled \cup {k \in Keys : Pending(k)}
  /\ UNCHANGED <<valueCache, pending, channel, store, writes>>

(* One callback of the cursor.  It writes over what the window was told, or *)
(* has set itself, while it was loading.                                    *)
PreloadVisits(w, k) ==
  /\ phase[w] = "loading" /\ k \in cursor[w]
  /\ valueCache' = [valueCache EXCEPT ![w][k] = store[k]]
  /\ cursor' = [cursor EXCEPT ![w] = @ \ {k}]
  /\ UNCHANGED <<phase, pending, channel, store, writes, unsettled>>

PreloadEnds(w) ==
  /\ phase[w] = "loading" /\ cursor[w] = {}
  /\ phase' = [phase EXCEPT ![w] = "ready"]
  /\ UNCHANGED <<valueCache, cursor, pending, channel, store, writes, unsettled>>

CloseWindow(w) ==
  /\ Running(w)
  /\ phase' = [phase EXCEPT ![w] = "closed"]
  /\ valueCache' = [valueCache EXCEPT ![w] = [k \in Keys |-> Absent]]
  /\ cursor' = [cursor EXCEPT ![w] = {}]
  /\ pending' = [pending EXCEPT ![w] = <<>>]
  /\ channel' = [channel EXCEPT ![w] = [v \in Windows |-> <<>>]]
  /\ unsettled' = unsettled \cup {k \in Keys : About(k, pending[w])}
  /\ UNCHANGED <<store, writes>>
----------------------------------------------------------------------------
(* postMessage: to every other window that is there.  channel[v][w] holds   *)
(* what w has posted and v has not received.                                *)
Posted(w, c) ==
  [v \in Windows |->
    IF v # w /\ Running(v) THEN [channel[v] EXCEPT ![w] = Append(@, c)] ELSE channel[v]]

(* Another window is changing the key, or has and the news is under way.    *)
Contested(w, k) ==
  \/ \E v \in Windows \ {w} : About(k, pending[v])
  \/ \E u \in Windows, v \in Windows \ {w} : About(k, channel[u][v])

\* Mutant: the other windows are not told.
ChangeSilently(w, k, val) ==
  /\ Running(w) /\ writes < MaxWrites
  /\ valueCache' = [valueCache EXCEPT ![w][k] = val]
  /\ pending' = [pending EXCEPT ![w] = Append(@, [key |-> k, val |-> val])]
  /\ writes' = writes + 1
  /\ unsettled' = IF Loading \/ Contested(w, k) THEN unsettled \cup {k} ELSE unsettled \ {k}
  /\ UNCHANGED <<phase, cursor, channel, store>>

(* GM_setValue, and GM_deleteValue for Absent.                              *)
SetOrDelete(w, k, val) ==
  /\ Running(w) /\ writes < MaxWrites
  /\ valueCache' = [valueCache EXCEPT ![w][k] = val]
  /\ pending' = [pending EXCEPT ![w] = Append(@, [key |-> k, val |-> val])]
  /\ channel' = Posted(w, [key |-> k, val |-> val])
  /\ writes' = writes + 1
  /\ unsettled' = IF Loading \/ Contested(w, k) THEN unsettled \cup {k} ELSE unsettled \ {k}
  /\ UNCHANGED <<phase, cursor, store>>

(* dbSave, dbDelete: the transaction of the oldest request.                 *)
Commit(w) ==
  /\ phase[w] # "opening" /\ pending[w] # <<>> /\ ~Loading
  /\ store' = [store EXCEPT ![Head(pending[w]).key] = Head(pending[w]).val]
  /\ pending' = [pending EXCEPT ![w] = Tail(@)]
  /\ UNCHANGED <<phase, valueCache, cursor, channel, writes, unsettled>>

\* Nobody is told that it failed.
CommitFails(w) ==
  /\ phase[w] # "opening" /\ pending[w] # <<>>
  /\ pending' = [pending EXCEPT ![w] = Tail(@)]
  /\ unsettled' = unsettled \cup {Head(pending[w]).key}
  /\ UNCHANGED <<phase, valueCache, cursor, channel, store, writes>>

(* syncChannel.onmessage                                                    *)
Told(v, w) ==
  /\ channel[v][w] # <<>>
  /\ LET c == Head(channel[v][w]) IN valueCache' = [valueCache EXCEPT ![v][c.key] = c.val]
  /\ channel' = [channel EXCEPT ![v][w] = Tail(@)]
  /\ UNCHANGED <<phase, cursor, pending, store, writes, unsettled>>
----------------------------------------------------------------------------
GMInit ==
  /\ phase = [w \in Windows |-> "closed"]
  /\ valueCache = [w \in Windows |-> [k \in Keys |-> Absent]]
  /\ cursor = [w \in Windows |-> {}]
  /\ pending = [w \in Windows |-> <<>>]
  /\ channel = [v \in Windows |-> [w \in Windows |-> <<>>]]
  /\ store \in [Keys -> Entry]
  /\ writes = 0
  /\ unsettled = {}

GMNext ==
  \E w \in Windows :
    \/ OpenWindow(w) \/ PreloadFails(w) \/ PreloadStarts(w) \/ PreloadEnds(w)
    \/ \E k \in Keys : PreloadVisits(w, k)
    \/ CloseWindow(w)
    \/ \E k \in Keys, val \in Entry : SetOrDelete(w, k, val)
    \/ Commit(w) \/ CommitFails(w)
    \/ \E v \in Windows : Told(v, w)

GMSpec == GMInit /\ [][GMNext]_gmVars
----------------------------------------------------------------------------
GMTypeOK ==
  /\ phase \in [Windows -> Phase]
  /\ valueCache \in [Windows -> [Keys -> Entry]]
  /\ cursor \in [Windows -> SUBSET Keys]
  /\ pending \in [Windows -> Seq(Change)]
  /\ channel \in [Windows -> [Windows -> Seq(Change)]]
  /\ store \in [Keys -> Entry]
  /\ writes \in 0 .. MaxWrites
  /\ unsettled \in SUBSET Keys

AtRest ==
  /\ \A w \in Windows : pending[w] = <<>> /\ phase[w] \notin {"opening", "loading"}
  /\ \A v, w \in Windows : channel[v][w] = <<>>

(* Once nothing is under way, the windows that have loaded agree with each  *)
(* other and with the database on every key, but for those whose last       *)
(* change was lost, met another one or the preload of some window; a later  *)
(* change that meets nothing puts even these right (gm-polyfill.js:124-192, *)
(* whose three ways for a value have no order between them).                *)
StoresAgree ==
  AtRest => \A w \in Windows, k \in Keys \ unsettled :
              phase[w] = "ready" => valueCache[w][k] = store[k]
=============================================================================
