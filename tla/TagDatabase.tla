----------------------------- MODULE TagDatabase -----------------------------
(***************************************************************************)
(* How EhSyringe keeps its translations of tags, in one window of the      *)
(* mirror: TagDatabase takes them from storage or has them built anew,     *)
(* DatabaseUpdater looks for a release and downloads it, AutoUpdate and the*)
(* popup ask it to, and Syringe shows the translations on the page, from a *)
(* second copy that it keeps in synchronous storage.                       *)
(*                                                                         *)
(* Releases are numbered; a copy of the translations is the number of the  *)
(* release it was made from, 0 for the empty one.  An action is a callback *)
(* with all the promise callbacks it resolves.  Storage is gm-polyfill.js  *)
(* seen from one window: a cache, filled when the preload is done, and     *)
(* puts that reach the database in their order, as far as the window lives.*)
(* Another window may put a whole release of its own, which the cache is   *)
(* told of; EhSyringe is not: what it remembers of storage is stale then.  *)
(* Overrides, progress and badges are left out; releases and mirrors are   *)
(* external: they may fail, or not answer at all, but an answer is not     *)
(* older than what was current when it was asked for.                      *)
(***************************************************************************)
EXTENDS Integers, Sequences, FiniteSets

CONSTANTS
  Presses,      \* what the user asks for in the popup, once each
  MaxReleased,  \* bound: releases
  MaxLoads      \* bound: loads of the page

ASSUME TagBoundsAssumption == MaxReleased \in Nat \ {0} /\ MaxLoads \in Nat \ {0}
ASSUME PressesAssumption ==
  IsFiniteSet(Presses) /\ Presses \cap {"rebuild", "auto", "nobody"} = {}

VARIABLES
  released,     \* the latest release
  disk, cache,  \* storage: what the next load will find; valueCache
  lost,         \* the puts from here on are not done when the page is left
  loaded, snapshot,   \* the preload is done; what it will find until then
  boot, info,   \* TagDatabase.init: what it is about to do; databaseInfo as read
  tagMap,       \* the translations: label (sha) and content (map)
  lastCheck, recent, checked,    \* release last seen; within 5 minutes; this.checked
  task,         \* of each handler of update-database: its await
  goal,         \* the release current when it asked for the latest, or the one
                \* it downloads
  updating, waitsFor,   \* the handler whose promise this.updating is, awaited by whom
  have, shown,  \* Syringe: databaseSha as read at the start; its tagMap
  loads,
  torn,         \* history: a label met the content of another release: the page was left
                \* between the two puts, or another window put both between the two reads
  overwritten,  \* history: the preload wrote over what the window had set
  told,         \* history: another window put a release while this one was open
  foreign,      \* history: databaseSha is the label of what another window shows
  misled,       \* history: Syringe took such a label, or the copy under it, for its own
  overtaken,    \* history: a check was answered after a later one
  crowded       \* history: two handlers waited for one update

savedVars   == <<disk, cache, lost, torn>>
preloadVars == <<loaded, snapshot, overwritten, told>>
storageVars == <<savedVars, preloadVars>>
bootVars    == <<boot, info, loads>>
checkVars   == <<released, lastCheck, recent, checked, overtaken>>
taskVars    == <<task, goal, updating, waitsFor, crowded>>
pageVars    == <<tagMap, have, shown, foreign, misled>>
tagVars == <<storageVars, bootVars, checkVars, taskVars, pageVars>>

Undefined == -1
Nobody == "nobody"
Handlers == {"rebuild", "auto"} \cup Presses
Items == {"databaseInfo", "database", "release", "databaseMap", "databaseSha"}
NoMap == [label |-> Undefined, content |-> Undefined]
EmptyMap == [label |-> 0, content |-> 0]

Is(item, val) == [item |-> item, val |-> val]
AllOf(v) == [i \in Items |-> v]
NoItems == AllOf(Undefined)
After(list, old) ==
  [i \in Items |-> IF \E j \in DOMAIN list : list[j].item = i
                   THEN (CHOOSE p \in {list[j] : j \in DOMAIN list} : p.item = i).val
                   ELSE old[i]]

(* Without the put that comes next, storage d has a label that is not that  *)
(* of its content: the database is put after its label, and a copy that went*)
(* back before its own.                                                     *)
HalfPut(next, d) ==
  \/ next.item = "database"
  \/ next.item = "databaseSha" /\ next.val < d["databaseSha"]

(* GM_setValue of a list of different items.  Only a page that starts reads *)
(* the database, so that it can be settled here which puts are done when    *)
(* this one is left: if one is not, no later one is.  The last page stays.  *)
Done(list) == IF lost THEN {0}
              ELSE IF loads = MaxLoads THEN {Len(list)} ELSE 0 .. Len(list)

Save(list) ==
  \E n \in Done(list) :
    /\ disk' = After(SubSeq(list, 1, n), disk)
    /\ cache' = After(list, cache)
    /\ lost' = (lost \/ n < Len(list))
    /\ torn' = (torn \/ (~lost /\ n < Len(list) /\ HalfPut(list[n + 1], disk')))
----------------------------------------------------------------------------
GoesByStorage == misled' = (misled \/ foreign) /\ UNCHANGED foreign
Shows(content) == shown' = content /\ foreign' = FALSE /\ UNCHANGED misled

\* Mutant: the label is put before the map.
ShowLabelFirst(map, old, rest) ==
  IF old = map.label
    THEN Save(rest) /\ GoesByStorage /\ UNCHANGED shown
    ELSE /\ Save(<<Is("databaseSha", map.label), Is("databaseMap", map.content)>> \o rest)
         /\ Shows(map.content)

(* Syringe.updateTagMap: a map with another label than old is shown, and    *)
(* put before its label.  What TagDatabase puts, from timers, comes after.  *)
Show(map, old, rest) ==
  IF old = map.label
    THEN Save(rest) /\ GoesByStorage /\ UNCHANGED shown
    ELSE /\ Save(<<Is("databaseMap", map.content), Is("databaseSha", map.label)>> \o rest)
         /\ Shows(map.content)

(* updateConfig, at the start: what is in storage, unless there is a map.   *)
ShowCopy ==
  /\ shown = Undefined /\ cache["databaseMap"] # Undefined
  /\ shown' = cache["databaseMap"] /\ GoesByStorage
  /\ UNCHANGED <<storageVars, bootVars, checkVars, taskVars, tagMap, have>>
----------------------------------------------------------------------------
(* TagDatabase.init reads databaseInfo and database in two timers.          *)
ReadInfo ==
  /\ boot = "info"
  /\ boot' = "map"
  /\ info' = cache["databaseInfo"]
  /\ UNCHANGED <<loads, storageVars, checkVars, taskVars, pageVars>>

(* The first map answers Syringe's request.  The page is told of later ones *)
(* from here on, or after the rebuild.                                      *)
ReadMap ==
  LET map == [label |-> info, content |-> cache["database"]]
      found == map.label # Undefined /\ map.content # Undefined
  IN
  /\ boot = "map"
  /\ boot' = IF found THEN "up" ELSE "rebuild"
  /\ tagMap' = IF found THEN map ELSE EmptyMap
  /\ Show(tagMap', have, <<>>)
  /\ info' = Undefined /\ have' = Undefined
  /\ UNCHANGED <<loads, preloadVars, checkVars, taskVars>>
----------------------------------------------------------------------------
(* DatabaseUpdater.  The release last seen is one object, so that whoever   *)
(* awaits a check compares with the newest answer when it goes on.          *)
Known == recent /\ lastCheck # 0

Goes(h, where, number) ==
  /\ task' = [task EXCEPT ![h] = where]
  /\ goal' = [goal EXCEPT ![h] = number]
Settles(h, where) == Goes(h, where, 0) /\ UNCHANGED <<updating, waitsFor>>

\* update -> download -> checkVersion.
Where(fresh) == IF fresh THEN "download" ELSE "recheck"
Number(seen, fresh) == IF fresh THEN seen ELSE released

\* Mutant: nobody waits for the update that is under way.
WaitOrBeginAtOnce(h, seen, fresh) ==
  updating' = h /\ Goes(h, Where(fresh), Number(seen, fresh)) /\ UNCHANGED waitsFor

(* await this.updating                                                      *)
WaitOrBegin(h, seen, fresh) ==
  IF updating = Nobody
    THEN updating' = h /\ Goes(h, Where(fresh), Number(seen, fresh)) /\ UNCHANGED waitsFor
    ELSE /\ Goes(h, "wait", 0) /\ waitsFor' = [waitsFor EXCEPT ![h] = updating]
         /\ UNCHANGED updating

(* There is a release: seen.  AutoUpdate goes on only if it is another than *)
(* that of the map, once there is a map.                                    *)
Consider(h, seen) ==
  IF h # "auto" THEN WaitOrBegin(h, seen, TRUE)
  ELSE IF tagMap = NoMap
    THEN Settles(h, "compare")
  ELSE IF tagMap.label = seen
    THEN Settles(h, "done")
  ELSE WaitOrBegin(h, seen, TRUE)

(* The message update-database arrives: at the end of a failed start, from  *)
(* AutoUpdate, or from the popup's button.                                  *)
Update(h) ==
  /\ task[h] = "idle"
  /\ h = "rebuild" => boot = "rebuild"
  /\ IF h = "auto" /\ checked
       THEN Settles(h, "done")
     ELSE IF Known
       THEN Consider(h, lastCheck)
     ELSE Goes(h, "check", released) /\ UNCHANGED <<updating, waitsFor>>
  /\ UNCHANGED <<crowded, storageVars, bootVars, checkVars, pageVars>>

\* get-tag-sha is answered when there is a map.
Compare(h) ==
  /\ task[h] = "compare" /\ tagMap # NoMap
  /\ IF tagMap.label = lastCheck
       THEN Settles(h, "done")
       ELSE WaitOrBegin(h, lastCheck, recent)
  /\ UNCHANGED <<crowded, storageVars, bootVars, checkVars, pageVars>>

(* The message check-database, when the popup is opened.                    *)
Check(h) ==
  /\ h \in Presses /\ task[h] = "idle"
  /\ Goes(h, "look", released)
  /\ UNCHANGED <<updating, waitsFor, crowded, storageVars, bootVars, checkVars, pageVars>>

(* An answer replaces the last one, whichever was asked for first.          *)
Answered(h) ==
  /\ task[h] \in {"check", "recheck", "look"}
  /\ \E v \in goal[h] .. released :
       /\ lastCheck' = v
       /\ overtaken' = (overtaken \/ v < lastCheck)
       /\ Save(<<Is("release", v)>>)
       /\ CASE task[h] = "check" -> Consider(h, v)
            [] task[h] = "recheck" -> Goes(h, "download", v) /\ UNCHANGED <<updating, waitsFor>>
            [] task[h] = "look" -> Settles(h, "done")
  /\ recent' = TRUE /\ checked' = TRUE
  /\ UNCHANGED <<released, preloadVars, bootVars, crowded, pageVars>>

\* The message fails, and with it the start of TagDatabase if that had sent it.
CheckFails(h) ==
  /\ task[h] \in {"check", "look"}
  /\ Settles(h, "done")
  /\ boot' = IF h = "rebuild" THEN "failed" ELSE boot
  /\ UNCHANGED <<info, loads, storageVars, checkVars, crowded, pageVars>>

(* An update ends: its handler clears this.updating, and those that waited  *)
(* begin theirs, the last one in its place.  A rebuild ends the start.      *)
Ended(h) ==
  LET W == {g \in Handlers : task[g] = "wait" /\ waitsFor[g] = h} IN
  /\ task' = [g \in Handlers |-> IF g \in W THEN Where(Known)
                                 ELSE IF g = h THEN "done" ELSE task[g]]
  /\ goal' = [g \in Handlers |-> IF g \in W THEN Number(lastCheck, Known)
                                 ELSE IF g = h THEN 0 ELSE goal[g]]
  /\ IF W = {} THEN updating' = Nobody ELSE updating' \in W
  /\ crowded' = (crowded \/ Cardinality(W) > 1)
  /\ waitsFor' = [g \in Handlers |-> IF g \in W THEN Nobody ELSE waitsFor[g]]
  /\ boot' = IF h = "rebuild" THEN "up" ELSE boot

(* TagDatabase.update, from the message update-tag.                         *)
Downloaded(h) ==
  LET map == [label |-> goal[h], content |-> goal[h]]
      rest == <<Is("databaseInfo", goal[h]), Is("database", goal[h])>>
  IN
  /\ task[h] = "download" /\ tagMap # NoMap
  /\ Ended(h)
  /\ tagMap' = map
  /\ IF boot' = "up" THEN Show(map, cache["databaseSha"], rest)
                     ELSE Save(rest) /\ UNCHANGED <<shown, foreign, misled>>
  /\ UNCHANGED <<info, loads, preloadVars, checkVars, have>>

\* No mirror has it, a check before it fails, or there is no update-tag yet.
DownloadFails(h) ==
  /\ task[h] \in {"download", "recheck"}
  /\ Ended(h)
  /\ IF h = "rebuild" THEN Show(tagMap, cache["databaseSha"], <<>>)
                      ELSE UNCHANGED <<savedVars, shown, foreign, misled>>
  /\ UNCHANGED <<info, loads, preloadVars, checkVars, tagMap, have>>

(* DatabaseUpdater.init                                                     *)
ReadRelease ==
  /\ lastCheck = 0 /\ cache["release"] # Undefined
  /\ lastCheck' = cache["release"]
  /\ UNCHANGED <<released, recent, checked, overtaken, storageVars, bootVars, taskVars, pageVars>>
----------------------------------------------------------------------------
(* Storage, time and releases.                                              *)
Preload ==
  /\ ~loaded
  /\ loaded' = TRUE /\ snapshot' = NoItems
  /\ cache' = [i \in Items |-> IF snapshot[i] # Undefined THEN snapshot[i] ELSE cache[i]]
  /\ overwritten' = (overwritten \/ \E i \in Items : cache[i] \notin {Undefined, cache'[i]})
  /\ UNCHANGED <<disk, lost, torn, told, bootVars, checkVars, taskVars, pageVars>>

(* Another window takes release v.  Its puts are told one by one; that this *)
(* window does something between two of them is left out.                   *)
OtherWindow(v) ==
  /\ v \in 1 .. released
  /\ disk' = AllOf(v) /\ cache' = AllOf(v)
  /\ snapshot' = IF loaded THEN NoItems ELSE AllOf(v)
  /\ told' = TRUE /\ foreign' = TRUE
  /\ torn' = (torn \/ (boot = "map" /\ info \notin {Undefined, v}))
  /\ recent' \in IF lastCheck = 0 THEN BOOLEAN ELSE {recent}
  /\ UNCHANGED <<lost, loaded, overwritten, bootVars, released, lastCheck, checked, overtaken,
                 taskVars, tagMap, have, shown, misled>>

(* Of a page that starts: the scripts run before the preload or after it.   *)
Start(d) ==
  /\ \/ loaded' = TRUE /\ cache' = d /\ snapshot' = NoItems
     \/ loaded' = FALSE /\ cache' = NoItems /\ snapshot' = d
  /\ lost' = FALSE /\ overwritten' = FALSE /\ foreign' = FALSE /\ misled' = FALSE
  /\ boot' = "info" /\ info' = Undefined
  /\ tagMap' = NoMap /\ shown' = Undefined
  /\ have' = cache'["databaseSha"] - (IF cache'["databaseSha"] = Undefined THEN 1 ELSE 0)
  /\ lastCheck' = 0 /\ checked' = FALSE /\ crowded' = FALSE
  /\ goal' = [h \in Handlers |-> 0]
  /\ updating' = Nobody /\ waitsFor' = [h \in Handlers |-> Nobody]

(* The page is left at any moment, before the preload with no put done, and *)
(* opened again; another window may have taken a release in between.        *)
Reopen ==
  /\ loads < MaxLoads
  /\ loads' = loads + 1
  /\ \/ /\ disk' = IF loaded THEN disk ELSE snapshot
        /\ UNCHANGED <<recent, overtaken, torn, told>>
     \/ /\ \E v \in 1 .. released : disk' = AllOf(v)
        /\ recent' \in BOOLEAN
        /\ overtaken' = FALSE /\ torn' = FALSE /\ told' = FALSE
  /\ Start(disk')
  /\ task' = [h \in Handlers |-> IF h \in Presses /\ task[h] # "idle" THEN "done" ELSE "idle"]
  /\ UNCHANGED released

Publish ==
  /\ released < MaxReleased
  /\ released' = released + 1
  /\ UNCHANGED <<lastCheck, recent, checked, overtaken, storageVars, bootVars, taskVars, pageVars>>

FiveMinutes ==
  /\ recent
  /\ recent' = FALSE
  /\ UNCHANGED <<released, lastCheck, checked, overtaken, storageVars, bootVars, taskVars, pageVars>>
----------------------------------------------------------------------------
\* Never used before, or with the first release in storage.
TagInit ==
  /\ released = 1
  /\ disk \in {NoItems, AllOf(1)}
  /\ \/ loaded = TRUE /\ cache = disk /\ snapshot = NoItems
     \/ loaded = FALSE /\ cache = NoItems /\ snapshot = disk
  /\ lost = FALSE /\ overwritten = FALSE /\ foreign = FALSE /\ misled = FALSE
  /\ boot = "info" /\ info = Undefined
  /\ tagMap = NoMap /\ shown = Undefined
  /\ have = cache["databaseSha"] - (IF cache["databaseSha"] = Undefined THEN 1 ELSE 0)
  /\ lastCheck = 0 /\ recent = FALSE /\ checked = FALSE
  /\ overtaken = FALSE /\ crowded = FALSE /\ torn = FALSE /\ told = FALSE
  /\ loads = 1
  /\ task = [h \in Handlers |-> "idle"]
  /\ goal = [h \in Handlers |-> 0]
  /\ updating = Nobody /\ waitsFor = [h \in Handlers |-> Nobody]

TagNext ==
  \/ ReadInfo \/ ReadMap \/ ShowCopy \/ ReadRelease
  \/ \E h \in Handlers :
       \/ Update(h) \/ Compare(h) \/ Check(h)
       \/ Answered(h) \/ CheckFails(h) \/ Downloaded(h) \/ DownloadFails(h)
  \/ Preload \/ Reopen \/ Publish \/ FiveMinutes
  \/ \E v \in 1 .. released : OtherWindow(v)

TagSpec == TagInit /\ [][TagNext]_tagVars
----------------------------------------------------------------------------
Stages == {"idle", "check", "compare", "look", "wait", "recheck", "download", "done"}

TagTypeOK ==
  /\ released \in 1 .. MaxReleased /\ loads \in 1 .. MaxLoads
  /\ disk \in [Items -> Undefined .. MaxReleased] /\ cache \in [Items -> Undefined .. MaxReleased]
  /\ snapshot \in [Items -> Undefined .. MaxReleased]
  /\ boot \in {"info", "map", "rebuild", "failed", "up"} /\ info \in Undefined .. MaxReleased
  /\ tagMap \in [label : Undefined .. MaxReleased, content : Undefined .. MaxReleased]
  /\ lastCheck \in 0 .. MaxReleased
  /\ task \in [Handlers -> Stages]
  /\ goal \in [Handlers -> 0 .. MaxReleased]
  /\ updating \in Handlers \cup {Nobody} /\ waitsFor \in [Handlers -> Handlers \cup {Nobody}]
  /\ have \in Undefined - 1 .. MaxReleased /\ shown \in Undefined .. MaxReleased
  /\ {loaded, lost, recent, checked} \subseteq BOOLEAN
  /\ {torn, overwritten, told, foreign, misled, overtaken, crowded} \subseteq BOOLEAN

(* The page shows translations no older than those of its database: the     *)
(* copy in synchronous storage and its label stay right whenever the window *)
(* is closed, because the label is put last (EhSyringe.user.js:22578-22579),*)
(* and whatever another window puts, but for three steps: a label met the   *)
(* content of another release (torn); the preload wrote over what the page  *)
(* had set; and Syringe took what another window has put for its own, since *)
(* the label is read from storage (misled, EhSyringe.user.js:22568).        *)
PageKeepsUp ==
  boot = "up" /\ shown # Undefined /\ ~torn /\ ~overwritten /\ ~misled => shown >= tagMap.label

(* Within a load, translations are never replaced by older ones, although   *)
(* checks and downloads overlap, but for three cases: a check answered after*)
(* a later one, two handlers let go at once by await this.updating, and a   *)
(* release put by another window, which this one had not seen.              *)
NeverBack ==
  [][loads' = loads /\ ~overtaken' /\ ~crowded /\ ~told => tagMap'.label >= tagMap.label]_tagVars
=============================================================================
