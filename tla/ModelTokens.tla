---------------------------- MODULE ModelTokens ----------------------------
(***************************************************************************)
(* The table of outbound tokens that the generic proxy keeps for the models*)
(* of a route.  It is loaded from a JSON file at start and reloaded by the *)
(* requests that use it: one that finds the last check older than the ttl  *)
(* compares the file's mtime and size with those recorded, and on a change *)
(* reads the file again and replaces the table.  Nothing serialises the    *)
(* requests that do so, nor them and whoever writes the file.              *)
(*                                                                         *)
(* Version v of the file is its v-th state, with its own mtime and size:   *)
(* a good document, a bad one (one half written, say) or no file.  What is *)
(* in the table is known by the version it was read from.  An env:// table *)
(* is never reloaded and is left out.                                      *)
(***************************************************************************)
EXTENDS Naturals, FiniteSets

CONSTANTS
  Requests,
  MaxVersion    \* bound: states the file goes through

ASSUME VersionAssumption == MaxVersion \in Nat \ {0}

VARIABLES
  kind,       \* kind[v]: what version v of the file is
  file,       \* the version the file has now
  boot,       \* NewModelTokenTable: step
  groups,     \* version t.groups was built from, 0 when there is no table
  stamp,      \* version t.mtime and t.size belong to, 0 when never recorded
  fresh,      \* t.lastCheck is not older than the ttl
  pc, stat, doc,   \* of each request: step, version it saw by Stat and read
  used        \* used[r]: version of the table of its last token

fileVars  == <<kind, file>>
tableVars == <<groups, stamp, fresh>>
reqVars   == <<pc, stat, doc, used>>
vars == <<fileVars, boot, tableVars, reqVars>>

Version == 1 .. MaxVersion
Kind == {"good", "bad", "missing"}
Step == {"idle", "ttl", "stat", "compare", "read", "install", "lookup"}

Goto(r, step) == pc' = [pc EXCEPT ![r] = step]
----------------------------------------------------------------------------
\* Somebody writes, replaces or removes the file.
WriteFile ==
  /\ file < MaxVersion
  /\ file' = file + 1
  /\ \E k \in Kind : kind' = [kind EXCEPT ![file + 1] = k]
  /\ UNCHANGED <<boot, tableVars, reqVars>>

(* NewModelTokenTable: ReadFile, then Stat, then the document is checked.   *)
BootRead ==
  /\ boot = "read"
  /\ IF kind[file] = "good"
       THEN boot' = "stat" /\ groups' = file
       ELSE boot' = "failed" /\ UNCHANGED groups
  /\ UNCHANGED <<fileVars, stamp, fresh, reqVars>>

\* A Stat that fails is ignored; either way the check counts as made.
BootStat ==
  /\ boot = "stat"
  /\ stamp' = IF kind[file] = "missing" THEN stamp ELSE file
  /\ fresh' = TRUE
  /\ boot' = "ready"
  /\ UNCHANGED <<fileVars, groups, reqVars>>

\* The error is returned, and the route starts without a table.
BootFailed == boot = "failed" /\ UNCHANGED vars

\* The ttl runs out.
Expire ==
  /\ boot = "ready" /\ fresh
  /\ fresh' = FALSE
  /\ UNCHANGED <<fileVars, boot, groups, stamp, reqVars>>
----------------------------------------------------------------------------
(* Token, maybeReload and reloadIfChanged, for a model that is in the table.*)

Arrive(r) ==
  /\ boot = "ready" /\ pc[r] = "idle"
  /\ Goto(r, "ttl")
  /\ UNCHANGED <<fileVars, boot, tableVars, stat, doc, used>>

CheckTTL(r) ==
  /\ pc[r] = "ttl"
  /\ Goto(r, IF fresh THEN "lookup" ELSE "stat")
  /\ UNCHANGED <<fileVars, boot, tableVars, stat, doc, used>>

\* Mutant: the error is overlooked.
StatIgnoresError(r) ==
  /\ pc[r] = "stat"
  /\ Goto(r, "compare")
  /\ stat' = [stat EXCEPT ![r] = IF kind[file] = "missing" THEN 0 ELSE file]
  /\ UNCHANGED <<fileVars, boot, tableVars, doc, used>>

\* A Stat that fails ends the check; the old table stays.
Stat(r) ==
  /\ pc[r] = "stat"
  /\ IF kind[file] = "missing"
       THEN Goto(r, "lookup") /\ UNCHANGED stat
       ELSE Goto(r, "compare") /\ stat' = [stat EXCEPT ![r] = file]
  /\ UNCHANGED <<fileVars, boot, tableVars, doc, used>>

\* Mutant: the comparison is the wrong way round.
ChangedInverted(r) == stat[r] = stamp

\* The mtime or the size is not the recorded one.
Changed(r) == stat[r] # stamp

Compare(r) ==
  /\ pc[r] = "compare"
  /\ IF Changed(r)
       THEN Goto(r, "read") /\ UNCHANGED <<fresh, stat>>
       ELSE Goto(r, "lookup") /\ fresh' = TRUE /\ stat' = [stat EXCEPT ![r] = 0]
  /\ UNCHANGED <<fileVars, boot, groups, stamp, doc, used>>

\* Mutant: whatever was read is installed.
ReadUnchecked(r) ==
  /\ pc[r] = "read"
  /\ Goto(r, "install") /\ doc' = [doc EXCEPT ![r] = file]
  /\ UNCHANGED <<fileVars, boot, tableVars, stat, used>>

\* A document that cannot be read, parsed or turned into groups is an error.
Read(r) ==
  /\ pc[r] = "read"
  /\ IF kind[file] = "good"
       THEN Goto(r, "install") /\ doc' = [doc EXCEPT ![r] = file] /\ UNCHANGED stat
       ELSE Goto(r, "lookup") /\ stat' = [stat EXCEPT ![r] = 0] /\ UNCHANGED doc
  /\ UNCHANGED <<fileVars, boot, tableVars, used>>

\* Mutant: the file is looked at again to record its mtime and size.
InstallRestat(r) ==
  /\ pc[r] = "install"
  /\ groups' = doc[r] /\ stamp' = file /\ fresh' = TRUE
  /\ stat' = [stat EXCEPT ![r] = 0] /\ doc' = [doc EXCEPT ![r] = 0]
  /\ Goto(r, "lookup")
  /\ UNCHANGED <<fileVars, boot, used>>

Install(r) ==
  /\ pc[r] = "install"
  /\ groups' = doc[r] /\ stamp' = stat[r] /\ fresh' = TRUE
  /\ stat' = [stat EXCEPT ![r] = 0] /\ doc' = [doc EXCEPT ![r] = 0]
  /\ Goto(r, "lookup")
  /\ UNCHANGED <<fileVars, boot, used>>

Lookup(r) ==
  /\ pc[r] = "lookup"
  /\ used' = [used EXCEPT ![r] = groups]
  /\ Goto(r, "idle")
  /\ UNCHANGED <<fileVars, boot, tableVars, stat, doc>>
----------------------------------------------------------------------------
Init ==
  /\ kind \in {[[v \in Version |-> "missing"] EXCEPT ![1] = k] : k \in Kind}
  /\ file = 1
  /\ boot = "read"
  /\ groups = 0 /\ stamp = 0 /\ fresh = FALSE
  /\ pc = [r \in Requests |-> "idle"]
  /\ stat = [r \in Requests |-> 0] /\ doc = [r \in Requests |-> 0]
  /\ used = [r \in Requests |-> 0]

Boot == BootRead \/ BootStat

RequestStep(r) ==
  Arrive(r) \/ CheckTTL(r) \/ Stat(r) \/ Compare(r) \/ Read(r) \/ Install(r) \/ Lookup(r)

Next == WriteFile \/ Boot \/ BootFailed \/ Expire \/ \E r \in Requests : RequestStep(r)

Spec == Init /\ [][Next]_vars

(* Requests keep coming, and each runs to its end; time passes.             *)
FairSpec ==
  Spec /\ WF_vars(Boot) /\ WF_vars(Expire) /\ \A r \in Requests : WF_vars(RequestStep(r))
----------------------------------------------------------------------------
(* Properties.                                                              *)

\* What a request holds at each step.
Holding(r) ==
  /\ pc[r] \in {"compare", "read", "install"} <=> stat[r] # 0
  /\ pc[r] = "install" <=> doc[r] # 0

TypeOK ==
  /\ kind \in [Version -> Kind]
  /\ file \in Version
  /\ boot \in {"read", "stat", "ready", "failed"}
  /\ groups \in 0 .. file /\ stamp \in 0 .. file
  /\ fresh \in BOOLEAN
  /\ pc \in [Requests -> Step]
  /\ stat \in [Requests -> 0 .. file]
  /\ doc \in [Requests -> 0 .. file]
  /\ used \in [Requests -> 0 .. file]
  /\ \A r \in Requests : Holding(r)

(* "A failed reload keeps the old table" (model_tokens.go:179): no request   *)
(* ever gets a token from a document that was half written or removed,      *)
(* however reads and writes of the file overlap.                            *)
OnlyGoodTables == \A r \in Requests : used[r] # 0 => kind[used[r]] = "good"

(* A reload never records a newer mtime than that of the content it         *)
(* installs, so a change made during the reload is seen by the next check.  *)
InstallsNoOlder ==
  [][(groups' # groups /\ boot = "ready") => groups' >= stamp']_vars

(* When the file stays good and unchanged, the table ends up with its       *)
(* content, even when an older reload has overtaken a newer one; only a     *)
(* table that the constructor paired with a later mtime never gets there.   *)
Converges ==
  \A v \in Version :
    <>[](boot = "ready" /\ file = v /\ kind[v] = "good") => <>[](groups = v \/ groups < stamp)

(* "A change of mtime or size reloads, no restart needed" (model_tokens.go: *)
(* 28): a table that believes to be up to date is.                          *)
UpToDate ==
  boot = "ready" /\ stamp = file /\ kind[file] = "good" => groups = file
=============================================================================
