----------------------------- MODULE IPRotator -----------------------------
(***************************************************************************)
(* The source-address rotator of the exhentai proxy.  A pool of slots each *)
(* serves requests from one IPv6 address (current), keeps a second one on  *)
(* standby (next), and after Threshold uses switches to the standby,       *)
(* prepares another in a background goroutine and, after a delay, removes  *)
(* the address it switched away from.  Requests are goroutines of the HTTP *)
(* server; usage is an atomic counter, current an atomic pointer, next is  *)
(* guarded by rotationMu, which requests only TryLock.                     *)
(*                                                                         *)
(* GenerateIP draws a random suffix: an address is modelled by its slot    *)
(* and its place in the order in which that slot generated addresses, so a *)
(* generated address is always a new one.                                  *)
(***************************************************************************)
EXTENDS Integers, FiniteSets

CONSTANTS
  NSlots,       \* number of slots (DefaultPoolSize)
  Requests,     \* request goroutines
  Threshold,    \* uses of an address before rotation (DefaultRotationThreshold)
  Rewind,       \* what a request takes off the counter when no standby is ready
  ErrorCost,    \* what a failed fetch adds to the counter
  MaxRetry,     \* EX_MAX_RETRY
  HasBackup,    \* whether EX_BACKUP_IP configured a backup client
  MaxAddr,      \* bound: addresses a slot generates
  MaxUsage,     \* bound: the usage counter saturates here
  Free,         \* rotationMu is not held
  Background    \* rotationMu is held by the slot's background goroutine

ASSUME SizeAssumption ==
  /\ NSlots \in Nat \ {0} /\ MaxAddr \in Nat \ {0}
  /\ MaxRetry \in Nat /\ HasBackup \in BOOLEAN
ASSUME CounterAssumption ==
  /\ Threshold \in Nat \ {0} /\ Rewind \in Nat /\ ErrorCost \in Nat
  /\ MaxUsage \in Nat /\ MaxUsage >= Threshold
ASSUME HolderAssumption ==
  /\ Free \notin Requests /\ Background \notin Requests /\ Free # Background

Slots == 0 .. NSlots - 1
Addr == 1 .. MaxAddr
NoAddr == 0

VARIABLES
  boot,      \* boot[s]: how far newClientSlot has come
  rr,        \* rrCounter modulo the number of slots
  current,   \* currentClientHolder
  next,      \* nextClient, NoAddr for nil
  usage,     \* usageCounter
  mu,        \* holder of rotationMu
  issued,    \* issued[s]: addresses slot s has generated
  iface,     \* iface[s]: addresses of slot s configured on the interface
  jobs,      \* backgroundPrepare goroutines
  pc, slot, cur, attempt   \* of each request: step, slot, loaded client, retries

slotVars == <<current, next, usage, mu>>
reqVars  == <<rr, pc, slot, cur, attempt>>
vars == <<boot, rr, current, next, usage, mu, issued, iface, jobs, pc, slot, cur, attempt>>

BootPhase == {"first", "second", "ready", "failed"}
Step == {"idle", "retry", "load", "count", "try", "switch", "reset", "unlock",
         "rewind", "reload", "fetch", "backup"}
\* One goroutine: id is the address its rotation installed, old the one it replaced.
Job == [slot : Slots, id : Addr, old : Addr, fresh : Addr \cup {NoAddr},
        phase : {"prepare", "lock", "publish", "sleep"}]

Booted == \A s \in Slots : boot[s] = "ready"

Saturate(n) == IF n > MaxUsage THEN MaxUsage ELSE n
\* A saturated counter may have counted further, so that less is missing.
Rewound(n) == IF n = MaxUsage THEN MaxUsage - Rewind .. MaxUsage ELSE {n - Rewind}
----------------------------------------------------------------------------
(* newClientSlot, run in parallel for every slot by NewIPRotator.           *)

GenerateIP(s) == issued[s] + 1
AddAddr(s, a) == iface' = [iface EXCEPT ![s] = @ \cup {a}]
\* That it may fail, which is only logged, is left out: such an address is beyond
\* what the rotator can clean up.
DelAddr(s, a) == iface' = [iface EXCEPT ![s] = @ \ {a}]

\* prepareNewClient succeeds: a new address is generated and configured.
Prepare(s) ==
  /\ issued[s] < MaxAddr
  /\ issued' = [issued EXCEPT ![s] = GenerateIP(s)]
  /\ AddAddr(s, GenerateIP(s))

BootFirst(s) ==
  /\ boot[s] = "first"
  /\ \/ /\ Prepare(s)
        /\ current' = [current EXCEPT ![s] = GenerateIP(s)]
        /\ boot' = [boot EXCEPT ![s] = "second"]
     \/ /\ boot' = [boot EXCEPT ![s] = "failed"]
        /\ UNCHANGED <<issued, iface, current>>
  /\ UNCHANGED <<reqVars, next, usage, mu, jobs>>

BootSecond(s) ==
  /\ boot[s] = "second"
  /\ \/ /\ Prepare(s)
        /\ next' = [next EXCEPT ![s] = GenerateIP(s)]
        /\ boot' = [boot EXCEPT ![s] = "ready"]
     \/ /\ DelAddr(s, current[s])
        /\ boot' = [boot EXCEPT ![s] = "failed"]
        /\ UNCHANGED <<issued, next>>
  /\ UNCHANGED <<reqVars, current, usage, mu, jobs>>

\* A slot failed: NewIPRotator returns the error and Run ends the process.
Fatal ==
  /\ \A s \in Slots : boot[s] \in {"ready", "failed"}
  /\ ~Booted
  /\ UNCHANGED vars
----------------------------------------------------------------------------
(* IPRotator.FetchWithRetry, IPRotator.Fetch and clientSlot.execute.        *)

Goto(r, step) == pc' = [pc EXCEPT ![r] = step]

\* The request is answered; its locals go out of scope.
Finish(r) ==
  /\ Goto(r, "idle")
  /\ slot' = [slot EXCEPT ![r] = 0]
  /\ cur' = [cur EXCEPT ![r] = NoAddr]
  /\ attempt' = [attempt EXCEPT ![r] = 0]

\* Mutant: the index wraps one too late.
ChooseOneTooFar(r) ==
  /\ rr' = IF rr = NSlots THEN 0 ELSE rr + 1
  /\ slot' = [slot EXCEPT ![r] = rr']
  /\ Goto(r, "load")
  /\ UNCHANGED <<boot, slotVars, issued, iface, jobs, cur, attempt>>

\* Fetch takes the next slot in turn.
Choose(r) ==
  /\ rr' = IF rr + 1 = NSlots THEN 0 ELSE rr + 1
  /\ slot' = [slot EXCEPT ![r] = rr']
  /\ Goto(r, "load")
  /\ UNCHANGED <<boot, slotVars, issued, iface, jobs, cur, attempt>>

Arrive(r) == Booted /\ pc[r] = "idle" /\ Choose(r)

Retry(r) == pc[r] = "retry" /\ Choose(r)

LoadClient(r) ==
  /\ pc[r] = "load"
  /\ cur' = [cur EXCEPT ![r] = current[slot[r]]]
  /\ Goto(r, "count")
  /\ UNCHANGED <<boot, slotVars, issued, iface, jobs, rr, slot, attempt>>

Count(r) ==
  /\ pc[r] = "count"
  /\ usage' = [usage EXCEPT ![slot[r]] = Saturate(@ + 1)]
  /\ Goto(r, IF usage[slot[r]] + 1 >= Threshold THEN "try" ELSE "fetch")
  /\ UNCHANGED <<boot, current, next, mu, issued, iface, jobs, rr, slot, cur, attempt>>

TryRotate(r) ==
  /\ pc[r] = "try"
  /\ IF mu[slot[r]] = Free
       THEN mu' = [mu EXCEPT ![slot[r]] = r] /\ Goto(r, "switch")
       ELSE UNCHANGED mu /\ Goto(r, "fetch")
  /\ UNCHANGED <<boot, current, next, usage, issued, iface, jobs, rr, slot, cur, attempt>>

\* Mutant: the early return forgets to unlock.
NotReadyKeepsLock(r) ==
  /\ pc[r] = "switch"
  /\ next[slot[r]] = NoAddr
  /\ Goto(r, "rewind")
  /\ UNCHANGED <<boot, slotVars, issued, iface, jobs, rr, slot, cur, attempt>>

\* performRotation with no standby: unlock, then take Rewind off the counter.
NotReady(r) ==
  /\ pc[r] = "switch"
  /\ next[slot[r]] = NoAddr
  /\ mu' = [mu EXCEPT ![slot[r]] = Free]
  /\ Goto(r, "rewind")
  /\ UNCHANGED <<boot, current, next, usage, issued, iface, jobs, rr, slot, cur, attempt>>

RewindCounter(r) ==
  /\ pc[r] = "rewind"
  /\ \E n \in Rewound(usage[slot[r]]) : usage' = [usage EXCEPT ![slot[r]] = n]
  /\ Goto(r, "reload")
  /\ UNCHANGED <<boot, current, next, mu, issued, iface, jobs, rr, slot, cur, attempt>>

\* Mutant: nextClient is not cleared.
SwitchKeepsNext(r) ==
  /\ pc[r] = "switch"
  /\ next[slot[r]] # NoAddr
  /\ current' = [current EXCEPT ![slot[r]] = next[slot[r]]]
  /\ Goto(r, "reset")
  /\ UNCHANGED <<boot, next, usage, mu, issued, iface, jobs, rr, slot, cur, attempt>>

\* performRotation with a standby: switch, reset the counter, unlock, spawn.
Switch(r) ==
  /\ pc[r] = "switch"
  /\ next[slot[r]] # NoAddr
  /\ current' = [current EXCEPT ![slot[r]] = next[slot[r]]]
  /\ next' = [next EXCEPT ![slot[r]] = NoAddr]
  /\ Goto(r, "reset")
  /\ UNCHANGED <<boot, usage, mu, issued, iface, jobs, rr, slot, cur, attempt>>

ResetCounter(r) ==
  /\ pc[r] = "reset"
  /\ usage' = [usage EXCEPT ![slot[r]] = 0]
  /\ Goto(r, "unlock")
  /\ UNCHANGED <<boot, current, next, mu, issued, iface, jobs, rr, slot, cur, attempt>>

\* Mutant: the goroutine cleans up the client that was just installed.
SpawnForNew(r) ==
  jobs' = jobs \cup {[slot |-> slot[r], id |-> current[slot[r]], old |-> current[slot[r]],
                      fresh |-> NoAddr, phase |-> "prepare"]}

\* The goroutine is told to clean up the client this request had loaded.
Spawn(r) ==
  jobs' = jobs \cup {[slot |-> slot[r], id |-> current[slot[r]], old |-> cur[r],
                      fresh |-> NoAddr, phase |-> "prepare"]}

UnlockAndSpawn(r) ==
  /\ pc[r] = "unlock"
  /\ mu' = [mu EXCEPT ![slot[r]] = Free]
  /\ Spawn(r)
  /\ Goto(r, "reload")
  /\ UNCHANGED <<boot, current, next, usage, issued, iface, rr, slot, cur, attempt>>

Reload(r) ==
  /\ pc[r] = "reload"
  /\ cur' = [cur EXCEPT ![r] = current[slot[r]]]
  /\ Goto(r, "fetch")
  /\ UNCHANGED <<boot, slotVars, issued, iface, jobs, rr, slot, attempt>>

\* The dialer binds to the address: it can only work while it is configured.
FetchOk(r) ==
  /\ pc[r] = "fetch"
  /\ cur[r] \in iface[slot[r]]
  /\ Finish(r)
  /\ UNCHANGED <<boot, slotVars, issued, iface, jobs, rr>>

\* Mutant: the retry loop does not count.
FetchFailsUncounted(r) ==
  /\ pc[r] = "fetch"
  /\ usage' = [usage EXCEPT ![slot[r]] = Saturate(@ + ErrorCost)]
  /\ Goto(r, "retry")
  /\ UNCHANGED <<boot, current, next, mu, issued, iface, jobs, rr, slot, cur, attempt>>

\* A failed attempt costs ErrorCost uses; then a retry, the backup or the error.
FetchFails(r) ==
  /\ pc[r] = "fetch"
  /\ usage' = [usage EXCEPT ![slot[r]] = Saturate(@ + ErrorCost)]
  /\ \/ /\ attempt[r] < MaxRetry
        /\ attempt' = [attempt EXCEPT ![r] = @ + 1]
        /\ Goto(r, "retry")
        /\ UNCHANGED <<slot, cur>>
     \/ /\ attempt[r] = MaxRetry /\ HasBackup
        /\ Goto(r, "backup")
        /\ UNCHANGED <<slot, cur, attempt>>
     \/ /\ attempt[r] = MaxRetry /\ ~HasBackup
        /\ Finish(r)
  /\ UNCHANGED <<boot, current, next, mu, issued, iface, jobs, rr>>

\* The backup client answers, or its nil response is dereferenced and
\* gin.Recovery ends the request.
BackupFetch(r) ==
  /\ pc[r] = "backup"
  /\ Finish(r)
  /\ UNCHANGED <<boot, slotVars, issued, iface, jobs, rr>>
----------------------------------------------------------------------------
(* clientSlot.backgroundPrepare.                                            *)

Advance(j, k) == jobs' = (jobs \ {j}) \cup {k}

PrepareNext(j) ==
  /\ j.phase = "prepare"
  /\ Prepare(j.slot)
  /\ Advance(j, [j EXCEPT !.fresh = GenerateIP(j.slot), !.phase = "lock"])
  /\ UNCHANGED <<boot, reqVars, slotVars>>

\* The error is only logged; the slot is left without a standby.
PrepareFails(j) ==
  /\ j.phase = "prepare"
  /\ Advance(j, [j EXCEPT !.phase = "sleep"])
  /\ UNCHANGED <<boot, reqVars, slotVars, issued, iface>>

LockForPublish(j) ==
  /\ j.phase = "lock"
  /\ mu[j.slot] = Free
  /\ mu' = [mu EXCEPT ![j.slot] = Background]
  /\ Advance(j, [j EXCEPT !.phase = "publish"])
  /\ UNCHANGED <<boot, reqVars, current, next, usage, issued, iface>>

Publish(j) ==
  /\ j.phase = "publish"
  /\ next' = [next EXCEPT ![j.slot] = j.fresh]
  /\ mu' = [mu EXCEPT ![j.slot] = Free]
  /\ Advance(j, [j EXCEPT !.phase = "sleep"])
  /\ UNCHANGED <<boot, reqVars, current, usage, issued, iface>>

\* After the delay: remove the old address.  Removing one that is already
\* gone fails, which is only logged.
Cleanup(j) ==
  /\ j.phase = "sleep"
  /\ DelAddr(j.slot, j.old)
  /\ jobs' = jobs \ {j}
  /\ UNCHANGED <<boot, reqVars, slotVars, issued>>
----------------------------------------------------------------------------
Init ==
  /\ boot = [s \in Slots |-> "first"]
  /\ rr = 0
  /\ current = [s \in Slots |-> NoAddr]
  /\ next = [s \in Slots |-> NoAddr]
  /\ usage = [s \in Slots |-> 0]
  /\ mu = [s \in Slots |-> Free]
  /\ issued = [s \in Slots |-> 0]
  /\ iface = [s \in Slots |-> {}]
  /\ jobs = {}
  /\ pc = [r \in Requests |-> "idle"]
  /\ slot = [r \in Requests |-> 0]
  /\ cur = [r \in Requests |-> NoAddr]
  /\ attempt = [r \in Requests |-> 0]

RequestStep(r) ==
  \/ Retry(r) \/ LoadClient(r) \/ Count(r) \/ TryRotate(r) \/ NotReady(r)
  \/ RewindCounter(r) \/ Switch(r) \/ ResetCounter(r) \/ UnlockAndSpawn(r)
  \/ Reload(r) \/ FetchOk(r) \/ FetchFails(r) \/ BackupFetch(r)

Next ==
  \/ Fatal
  \/ \E s \in Slots : BootFirst(s) \/ BootSecond(s)
  \/ \E r \in Requests : Arrive(r) \/ RequestStep(r)
  \/ \E j \in jobs : PrepareNext(j)
  \/ \E j \in jobs : PrepareFails(j)
  \/ \E j \in jobs : LockForPublish(j)
  \/ \E j \in jobs : Publish(j)
  \/ \E j \in jobs : Cleanup(j)

Spec == Init /\ [][Next]_vars

(***************************************************************************)
(* Goroutines that can run do run.  A goroutine blocked in Lock gets the   *)
(* mutex although TryLock callers come and go: Go's mutex hands itself to  *)
(* a waiter that starves.  Nothing is asked of new requests.               *)
(***************************************************************************)
Preparing(s) ==
  \E j \in jobs : /\ j.slot = s
                  /\ PrepareNext(j) \/ PrepareFails(j) \/ Publish(j)
Locking(s) == \E j \in jobs : j.slot = s /\ LockForPublish(j)

Fairness ==
  /\ \A r \in Requests : WF_vars(RequestStep(r))
  /\ \A s \in Slots : WF_vars(Preparing(s)) /\ SF_vars(Locking(s))

FairSpec == Spec /\ Fairness
----------------------------------------------------------------------------
(* Properties.                                                              *)

TypeOK ==
  /\ boot \in [Slots -> BootPhase]
  /\ rr \in Slots
  /\ current \in [Slots -> Addr \cup {NoAddr}]
  /\ next \in [Slots -> Addr \cup {NoAddr}]
  /\ usage \in [Slots -> Int]
  /\ mu \in [Slots -> Requests \cup {Free, Background}]
  /\ issued \in [Slots -> 0 .. MaxAddr]
  /\ iface \in [Slots -> SUBSET Addr]
  /\ jobs \subseteq Job
  /\ pc \in [Requests -> Step]
  /\ slot \in [Requests -> Slots]
  /\ cur \in [Requests -> Addr \cup {NoAddr}]
  /\ attempt \in [Requests -> 0 .. MaxRetry]

(* An address in service is configured: whatever the interleaving of       *)
(* requests, rotations and delayed cleanups - even a cleanup ordered by a  *)
(* request that had loaded its client long before - DelAddr never takes    *)
(* away the address a slot serves from or the standby it will switch to.   *)
InServiceConfigured ==
  \A s \in Slots :
    boot[s] = "ready" =>
      /\ current[s] \in iface[s]
      /\ next[s] # NoAddr => next[s] \in iface[s]

(* A rotation always goes to a newer address: an address taken out of      *)
(* service never comes back, and none is installed twice.                  *)
RotatesForward ==
  [][\A s \in Slots : current'[s] # current[s] => current'[s] > current[s]]_vars

(* A standby that is ready is never dropped unused: nextClient only goes   *)
(* from nil to an address, or to nil in the step that puts it in service.  *)
StandbyNotLost ==
  [][\A s \in Slots :
       next'[s] # next[s] =>
         next[s] = NoAddr \/ (next'[s] = NoAddr /\ current'[s] = next[s])]_vars

(* An address prepared in the background is eventually offered as the      *)
(* standby: no request keeps rotationMu.                                   *)
PreparedIsPublished ==
  \A s \in Slots, a \in Addr :
    (\E j \in jobs : j.slot = s /\ j.fresh = a /\ j.phase = "lock") ~> (next[s] = a)

(* Every request is answered after finitely many attempts, whichever       *)
(* attempts fail and whoever rotates meanwhile.                            *)
EveryRequestAnswered ==
  \A r \in Requests : (pc[r] = "load") ~> (pc[r] = "idle")

(* The slot manages the life cycle of its addresses (main.go:58) and an    *)
(* address switched away from is removed later (main.go:226): a configured *)
(* address is in service, or some goroutine is about to use or remove it.  *)
NoOrphan ==
  \A s \in Slots :
    boot[s] = "ready" =>
      \A a \in iface[s] :
        \/ a \in {current[s], next[s]}
        \/ \E j \in jobs : j.slot = s /\ a \in {j.old, j.fresh}
        \/ \E r \in Requests : slot[r] = s /\ cur[r] = a /\ pc[r] \in {"reset", "unlock"}
=============================================================================
