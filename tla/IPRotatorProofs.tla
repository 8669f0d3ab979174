-------------------------- MODULE IPRotatorProofs --------------------------
(***************************************************************************)
(* What IPRotator guarantees for every number of slots and requests, every *)
(* threshold and every interleaving.  The argument: addresses are numbered *)
(* in the order of generation, and the invariant orders them - an address  *)
(* a goroutine will remove is older than the one in service, and a standby *)
(* or an address being prepared is newer.                                  *)
(***************************************************************************)
EXTENDS IPRotator, TLAPS

Underway(j) == j.phase \in {"prepare", "lock", "publish"}

\* Nothing runs before every slot is ready.
BootInv ==
  /\ ~Booted => jobs = {} /\ \A r \in Requests : pc[r] = "idle"
  /\ \A s \in Slots :
       /\ boot[s] # "ready" => next[s] = NoAddr
       /\ boot[s] = "first" => current[s] = NoAddr
       /\ boot[s] = "second" => current[s] \in 1 .. issued[s] /\ current[s] \in iface[s]

\* The standby is newer than the address in service; both are configured.
SlotInv ==
  \A s \in Slots :
    boot[s] = "ready" =>
      /\ current[s] \in 1 .. issued[s] /\ current[s] \in iface[s]
      /\ next[s] # NoAddr =>
           next[s] \in iface[s] /\ current[s] < next[s] /\ next[s] <= issued[s]

\* A loaded client is never newer than the one in service, and the rotating
\* request holds the lock, has no standby and no preparation beside it.
RequestInv ==
  \A r \in Requests :
    /\ pc[r] \notin {"idle", "retry", "load"} =>
         cur[r] \in Addr /\ cur[r] <= current[slot[r]]
    /\ pc[r] \in {"switch", "reset", "unlock"} => mu[slot[r]] = r
    /\ pc[r] \in {"reset", "unlock"} =>
         /\ cur[r] < current[slot[r]]
         /\ next[slot[r]] = NoAddr
         /\ \A j \in jobs : j.slot = slot[r] => ~Underway(j)

\* A goroutine removes what is older than the address in service and prepares
\* what is newer, while there is no standby; one at a time prepares.
JobInv ==
  /\ \A j \in jobs :
       /\ j.old < current[j.slot]
       /\ Underway(j) => next[j.slot] = NoAddr
       /\ j.phase \in {"lock", "publish"} =>
            /\ j.fresh \in iface[j.slot]
            /\ current[j.slot] < j.fresh /\ j.fresh <= issued[j.slot]
       /\ j.phase = "publish" => mu[j.slot] = Background
  /\ \A j, k \in jobs : Underway(j) /\ Underway(k) /\ j.slot = k.slot => j = k

IInv == TypeOK /\ BootInv /\ SlotInv /\ RequestInv /\ JobInv

LEMMA InitIInv == Init => IInv
<1> SUFFICES ASSUME Init PROVE IInv
  OBVIOUS
<1> USE SizeAssumption, HolderAssumption
<1>1. 0 \in Slots
  BY DEF Slots
<1>2. TypeOK
  BY <1>1 DEF Init, TypeOK, BootPhase, Step, Addr, NoAddr
<1>3. BootInv /\ SlotInv /\ RequestInv /\ JobInv
  BY <1>1 DEF Init, BootInv, SlotInv, RequestInv, JobInv, NoAddr
<1> QED
  BY <1>2, <1>3 DEF IInv

LEMMA NextIInv == IInv /\ [Next]_vars => IInv'
<1> SUFFICES ASSUME IInv, [Next]_vars PROVE IInv'
  OBVIOUS
<1> USE SizeAssumption, CounterAssumption, HolderAssumption
<1> USE DEF IInv, slotVars, reqVars, Goto, GenerateIP, AddAddr, DelAddr
<1>1. ASSUME NEW s \in Slots, BootFirst(s) PROVE IInv'
  <2> USE <1>1 DEF BootFirst, Prepare
  <2>1. TypeOK'
    <3>1. issued' \in [Slots -> 0 .. MaxAddr] /\ iface' \in [Slots -> SUBSET Addr]
      BY DEF TypeOK, Addr
    <3>2. current' \in [Slots -> Addr \cup {NoAddr}]
      BY DEF TypeOK, Addr
    <3> QED
      BY <3>1, <3>2 DEF TypeOK, BootPhase
  <2>2. BootInv'
    <3>1. ~Booted /\ ~Booted'
      BY DEF Booted, TypeOK
    <3>2. \A t \in Slots : boot'[t] = "second" =>
            current'[t] \in 1 .. issued'[t] /\ current'[t] \in iface'[t]
      BY DEF BootInv, TypeOK
    <3> QED
      BY <3>1, <3>2 DEF BootInv, TypeOK
  <2>3. SlotInv'
    BY DEF SlotInv, TypeOK
  <2>4. RequestInv'
    BY DEF RequestInv, TypeOK, Booted, BootInv
  <2>5. JobInv'
    BY DEF JobInv, TypeOK, Job, Underway, BootInv, Booted
  <2> QED
    BY <2>1, <2>2, <2>3, <2>4, <2>5
<1>2. ASSUME NEW s \in Slots, BootSecond(s) PROVE IInv'
  <2> USE <1>2 DEF BootSecond, Prepare
  <2>1. TypeOK'
    <3>1. issued' \in [Slots -> 0 .. MaxAddr] /\ iface' \in [Slots -> SUBSET Addr]
      BY SMTT(30) DEF TypeOK, Addr
    <3>2. next' \in [Slots -> Addr \cup {NoAddr}]
      BY DEF TypeOK, Addr
    <3> QED
      BY <3>1, <3>2 DEF TypeOK, BootPhase
  <2>2. BootInv'
    BY DEF BootInv, Booted, TypeOK
  <2>3. SlotInv'
    BY DEF SlotInv, TypeOK, BootInv
  <2>4. RequestInv'
    BY DEF RequestInv, TypeOK, Booted, BootInv
  <2>5. JobInv'
    BY DEF JobInv, TypeOK, Job, Underway, BootInv, Booted
  <2> QED
    BY <2>1, <2>2, <2>3, <2>4, <2>5
<1>3. ASSUME NEW r \in Requests, Arrive(r) PROVE IInv'
  <2> USE <1>3 DEF Arrive, Choose, Booted
  <2>1. TypeOK'
    <3>1. rr' \in Slots
      BY DEF TypeOK, Slots
    <3> QED
      BY <3>1 DEF TypeOK, Step
  <2>2. BootInv'
    BY DEF BootInv
  <2>3. SlotInv'
    BY DEF SlotInv
  <2>4. RequestInv'
    BY DEF RequestInv
  <2>5. JobInv'
    BY DEF JobInv
  <2> QED
    BY <2>1, <2>2, <2>3, <2>4, <2>5
<1>4. ASSUME NEW r \in Requests, Retry(r) PROVE IInv'
  <2> USE <1>4 DEF Retry, Choose
  <2>1. TypeOK'
    <3>1. rr' \in Slots
      BY DEF TypeOK, Slots
    <3> QED
      BY <3>1 DEF TypeOK, Step
  <2>2. BootInv'
    BY DEF BootInv, Booted
  <2>3. SlotInv'
    BY DEF SlotInv
  <2>4. RequestInv'
    BY DEF RequestInv
  <2>5. JobInv'
    BY DEF JobInv
  <2> QED
    BY <2>1, <2>2, <2>3, <2>4, <2>5
<1>5. ASSUME NEW r \in Requests, LoadClient(r) PROVE IInv'
  <2> USE <1>5 DEF LoadClient
  <2>1. TypeOK'
    BY DEF TypeOK, Step
  <2>2. BootInv'
    BY DEF BootInv, Booted
  <2>3. SlotInv'
    BY DEF SlotInv
  <2>4. RequestInv'
    BY DEF RequestInv, SlotInv, TypeOK, BootInv, Booted
  <2>5. JobInv'
    BY DEF JobInv
  <2> QED
    BY <2>1, <2>2, <2>3, <2>4, <2>5
<1>6. ASSUME NEW r \in Requests, Count(r) PROVE IInv'
  <2> USE <1>6 DEF Count
  <2>1. TypeOK'
    <3>1. slot[r] \in Slots
      BY DEF TypeOK
    <3>2. usage' \in [Slots -> Int]
      BY <3>1 DEF TypeOK, Saturate
    <3> QED
      BY <3>2 DEF TypeOK, Step
  <2>2. BootInv'
    BY DEF BootInv, Booted
  <2>3. SlotInv'
    BY DEF SlotInv
  <2>4. RequestInv'
    BY DEF RequestInv
  <2>5. JobInv'
    BY DEF JobInv
  <2> QED
    BY <2>1, <2>2, <2>3, <2>4, <2>5
<1>7. ASSUME NEW r \in Requests, TryRotate(r) PROVE IInv'
  <2> USE <1>7 DEF TryRotate
  <2>1. TypeOK'
    BY DEF TypeOK, Step
  <2>2. BootInv'
    BY DEF BootInv, Booted
  <2>3. SlotInv'
    BY DEF SlotInv
  <2>4. RequestInv'
    <3>1. slot[r] \in Slots /\ mu'[slot[r]] \in {mu[slot[r]], r}
      BY DEF TypeOK
    <3>2. \A q \in Requests : pc[q] \in {"switch", "reset", "unlock"} =>
            mu[slot[q]] = q /\ mu'[slot[q]] = q
      BY <3>1 DEF RequestInv, TypeOK
    <3>3. pc'[r] = "switch" => mu'[slot[r]] = r
      BY <3>1 DEF TypeOK
    <3> QED
      BY <3>2, <3>3 DEF RequestInv, TypeOK
  <2>5. JobInv'
    BY DEF JobInv, TypeOK, Job
  <2> QED
    BY <2>1, <2>2, <2>3, <2>4, <2>5
<1>8. ASSUME NEW r \in Requests, NotReady(r) PROVE IInv'
  <2> USE <1>8 DEF NotReady
  <2>1. TypeOK'
    BY DEF TypeOK, Step
  <2>2. BootInv'
    BY DEF BootInv, Booted
  <2>3. SlotInv'
    BY DEF SlotInv
  <2>4. RequestInv'
    BY DEF RequestInv, TypeOK
  <2>5. JobInv'
    BY DEF JobInv, RequestInv, TypeOK, Job, Underway
  <2> QED
    BY <2>1, <2>2, <2>3, <2>4, <2>5
<1>9. ASSUME NEW r \in Requests, RewindCounter(r) PROVE IInv'
  <2> USE <1>9 DEF RewindCounter
  <2>1. TypeOK'
    <3>1. slot[r] \in Slots
      BY DEF TypeOK
    <3>2. Rewound(usage[slot[r]]) \subseteq Int
      BY <3>1, CounterAssumption DEF TypeOK, Rewound
    <3>3. usage' \in [Slots -> Int]
      BY <3>1, <3>2 DEF TypeOK
    <3> QED
      BY <3>3 DEF TypeOK, Step
  <2>2. BootInv'
    BY DEF BootInv, Booted
  <2>3. SlotInv'
    BY DEF SlotInv
  <2>4. RequestInv'
    BY DEF RequestInv
  <2>5. JobInv'
    BY DEF JobInv
  <2> QED
    BY <2>1, <2>2, <2>3, <2>4, <2>5
<1>10. ASSUME NEW r \in Requests, Switch(r) PROVE IInv'
  <2> USE <1>10 DEF Switch
  <2>1. TypeOK'
    BY DEF TypeOK, Step
  <2>2. BootInv'
    BY DEF BootInv, Booted
  <2>3. SlotInv'
    BY DEF SlotInv, JobInv, TypeOK, Job, Addr, BootInv, Booted
  <2>4. RequestInv'
    BY DEF RequestInv, SlotInv, JobInv, TypeOK, BootInv, Booted, Job, Addr, Underway
  <2>5. JobInv'
    BY SMTT(30) DEF TypeOK, Job, Slots, Addr, NoAddr, Booted, Underway, BootInv, SlotInv, RequestInv, JobInv
  <2> QED
    BY <2>1, <2>2, <2>3, <2>4, <2>5
<1>11. ASSUME NEW r \in Requests, ResetCounter(r) PROVE IInv'
  <2> USE <1>11 DEF ResetCounter
  <2>1. TypeOK'
    <3>1. slot[r] \in Slots
      BY DEF TypeOK
    <3>2. usage' \in [Slots -> Int]
      BY <3>1 DEF TypeOK, Saturate
    <3> QED
      BY <3>2 DEF TypeOK, Step
  <2>2. BootInv'
    BY DEF BootInv, Booted
  <2>3. SlotInv'
    BY DEF SlotInv
  <2>4. RequestInv'
    BY DEF RequestInv
  <2>5. JobInv'
    BY DEF JobInv
  <2> QED
    BY <2>1, <2>2, <2>3, <2>4, <2>5
<1>12. ASSUME NEW r \in Requests, UnlockAndSpawn(r) PROVE IInv'
  <2> USE <1>12 DEF UnlockAndSpawn, Spawn
  <2>1. TypeOK'
    <3>1. slot[r] \in Slots /\ boot[slot[r]] = "ready"
      BY DEF TypeOK, BootInv, Booted
    <3>2. cur[r] \in Addr /\ current[slot[r]] \in Addr
      BY <3>1 DEF RequestInv, SlotInv, TypeOK, Addr
    <3>3. jobs' \subseteq Job
      BY <3>1, <3>2 DEF TypeOK, Job
    <3> QED
      BY <3>3 DEF TypeOK, Step
  <2>2. BootInv'
    BY DEF BootInv, Booted
  <2>3. SlotInv'
    BY DEF SlotInv
  <2>4. RequestInv'
    <3>1. \A q \in Requests \ {r} :
            pc[q] \in {"switch", "reset", "unlock"} => slot[q] # slot[r]
      BY DEF RequestInv
    <3>2. \A i \in jobs' : i \in jobs \/ i.slot = slot[r]
      OBVIOUS
    <3> QED
      BY <3>1, <3>2 DEF RequestInv, TypeOK
  <2>5. JobInv'
    BY DEF JobInv, RequestInv, TypeOK, Job, Underway
  <2> QED
    BY <2>1, <2>2, <2>3, <2>4, <2>5
<1>13. ASSUME NEW r \in Requests, Reload(r) PROVE IInv'
  <2> USE <1>13 DEF Reload
  <2>1. TypeOK'
    BY DEF TypeOK, Step
  <2>2. BootInv'
    BY DEF BootInv, Booted
  <2>3. SlotInv'
    BY DEF SlotInv
  <2>4. RequestInv'
    BY DEF RequestInv, SlotInv, TypeOK, BootInv, Booted
  <2>5. JobInv'
    BY DEF JobInv
  <2> QED
    BY <2>1, <2>2, <2>3, <2>4, <2>5
<1>14. ASSUME NEW r \in Requests, FetchOk(r) PROVE IInv'
  <2> USE <1>14 DEF FetchOk, Finish
  <2>1. TypeOK'
    <3>1. 0 \in Slots /\ 0 \in 0 .. MaxRetry
      BY DEF Slots
    <3> QED
      BY <3>1 DEF TypeOK, Step
  <2>2. BootInv'
    BY DEF BootInv, Booted
  <2>3. SlotInv'
    BY DEF SlotInv
  <2>4. RequestInv'
    BY DEF RequestInv, TypeOK
  <2>5. JobInv'
    BY DEF JobInv
  <2> QED
    BY <2>1, <2>2, <2>3, <2>4, <2>5
<1>15. ASSUME NEW r \in Requests, FetchFails(r) PROVE IInv'
  <2> USE <1>15 DEF FetchFails, Finish
  <2>1. TypeOK'
    <3>1. slot[r] \in Slots /\ 0 \in Slots
      BY DEF TypeOK, Slots
    <3>2. usage' \in [Slots -> Int]
      BY <3>1 DEF TypeOK, Saturate
    <3>3. attempt' \in [Requests -> 0 .. MaxRetry]
      BY DEF TypeOK
    <3> QED
      BY <3>1, <3>2, <3>3 DEF TypeOK, Step
  <2>2. BootInv'
    BY DEF BootInv, Booted
  <2>3. SlotInv'
    BY DEF SlotInv
  <2>4. RequestInv'
    <3>1. /\ pc'[r] \in {"retry", "idle", "backup"}
          /\ pc'[r] = "backup" => slot'[r] = slot[r] /\ cur'[r] = cur[r]
          /\ \A q \in Requests \ {r} :
               pc'[q] = pc[q] /\ slot'[q] = slot[q] /\ cur'[q] = cur[q]
      BY DEF TypeOK
    <3> QED
      BY <3>1 DEF RequestInv
  <2>5. JobInv'
    BY DEF JobInv
  <2> QED
    BY <2>1, <2>2, <2>3, <2>4, <2>5
<1>16. ASSUME NEW r \in Requests, BackupFetch(r) PROVE IInv'
  <2> USE <1>16 DEF BackupFetch, Finish
  <2>1. TypeOK'
    BY DEF TypeOK, Slots, Step
  <2>2. BootInv'
    BY DEF BootInv, Booted
  <2>3. SlotInv'
    BY DEF SlotInv
  <2>4. RequestInv'
    BY DEF RequestInv, TypeOK
  <2>5. JobInv'
    BY DEF JobInv
  <2> QED
    BY <2>1, <2>2, <2>3, <2>4, <2>5
<1>17. ASSUME NEW j \in jobs, PrepareNext(j) PROVE IInv'
  <2> USE <1>17 DEF PrepareNext, Prepare, Advance
  <2>1. TypeOK'
    <3>1. j \in Job /\ j.slot \in Slots
      BY DEF TypeOK, Job
    <3>2. issued' \in [Slots -> 0 .. MaxAddr] /\ iface' \in [Slots -> SUBSET Addr]
      BY <3>1 DEF TypeOK, Addr
    <3>3. issued[j.slot] + 1 \in Addr
      BY <3>1 DEF TypeOK, Addr
    <3>4. jobs' \subseteq Job
      BY <3>1, <3>3 DEF TypeOK, Job
    <3> QED
      BY <3>2, <3>4 DEF TypeOK
  <2>2. BootInv'
    BY DEF BootInv, Booted
  <2>3. SlotInv'
    BY DEF SlotInv, JobInv, Underway, TypeOK, Job
  <2>4. RequestInv'
    <3> DEFINE k == [j EXCEPT !.fresh = issued[j.slot] + 1, !.phase = "lock"]
    <3>1. /\ j \in Job /\ j.slot \in Slots /\ Underway(j)
          /\ k.slot = j.slot /\ k.old = j.old
          /\ \A i \in jobs' : i = k \/ (i \in jobs /\ i # j)
      BY DEF TypeOK, Job, Underway
    <3>2. \A q \in Requests : pc[q] \in {"reset", "unlock"} => slot[q] # j.slot
      BY <3>1 DEF RequestInv
    <3> QED
      BY <3>1, <3>2 DEF RequestInv, TypeOK, Booted
  <2>5. JobInv'
    <3> DEFINE k == [j EXCEPT !.fresh = issued[j.slot] + 1, !.phase = "lock"]
    <3>1. /\ j \in Job /\ j.slot \in Slots /\ Underway(j)
          /\ k.slot = j.slot /\ k.old = j.old
          /\ \A i \in jobs' : i = k \/ (i \in jobs /\ i # j)
      BY DEF TypeOK, Job, Underway
    <3>2. current[j.slot] \in 1 .. issued[j.slot] /\ issued[j.slot] \in Nat
      BY <3>1 DEF BootInv, SlotInv, TypeOK, Booted
    <3>3. /\ k.phase = "lock" /\ k.fresh = issued[j.slot] + 1
          /\ k.fresh \in iface'[j.slot] /\ issued'[j.slot] = issued[j.slot] + 1
      BY <3>1 DEF TypeOK, Job
    <3>4. \A i \in jobs : Underway(i) /\ i.slot = j.slot => i = j
      BY <3>1 DEF JobInv
    <3>5. \A i \in jobs : i.phase \in {"lock", "publish"} /\ i # j =>
            i.slot # j.slot /\ iface'[i.slot] = iface[i.slot] /\ issued'[i.slot] = issued[i.slot]
      BY <3>4 DEF TypeOK, Underway, Job
    <3>6. /\ k.old < current[k.slot] /\ next[k.slot] = NoAddr
          /\ k.fresh \in iface'[k.slot] /\ current[k.slot] < k.fresh
          /\ k.fresh <= issued'[k.slot]
      BY <3>1, <3>2, <3>3 DEF JobInv
    <3>7. \A i, l \in jobs' : Underway(i) /\ Underway(l) /\ i.slot = l.slot => i = l
      BY <3>1, <3>4 DEF JobInv
    <3> QED
      BY <3>1, <3>3, <3>5, <3>6, <3>7 DEF JobInv, Underway
  <2> QED
    BY <2>1, <2>2, <2>3, <2>4, <2>5
<1>18. ASSUME NEW j \in jobs, PrepareFails(j) PROVE IInv'
  <2> USE <1>18 DEF PrepareFails, Advance
  <2>1. TypeOK'
    BY DEF TypeOK, Job
  <2>2. BootInv'
    BY DEF BootInv, Booted
  <2>3. SlotInv'
    BY DEF SlotInv
  <2>4. RequestInv'
    BY DEF RequestInv, TypeOK, Underway, Job
  <2>5. JobInv'
    BY DEF JobInv, TypeOK, Job, Underway
  <2> QED
    BY <2>1, <2>2, <2>3, <2>4, <2>5
<1>19. ASSUME NEW j \in jobs, LockForPublish(j) PROVE IInv'
  <2> USE <1>19 DEF LockForPublish, Advance
  <2>1. TypeOK'
    BY DEF TypeOK, Job
  <2>2. BootInv'
    BY DEF BootInv, Booted
  <2>3. SlotInv'
    BY DEF SlotInv
  <2>4. RequestInv'
    <3> DEFINE k == [j EXCEPT !.phase = "publish"]
    <3>1. /\ j \in Job /\ j.slot \in Slots /\ Underway(j)
          /\ k.slot = j.slot /\ k.old = j.old
          /\ \A i \in jobs' : i = k \/ (i \in jobs /\ i # j)
      BY DEF TypeOK, Job, Underway
    <3>2. \A q \in Requests : pc[q] \in {"switch", "reset", "unlock"} => slot[q] # j.slot
      BY <3>1 DEF RequestInv
    <3> QED
      BY <3>1, <3>2 DEF RequestInv, TypeOK
  <2>5. JobInv'
    <3> DEFINE k == [j EXCEPT !.phase = "publish"]
    <3>1. /\ j \in Job /\ j.slot \in Slots /\ Underway(j)
          /\ k.slot = j.slot /\ k.old = j.old
          /\ \A i \in jobs' : i = k \/ (i \in jobs /\ i # j)
      BY DEF TypeOK, Job, Underway
    <3>2. k.phase = "publish" /\ k.fresh = j.fresh /\ mu'[j.slot] = Background
      BY <3>1 DEF TypeOK, Job
    <3>3. \A i \in jobs : Underway(i) /\ i.slot = j.slot => i = j
      BY <3>1 DEF JobInv
    <3>4. \A i \in jobs : i.phase = "publish" => mu'[i.slot] = Background
      BY <3>1, <3>3 DEF TypeOK, Underway, JobInv, Job
    <3>5. /\ k.old < current[k.slot] /\ next[k.slot] = NoAddr
          /\ k.fresh \in iface[k.slot] /\ current[k.slot] < k.fresh
          /\ k.fresh <= issued[k.slot]
      BY <3>1, <3>2 DEF JobInv
    <3>6. \A i, l \in jobs' : Underway(i) /\ Underway(l) /\ i.slot = l.slot => i = l
      BY <3>1, <3>3 DEF JobInv
    <3> QED
      BY <3>1, <3>2, <3>4, <3>5, <3>6 DEF JobInv, Underway
  <2> QED
    BY <2>1, <2>2, <2>3, <2>4, <2>5
<1>20. ASSUME NEW j \in jobs, Publish(j) PROVE IInv'
  <2> USE <1>20 DEF Publish, Advance
  <2>1. TypeOK'
    BY DEF TypeOK, Job
  <2>2. BootInv'
    BY DEF BootInv, Booted
  <2>3. SlotInv'
    BY DEF SlotInv, JobInv, Underway, TypeOK, Job
  <2>4. RequestInv'
    <3> DEFINE k == [j EXCEPT !.phase = "sleep"]
    <3>1. /\ j \in Job /\ j.slot \in Slots /\ Underway(j)
          /\ k.slot = j.slot /\ k.old = j.old
          /\ \A i \in jobs' : i = k \/ (i \in jobs /\ i # j)
      BY DEF TypeOK, Job, Underway
    <3>2. \A q \in Requests : pc[q] \in {"switch", "reset", "unlock"} => slot[q] # j.slot
      BY <3>1 DEF RequestInv, JobInv
    <3>3. ~Underway(k)
      BY <3>1 DEF Underway, Job
    <3> QED
      BY <3>1, <3>2, <3>3 DEF RequestInv, TypeOK
  <2>5. JobInv'
    BY DEF JobInv, TypeOK, Job, Underway
  <2> QED
    BY <2>1, <2>2, <2>3, <2>4, <2>5
<1>21. ASSUME NEW j \in jobs, Cleanup(j) PROVE IInv'
  <2> USE <1>21 DEF Cleanup
  <2>1. TypeOK'
    BY DEF TypeOK
  <2>2. BootInv'
    BY DEF BootInv, Booted
  <2>3. SlotInv'
    BY DEF SlotInv, JobInv, TypeOK, Job, Addr, BootInv, Booted
  <2>4. RequestInv'
    BY DEF RequestInv
  <2>5. JobInv'
    <3>1. j \in Job /\ j.slot \in Slots /\ jobs' \subseteq jobs
      BY DEF TypeOK, Job
    <3>2. \A i \in jobs : i.phase \in {"lock", "publish"} => i.fresh \in iface'[i.slot]
      <4> SUFFICES ASSUME NEW i \in jobs, i.phase \in {"lock", "publish"}
                   PROVE  i.fresh \in iface'[i.slot]
        OBVIOUS
      <4>1. i \in Job /\ i.slot \in Slots
        BY DEF TypeOK, Job
      <4>2. i.slot = j.slot => i.fresh # j.old
        BY <3>1, <4>1 DEF JobInv, TypeOK, Job, Addr, NoAddr
      <4> QED
        BY <3>1, <4>1, <4>2 DEF JobInv, TypeOK
    <3> QED
      BY <3>1, <3>2 DEF JobInv, Underway
  <2> QED
    BY <2>1, <2>2, <2>3, <2>4, <2>5
<1>22. CASE UNCHANGED vars
  BY <1>22 DEF vars, TypeOK, BootInv, SlotInv, RequestInv, JobInv, Booted, Underway
<1> QED
  BY <1>1, <1>2, <1>3, <1>4, <1>5, <1>6, <1>7, <1>8, <1>9, <1>10, <1>11, <1>12, <1>13, <1>14, <1>15, <1>16, <1>17,
     <1>18, <1>19, <1>20, <1>21, <1>22 DEF Next, RequestStep, Fatal
----------------------------------------------------------------------------
LEMMA Invariance == Spec => []IInv
<1> QED
  BY InitIInv, NextIInv, PTL DEF Spec

\* The state of the rotator and of its goroutines always has its type: the
\* round-robin index is a slot, a background job names real addresses.
THEOREM TypeCorrect == Spec => []TypeOK
<1>1. IInv => TypeOK
  BY DEF IInv
<1> QED
  BY <1>1, Invariance, PTL

\* No cleanup ever takes away the address a slot serves from or its standby.
THEOREM ServiceConfigured == Spec => []InServiceConfigured
<1>1. IInv => InServiceConfigured
  BY DEF IInv, SlotInv, InServiceConfigured
<1> QED
  BY <1>1, Invariance, PTL

(* rotationMu, which execute takes and performRotation releases on each of *)
(* its returns, is held only by a goroutine that is on its way to release  *)
(* it: the request that rotates this very slot, or a job about to publish. *)
(* Both have it until they do, so that no two of them ever touch next.     *)
HolderUnlocks ==
  \A s \in Slots :
    /\ \A r \in Requests :
         mu[s] = r <=> slot[r] = s /\ pc[r] \in {"switch", "reset", "unlock"}
    /\ mu[s] = Background <=> \E j \in jobs : j.slot = s /\ j.phase = "publish"

\* No step takes the lock from its holder, or leaves it with one that has
\* gone on without unlocking.
LEMMA HolderStep ==
  ASSUME IInv, HolderUnlocks, [Next]_vars
  PROVE  HolderUnlocks'
<1> USE SizeAssumption, HolderAssumption
<1> USE DEF slotVars, reqVars, Goto, HolderUnlocks
<1>1. TypeOK
  BY DEF IInv
<1>2. ASSUME NEW s \in Slots, BootFirst(s) \/ BootSecond(s) PROVE HolderUnlocks'
  BY <1>2 DEF BootFirst, BootSecond
<1>3. ASSUME NEW r \in Requests, Arrive(r) \/ RequestStep(r),
             ~TryRotate(r), ~NotReady(r), ~UnlockAndSpawn(r)
      PROVE  HolderUnlocks'
  <2>1. /\ UNCHANGED <<mu, jobs>>
        /\ \A q \in Requests \ {r} : slot'[q] = slot[q] /\ pc'[q] = pc[q]
        /\ pc'[r] \in {"switch", "reset", "unlock"} <=> pc[r] \in {"switch", "reset", "unlock"}
        /\ pc[r] \in {"switch", "reset", "unlock"} => slot'[r] = slot[r]
    BY <1>1, <1>3 DEF Arrive, RequestStep, Retry, LoadClient, Count, RewindCounter, Switch,
         ResetCounter, Reload, FetchOk, FetchFails, BackupFetch, Finish, Choose, TypeOK
  <2> QED
    BY <2>1
<1>4. ASSUME NEW r \in Requests, TryRotate(r) PROVE HolderUnlocks'
  BY <1>1, <1>4 DEF TryRotate, TypeOK
<1>5. ASSUME NEW r \in Requests, NotReady(r) PROVE HolderUnlocks'
  BY <1>1, <1>5 DEF NotReady, TypeOK
<1>6. ASSUME NEW r \in Requests, UnlockAndSpawn(r) PROVE HolderUnlocks'
  <2>1. \A j \in jobs' : j.phase = "publish" => j \in jobs
    BY <1>6 DEF UnlockAndSpawn, Spawn
  <2>2. jobs \subseteq jobs'
    BY <1>6 DEF UnlockAndSpawn, Spawn
  <2> QED
    BY <1>1, <1>6, <2>1, <2>2 DEF UnlockAndSpawn, TypeOK
<1>7. ASSUME NEW j \in jobs, PrepareNext(j) \/ PrepareFails(j) \/ Cleanup(j)
      PROVE  HolderUnlocks'
  <2>1. UNCHANGED <<mu, pc, slot>> /\ j.phase # "publish" /\ jobs \ {j} \subseteq jobs'
    BY <1>7 DEF PrepareNext, PrepareFails, Cleanup, Advance
  <2>2. \A k \in jobs' : k \in jobs \/ k.phase \in {"lock", "sleep"}
    <3>1. j \in Job
      BY <1>1 DEF TypeOK
    <3>2. CASE PrepareNext(j)
      <4> DEFINE n == [j EXCEPT !.fresh = GenerateIP(j.slot), !.phase = "lock"]
      <4>1. jobs' = (jobs \ {j}) \cup {n}
        BY <3>2 DEF PrepareNext, Advance
      <4>2. n.phase = "lock"
        BY <3>1 DEF Job
      <4> HIDE DEF n
      <4> QED
        BY <4>1, <4>2
    <3>3. CASE PrepareFails(j)
      <4> DEFINE n == [j EXCEPT !.phase = "sleep"]
      <4>1. jobs' = (jobs \ {j}) \cup {n}
        BY <3>3 DEF PrepareFails, Advance
      <4>2. n.phase = "sleep"
        BY <3>1 DEF Job
      <4> HIDE DEF n
      <4> QED
        BY <4>1, <4>2
    <3>4. CASE Cleanup(j)
      BY <3>4 DEF Cleanup
    <3> QED
      BY <1>7, <3>2, <3>3, <3>4
  <2> QED
    BY <2>1, <2>2
<1>8. ASSUME NEW j \in jobs, LockForPublish(j) PROVE HolderUnlocks'
  <2> DEFINE k == [j EXCEPT !.phase = "publish"]
  <2>1. /\ mu[j.slot] = Free /\ mu' = [mu EXCEPT ![j.slot] = Background]
        /\ jobs' = (jobs \ {j}) \cup {k} /\ j.phase = "lock" /\ UNCHANGED <<pc, slot>>
    BY <1>8 DEF LockForPublish, Advance
  <2>2. k.slot = j.slot /\ k.phase = "publish" /\ j.slot \in Slots
    BY <1>1 DEF TypeOK, Job
  <2> HIDE DEF k
  <2> QED
    BY <1>1, <2>1, <2>2 DEF TypeOK
<1>9. ASSUME NEW j \in jobs, Publish(j) PROVE HolderUnlocks'
  <2> DEFINE k == [j EXCEPT !.phase = "sleep"]
  <2>1. /\ mu' = [mu EXCEPT ![j.slot] = Free] /\ jobs' = (jobs \ {j}) \cup {k}
        /\ j.phase = "publish" /\ UNCHANGED <<pc, slot>>
    BY <1>9 DEF Publish, Advance
  <2>2. k.slot = j.slot /\ k.phase = "sleep" /\ j.slot \in Slots
    BY <1>1 DEF TypeOK, Job
  <2>3. \A i \in jobs : i.slot = j.slot /\ i.phase = "publish" => i = j
    BY <2>1 DEF IInv, JobInv, Underway
  <2> HIDE DEF k
  <2> QED
    BY <1>1, <2>1, <2>2, <2>3 DEF TypeOK
<1>10. CASE Fatal \/ UNCHANGED vars
  BY <1>10 DEF Fatal, vars
<1> QED
  BY <1>2, <1>3, <1>4, <1>5, <1>6, <1>7, <1>8, <1>9, <1>10 DEF Next, RequestStep

\* Whoever holds rotationMu is about to release it, on every path.
THEOREM LockReleased == Spec => []HolderUnlocks
<1>1. Init => HolderUnlocks
  BY HolderAssumption DEF Init, HolderUnlocks
<1>2. IInv /\ HolderUnlocks /\ [Next]_vars => HolderUnlocks'
  BY HolderStep
<1> QED
  BY <1>1, <1>2, Invariance, PTL DEF Spec

\* A rotation always goes to a newer address.
THEOREM RotationsForward == Spec => RotatesForward
<1>1. IInv /\ [Next]_vars =>
        [\A s \in Slots : current'[s] # current[s] => current'[s] > current[s]]_vars
  <2> SUFFICES ASSUME IInv, Next, NEW s \in Slots, current'[s] # current[s]
               PROVE  current'[s] > current[s]
    OBVIOUS
  <2> USE SizeAssumption DEF slotVars, reqVars, Goto, Finish, Choose
  <2>1. CASE \E t \in Slots : BootFirst(t) \/ BootSecond(t)
    <3>1. current[s] = NoAddr /\ current'[s] \in Addr
      BY <2>1 DEF BootFirst, BootSecond, Prepare, GenerateIP, IInv, TypeOK, BootInv, Addr
    <3> QED
      BY <3>1 DEF NoAddr, Addr
  <2>2. CASE \E r \in Requests : Switch(r)
    <3>1. PICK r \in Requests : Switch(r)
      BY <2>2
    <3>2. s = slot[r] /\ boot[s] = "ready"
      BY <3>1 DEF Switch, IInv, TypeOK, BootInv
    <3> QED
      BY <3>1, <3>2 DEF Switch, IInv, TypeOK, SlotInv, Addr, NoAddr
  <2>3. CASE \E r \in Requests : (Arrive(r) \/ RequestStep(r)) /\ ~Switch(r)
    BY <2>3 DEF RequestStep, Arrive, Retry, LoadClient, Count, TryRotate, NotReady,
         RewindCounter, ResetCounter, UnlockAndSpawn, Reload, FetchOk, FetchFails, BackupFetch
  <2>4. CASE \E j \in jobs : \/ PrepareNext(j) \/ PrepareFails(j) \/ LockForPublish(j)
                             \/ Cleanup(j) \/ Publish(j)
    BY <2>4 DEF PrepareNext, PrepareFails, LockForPublish, Cleanup, Publish
  <2>5. CASE Fatal
    BY <2>5 DEF Fatal, vars
  <2> QED
    BY <2>1, <2>2, <2>3, <2>4, <2>5 DEF Next, RequestStep
<1> QED
  BY <1>1, Invariance, PTL DEF Spec, RotatesForward

\* A standby is never dropped unused.
THEOREM StandbyKept == Spec => StandbyNotLost
<1>1. IInv /\ [Next]_vars =>
        [\A s \in Slots :
           next'[s] # next[s] =>
             next[s] = NoAddr \/ (next'[s] = NoAddr /\ current'[s] = next[s])]_vars
  <2> SUFFICES ASSUME IInv, Next, NEW s \in Slots, next'[s] # next[s]
               PROVE  next[s] = NoAddr \/ (next'[s] = NoAddr /\ current'[s] = next[s])
    OBVIOUS
  <2> USE DEF slotVars, reqVars, Goto, Finish, Choose
  <2>1. CASE \E t \in Slots : BootFirst(t) \/ BootSecond(t)
    BY <2>1 DEF BootFirst, BootSecond, Prepare, IInv, TypeOK, BootInv
  <2>2. CASE \E r \in Requests : Switch(r)
    BY <2>2 DEF Switch, IInv, TypeOK
  <2>3. CASE \E j \in jobs : Publish(j)
    <3>1. PICK j \in jobs : Publish(j)
      BY <2>3
    <3>2. s = j.slot
      BY <3>1 DEF Publish, IInv, TypeOK
    <3> QED
      BY <3>1, <3>2 DEF Publish, IInv, JobInv, Underway
  <2>4. CASE \E r \in Requests : (Arrive(r) \/ RequestStep(r)) /\ ~Switch(r)
    BY <2>4 DEF RequestStep, Arrive, Retry, LoadClient, Count, TryRotate, NotReady,
         RewindCounter, ResetCounter, UnlockAndSpawn, Reload, FetchOk, FetchFails, BackupFetch
  <2>5. CASE \E j \in jobs : \/ PrepareNext(j) \/ PrepareFails(j) \/ LockForPublish(j)
                             \/ Cleanup(j)
    BY <2>5 DEF PrepareNext, PrepareFails, LockForPublish, Cleanup
  <2>6. CASE Fatal
    BY <2>6 DEF Fatal, vars
  <2> QED
    BY <2>1, <2>2, <2>3, <2>4, <2>5, <2>6 DEF Next, RequestStep
<1> QED
  BY <1>1, Invariance, PTL DEF Spec, StandbyNotLost
=============================================================================
