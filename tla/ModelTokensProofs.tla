------------------------- MODULE ModelTokensProofs -------------------------
(***************************************************************************)
(* What the token table guarantees for any number of requests and file     *)
(* states.  Everything rests on one order: the versions a request or the   *)
(* table remembers are not newer than the file, and the content a request  *)
(* read is not older than the mtime and size it saw before reading.        *)
(***************************************************************************)
EXTENDS ModelTokens, TLAPS

\* What is installed or about to be was a good document.
GoodInv ==
  /\ groups # 0 => kind[groups] = "good"
  /\ \A r \in Requests : doc[r] # 0 => kind[doc[r]] = "good"
  /\ \A r \in Requests : used[r] # 0 => kind[used[r]] = "good"

\* A request reads after it has looked.
OrderInv == \A r \in Requests : pc[r] = "install" => stat[r] <= doc[r]

IInv == TypeOK /\ GoodInv /\ OrderInv

LEMMA InitIInv == Init => IInv
<1> SUFFICES ASSUME Init PROVE IInv
  OBVIOUS
<1>1. TypeOK
  <2>1. kind \in [Version -> Kind] /\ file \in Version /\ file = 1
    BY VersionAssumption DEF Init, Version, Kind
  <2>2. pc \in [Requests -> Step] /\ \A r \in Requests : Holding(r)
    BY DEF Init, Step, Holding
  <2>3. boot = "read" /\ 0 \in 0 .. file
    BY <2>1 DEF Init
  <2> QED
    BY <2>1, <2>2, <2>3 DEF Init, TypeOK
<1> QED
  BY <1>1 DEF Init, IInv, GoodInv, OrderInv

LEMMA NextIInv == IInv /\ [Next]_vars => IInv'
<1> SUFFICES ASSUME IInv, [Next]_vars PROVE IInv'
  OBVIOUS
<1> USE VersionAssumption DEF IInv, fileVars, tableVars, reqVars, Goto
<1>a. /\ pc \in [Requests -> Step] /\ stat \in [Requests -> 0 .. file]
      /\ doc \in [Requests -> 0 .. file] /\ file \in Nat \ {0}
      /\ \A q \in Requests : Holding(q)
  BY DEF TypeOK, Version
<1>1. CASE WriteFile
  <2> USE <1>1 DEF WriteFile
  <2>1. PICK k \in Kind : kind' = [kind EXCEPT ![file + 1] = k]
    OBVIOUS
  <2>2. file' \in Version /\ file < file'
    BY DEF TypeOK, Version
  <2>3. TypeOK'
    BY <2>1, <2>2 DEF TypeOK, Holding, Version
  <2>4. \A v \in 0 .. file : kind'[v] = kind[v]
    BY <2>1 DEF TypeOK, Version
  <2> QED
    BY <2>3, <2>4 DEF TypeOK, GoodInv, OrderInv
<1>2. CASE BootRead
  BY <1>2 DEF BootRead, TypeOK, Holding, GoodInv, OrderInv, Version
<1>3. CASE BootStat
  BY <1>3 DEF BootStat, TypeOK, Holding, GoodInv, OrderInv, Version
<1>4. CASE Expire
  BY <1>4 DEF Expire, TypeOK, Holding, GoodInv, OrderInv
<1>5. ASSUME NEW r \in Requests, Arrive(r) PROVE IInv'
  <2> USE <1>5 DEF Arrive
  <2>1. TypeOK'
    BY DEF TypeOK, Step, Holding
  <2>2. GoodInv'
    BY DEF TypeOK, GoodInv
  <2>3. OrderInv'
    BY DEF TypeOK, OrderInv
  <2> QED
    BY <2>1, <2>2, <2>3
<1>6. ASSUME NEW r \in Requests, CheckTTL(r) PROVE IInv'
  <2> USE <1>6 DEF CheckTTL
  <2>1. TypeOK'
    BY DEF TypeOK, Step, Holding
  <2>2. GoodInv'
    BY DEF TypeOK, GoodInv
  <2>3. OrderInv'
    BY DEF TypeOK, OrderInv
  <2> QED
    BY <2>1, <2>2, <2>3
<1>7. ASSUME NEW r \in Requests, Stat(r) PROVE IInv'
  <2> USE <1>7 DEF Stat
  <2>1. TypeOK'
    <3>1. pc' \in [Requests -> Step] /\ stat' \in [Requests -> 0 .. file]
          /\ doc' \in [Requests -> 0 .. file]
      BY <1>a DEF Step
    <3>2. groups' \in 0 .. file /\ stamp' \in 0 .. file
      BY <1>a DEF TypeOK
    <3>3. \A q \in Requests : Holding(q)'
      BY <1>a DEF Holding
    <3> QED
      BY <3>1, <3>2, <3>3 DEF TypeOK
  <2>2. GoodInv'
    BY DEF TypeOK, GoodInv
  <2>3. OrderInv'
    BY DEF TypeOK, OrderInv
  <2> QED
    BY <2>1, <2>2, <2>3
<1>8. ASSUME NEW r \in Requests, Compare(r) PROVE IInv'
  <2> USE <1>8 DEF Compare, Changed
  <2>1. TypeOK'
    <3>1. pc' \in [Requests -> Step] /\ stat' \in [Requests -> 0 .. file]
          /\ doc' \in [Requests -> 0 .. file]
      BY <1>a DEF Step
    <3>2. groups' \in 0 .. file /\ stamp' \in 0 .. file
      BY <1>a DEF TypeOK
    <3>3. \A q \in Requests : Holding(q)'
      BY <1>a DEF Holding
    <3> QED
      BY <3>1, <3>2, <3>3 DEF TypeOK
  <2>2. GoodInv'
    BY DEF TypeOK, GoodInv
  <2>3. OrderInv'
    BY DEF TypeOK, OrderInv
  <2> QED
    BY <2>1, <2>2, <2>3
<1>9. ASSUME NEW r \in Requests, Read(r) PROVE IInv'
  <2> USE <1>9 DEF Read
  <2>1. TypeOK'
    <3>1. pc' \in [Requests -> Step] /\ stat' \in [Requests -> 0 .. file]
          /\ doc' \in [Requests -> 0 .. file]
      BY <1>a DEF Step
    <3>2. groups' \in 0 .. file /\ stamp' \in 0 .. file
      BY <1>a DEF TypeOK
    <3>3. \A q \in Requests : Holding(q)'
      BY <1>a DEF Holding
    <3> QED
      BY <3>1, <3>2, <3>3 DEF TypeOK
  <2>2. GoodInv'
    BY DEF TypeOK, GoodInv
  <2>3. OrderInv'
    <3>1. file \in Nat /\ stat[r] <= file
      BY DEF TypeOK, Version
    <3> QED
      BY <3>1 DEF TypeOK, OrderInv
  <2> QED
    BY <2>1, <2>2, <2>3
<1>10. ASSUME NEW r \in Requests, Install(r) PROVE IInv'
  <2> USE <1>10 DEF Install
  <2>1. TypeOK'
    <3>1. pc' \in [Requests -> Step] /\ stat' \in [Requests -> 0 .. file]
          /\ doc' \in [Requests -> 0 .. file]
      BY <1>a DEF Step
    <3>2. groups' \in 0 .. file /\ stamp' \in 0 .. file
      BY <1>a DEF TypeOK
    <3>3. \A q \in Requests : Holding(q)'
      BY <1>a DEF Holding
    <3> QED
      BY <3>1, <3>2, <3>3 DEF TypeOK
  <2>2. GoodInv'
    BY DEF TypeOK, GoodInv
  <2>3. OrderInv'
    BY DEF TypeOK, OrderInv
  <2> QED
    BY <2>1, <2>2, <2>3
<1>11. ASSUME NEW r \in Requests, Lookup(r) PROVE IInv'
  <2> USE <1>11 DEF Lookup
  <2>1. TypeOK'
    BY DEF TypeOK, Step, Holding
  <2>2. GoodInv'
    BY DEF TypeOK, GoodInv
  <2>3. OrderInv'
    BY DEF TypeOK, OrderInv
  <2> QED
    BY <2>1, <2>2, <2>3
<1>12. CASE UNCHANGED vars
  BY <1>12 DEF vars, TypeOK, Holding, GoodInv, OrderInv
<1> QED
  BY <1>1, <1>2, <1>3, <1>4, <1>5, <1>6, <1>7, <1>8, <1>9, <1>10, <1>11, <1>12
  DEF Next, Boot, BootFailed, RequestStep

LEMMA Invariance == Spec => []IInv
<1> QED
  BY InitIInv, NextIInv, PTL DEF Spec

\* The table and every request's view of the file always have their types.
THEOREM TypeCorrect == Spec => []TypeOK
<1>1. IInv => TypeOK
  BY DEF IInv
<1> QED
  BY <1>1, Invariance, PTL

\* No request ever gets a token from a document that was not good.
THEOREM GoodTables == Spec => []OnlyGoodTables
<1>1. IInv => OnlyGoodTables
  BY DEF IInv, GoodInv, OnlyGoodTables
<1> QED
  BY <1>1, Invariance, PTL

\* A reload never records a newer mtime than that of the content it installs.
THEOREM NoOlderInstalled == Spec => InstallsNoOlder
<1>1. IInv /\ [Next]_vars =>
        [(groups' # groups /\ boot = "ready") => groups' >= stamp']_vars
  <2> SUFFICES ASSUME IInv, Next, groups' # groups, boot = "ready" PROVE groups' >= stamp'
    OBVIOUS
  <2> USE DEF fileVars, tableVars, reqVars
  <2>1. CASE \E r \in Requests : Install(r)
    <3>1. PICK r \in Requests : Install(r)
      BY <2>1
    <3> QED
      BY <3>1 DEF Install, IInv, TypeOK, OrderInv, Version
  <2>2. CASE WriteFile \/ Boot \/ BootFailed \/ Expire
    BY <2>2 DEF WriteFile, Boot, BootRead, BootStat, BootFailed, Expire
  <2>3. CASE \E r \in Requests : RequestStep(r) /\ ~Install(r)
    BY <2>3 DEF RequestStep, Arrive, CheckTTL, Stat, Compare, Read, Lookup
  <2> QED
    BY <2>1, <2>2, <2>3 DEF Next
<1> QED
  BY <1>1, Invariance, PTL DEF Spec, InstallsNoOlder
=============================================================================
