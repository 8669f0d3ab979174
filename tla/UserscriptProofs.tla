-------------------------- MODULE UserscriptProofs --------------------------
(***************************************************************************)
(* Proofs about what userscripts keep, for windows, keys and releases of any*)
(* number: the stores of gm-polyfill.js (GMStore), and the translations that*)
(* EhSyringe keeps in them (TagDatabase).                                  *)
(***************************************************************************)
EXTENDS GMStore, TagDatabase, FiniteSetTheorems, SequenceTheorems, TLAPS
-----------------------------------------------------------------------------
(***************************************************************************)
(* The stores: a key whose last change got through, and met no other one,  *)
(* has one value everywhere.  The argument is about what is under way: all *)
(* changes of such a key are one window's, and the last of them is the value*)
(* that the database and every window will have.                           *)
(***************************************************************************)

(* The last change of key k in a list of changes sets it to val.            *)
LastIs(k, changes, val) ==
  \E i \in DOMAIN changes :
    /\ changes[i].key = k /\ changes[i].val = val
    /\ \A j \in DOMAIN changes : j > i => changes[j].key # k

(* What window u makes of key k, once all it has been sent is in.           *)
Holds(u, k, val) ==
  /\ phase[u] = "opening" => valueCache[u][k] \in {Absent, val}
  /\ phase[u] = "loading" => k \in cursor[u] \/ valueCache[u][k] = val
  /\ phase[u] = "ready" => valueCache[u][k] = val

(* All changes of k that are under way are window a's, and the last of them *)
(* sets it to val, in the database and in every window.                     *)
Settled(k, a, val) ==
  /\ \A w \in Windows \ {a} : ~About(k, pending[w])
  /\ IF About(k, pending[a]) THEN LastIs(k, pending[a], val) ELSE store[k] = val
  /\ Loading => ~About(k, pending[a])
  /\ \A u \in Windows, v \in Windows \ {a} : ~About(k, channel[u][v])
  /\ \A u \in Windows :
       IF About(k, channel[u][a]) THEN LastIs(k, channel[u][a], val) ELSE Holds(u, k, val)

Convergent ==
  Windows # {} => \A k \in Keys \ unsettled : \E a \in Windows, val \in Entry : Settled(k, a, val)

(* A closed window has nothing, and none tells itself.                      *)
Quiet ==
  \A w \in Windows :
    /\ channel[w][w] = <<>>
    /\ phase[w] = "closed" =>
         /\ pending[w] = <<>> /\ \A v \in Windows : channel[w][v] = <<>>
         /\ valueCache[w] = [k \in Keys |-> Absent]

StoreInv == GMTypeOK /\ Quiet /\ Convergent
----------------------------------------------------------------------------
\* A list with one more change at its end.
LEMMA AboutAppend ==
  ASSUME NEW s \in Seq(Change), NEW c \in Change, NEW k
  PROVE  /\ About(k, Append(s, c)) <=> About(k, s) \/ c.key = k
         /\ c.key = k => LastIs(k, Append(s, c), c.val)
         /\ \A val : c.key # k => (LastIs(k, Append(s, c), val) <=> LastIs(k, s, val))
<1>1. /\ Len(s) \in Nat /\ DOMAIN s = 1 .. Len(s) /\ DOMAIN Append(s, c) = 1 .. Len(s) + 1
      /\ \A i \in 1 .. Len(s) : Append(s, c)[i] = s[i]
      /\ Append(s, c)[Len(s) + 1] = c
  BY AppendProperties, LenProperties
<1>2. About(k, Append(s, c)) <=> About(k, s) \/ c.key = k
  <2>1. ASSUME About(k, s) PROVE About(k, Append(s, c))
    <3>1. PICK i \in DOMAIN s : s[i].key = k
      BY <2>1 DEF About
    <3>2. i \in DOMAIN Append(s, c) /\ Append(s, c)[i] = s[i]
      BY <1>1
    <3> QED
      BY <3>1, <3>2 DEF About
  <2>2. ASSUME c.key = k PROVE About(k, Append(s, c))
    <3>1. Len(s) + 1 \in DOMAIN Append(s, c)
      BY <1>1
    <3> QED
      BY <1>1, <2>2, <3>1 DEF About
  <2>3. ASSUME About(k, Append(s, c)), c.key # k PROVE About(k, s)
    <3>1. PICK i \in 1 .. Len(s) + 1 : Append(s, c)[i].key = k
      BY <1>1, <2>3 DEF About
    <3>2. i \in 1 .. Len(s)
      BY <1>1, <2>3, <3>1
    <3> QED
      BY <1>1, <3>1, <3>2 DEF About
  <2> QED
    BY <2>1, <2>2, <2>3
<1>3. ASSUME c.key = k PROVE LastIs(k, Append(s, c), c.val)
  <2>1. Len(s) + 1 \in DOMAIN Append(s, c) /\ ~\E j \in DOMAIN Append(s, c) : j > Len(s) + 1
    BY <1>1
  <2> QED
    BY <1>1, <1>3, <2>1 DEF LastIs
<1>4. ASSUME NEW val, c.key # k PROVE LastIs(k, Append(s, c), val) <=> LastIs(k, s, val)
  <2>1. ASSUME LastIs(k, s, val) PROVE LastIs(k, Append(s, c), val)
    <3>1. PICK i \in 1 .. Len(s) : /\ s[i].key = k /\ s[i].val = val
                                   /\ \A j \in 1 .. Len(s) : j > i => s[j].key # k
      BY <1>1, <2>1 DEF LastIs
    <3>2. \A j \in 1 .. Len(s) + 1 : j > i => Append(s, c)[j].key # k
      BY <1>1, <1>4, <3>1
    <3>3. i \in DOMAIN Append(s, c) /\ Append(s, c)[i] = s[i]
      BY <1>1
    <3> QED
      BY <1>1, <3>1, <3>2, <3>3 DEF LastIs
  <2>2. ASSUME LastIs(k, Append(s, c), val) PROVE LastIs(k, s, val)
    <3>1. PICK i \in 1 .. Len(s) + 1 :
            /\ Append(s, c)[i].key = k /\ Append(s, c)[i].val = val
            /\ \A j \in 1 .. Len(s) + 1 : j > i => Append(s, c)[j].key # k
      BY <1>1, <2>2 DEF LastIs
    <3>2. i \in 1 .. Len(s)
      BY <1>1, <1>4, <3>1
    <3>3. \A j \in 1 .. Len(s) : j > i => s[j].key # k
      BY <1>1, <3>1
    <3> QED
      BY <1>1, <3>1, <3>2, <3>3 DEF LastIs
  <2> QED
    BY <2>1, <2>2
<1> QED
  BY <1>2, <1>3, <1>4

\* A list without its first change.
LEMMA AboutTail ==
  ASSUME NEW s \in Seq(Change), s # <<>>, NEW k
  PROVE  /\ Head(s) \in Change /\ Tail(s) \in Seq(Change)
         /\ About(k, Tail(s)) => About(k, s)
         /\ Head(s).key # k => (About(k, Tail(s)) <=> About(k, s))
         /\ Head(s).key = k => About(k, s)
         /\ \A val : LastIs(k, s, val) =>
              IF About(k, Tail(s)) THEN LastIs(k, Tail(s), val)
                                   ELSE Head(s).key = k /\ Head(s).val = val
<1>1. /\ Head(s) \in Change /\ Tail(s) \in Seq(Change)
      /\ Len(s) \in Nat \ {0} /\ DOMAIN s = 1 .. Len(s) /\ DOMAIN Tail(s) = 1 .. Len(s) - 1
      /\ Head(s) = s[1] /\ \A i \in 1 .. Len(s) - 1 : Tail(s)[i] = s[i + 1]
  <2>1. Tail(s) \in Seq(Change) /\ Len(Tail(s)) = Len(s) - 1
    BY HeadTailProperties
  <2>2. DOMAIN Tail(s) = 1 .. Len(Tail(s)) /\ DOMAIN s = 1 .. Len(s) /\ Len(s) \in Nat
    BY <2>1, LenProperties
  <2> QED
    BY <2>1, <2>2, HeadTailProperties
<1>2. ASSUME About(k, Tail(s)) PROVE About(k, s)
  <2>1. PICK i \in 1 .. Len(s) - 1 : Tail(s)[i].key = k
    BY <1>1, <1>2 DEF About
  <2>2. i + 1 \in DOMAIN s /\ s[i + 1].key = k
    BY <1>1, <2>1
  <2> QED
    BY <2>2 DEF About
<1>3. ASSUME About(k, s), Head(s).key # k PROVE About(k, Tail(s))
  <2>1. PICK i \in 1 .. Len(s) : s[i].key = k
    BY <1>1, <1>3 DEF About
  <2>2. i - 1 \in 1 .. Len(s) - 1 /\ Tail(s)[i - 1] = s[i]
    <3>1. i # 1
      BY <1>1, <1>3, <2>1
    <3>2. i - 1 \in 1 .. Len(s) - 1 /\ (i - 1) + 1 = i
      BY <1>1, <3>1
    <3> QED
      BY <1>1, <3>2
  <2> QED
    BY <1>1, <2>1, <2>2 DEF About
<1>4. Head(s).key = k => About(k, s)
  BY <1>1 DEF About
<1>5. ASSUME NEW val, LastIs(k, s, val)
      PROVE  IF About(k, Tail(s)) THEN LastIs(k, Tail(s), val)
                                  ELSE Head(s).key = k /\ Head(s).val = val
  <2>1. PICK i \in 1 .. Len(s) : /\ s[i].key = k /\ s[i].val = val
                                 /\ \A j \in 1 .. Len(s) : j > i => s[j].key # k
    BY <1>1, <1>5 DEF LastIs
  <2>2. CASE i = 1
    <3>1. \A j \in 1 .. Len(s) - 1 : Tail(s)[j].key # k
      <4> TAKE j \in 1 .. Len(s) - 1
      <4>1. j + 1 \in 1 .. Len(s) /\ j + 1 > i
        BY <1>1, <2>2
      <4> QED
        BY <1>1, <2>1, <4>1
    <3> QED
      BY <1>1, <2>1, <2>2, <3>1 DEF About
  <2>3. CASE i # 1
    <3>1. i - 1 \in 1 .. Len(s) - 1 /\ Tail(s)[i - 1] = s[i]
      <4>1. i - 1 \in 1 .. Len(s) - 1 /\ (i - 1) + 1 = i
        BY <1>1, <2>3
      <4> QED
        BY <1>1, <4>1
    <3>2. ASSUME NEW j \in 1 .. Len(s) - 1, j > i - 1 PROVE Tail(s)[j].key # k
      <4>1. j + 1 \in 1 .. Len(s) /\ j + 1 > i
        BY <1>1, <3>2
      <4> QED
        BY <1>1, <2>1, <4>1
    <3> QED
      BY <1>1, <2>1, <3>1, <3>2 DEF About, LastIs
  <2> QED
    BY <2>2, <2>3
<1> QED
  BY <1>1, <1>2, <1>3, <1>4, <1>5
----------------------------------------------------------------------------
LEMMA InitStore == GMInit => StoreInv
<1> SUFFICES ASSUME GMInit PROVE StoreInv
  OBVIOUS
<1>1. GMTypeOK /\ Quiet
  BY WritesAssumption DEF GMInit, GMTypeOK, Quiet, Phase, Entry
<1>2. ASSUME NEW k \in Keys, NEW a \in Windows PROVE Settled(k, a, store[k]) /\ store[k] \in Entry
  BY DEF GMInit, Settled, Holds, About, Loading
<1> QED
  BY <1>1, <1>2 DEF StoreInv, Convergent

\* A window starts, or its preload fails, goes on or ends.
LEMMA StepOpening ==
  ASSUME StoreInv, NEW w \in Windows,
         \/ OpenWindow(w) \/ PreloadFails(w) \/ PreloadEnds(w)
         \/ \E k \in Keys : PreloadVisits(w, k)
  PROVE  StoreInv'
<1> USE DEF StoreInv
<1>1. UNCHANGED <<pending, channel, store, writes, unsettled>>
  BY DEF OpenWindow, PreloadFails, PreloadEnds, PreloadVisits
<1>2. GMTypeOK'
  <2>1. phase' \in [Windows -> Phase] /\ cursor' \in [Windows -> SUBSET Keys]
    <3>1. phase \in [Windows -> Phase] /\ cursor \in [Windows -> SUBSET Keys]
      BY DEF GMTypeOK
    <3>2. CASE OpenWindow(w) \/ PreloadFails(w) \/ PreloadEnds(w)
      <4>1. /\ phase' \in {[phase EXCEPT ![w] = p] : p \in {"opening", "failed", "ready"}}
            /\ cursor' = cursor
        BY <3>2 DEF OpenWindow, PreloadFails, PreloadEnds
      <4>2. {"opening", "failed", "ready"} \subseteq Phase
        BY DEF Phase
      <4> HIDE DEF StoreInv
      <4> QED
        BY <3>1, <4>1, <4>2
    <3>3. CASE \E k \in Keys : PreloadVisits(w, k)
      <4>1. PICK k \in Keys : /\ cursor' = [cursor EXCEPT ![w] = cursor[w] \ {k}]
                              /\ phase' = phase
        BY <3>3 DEF PreloadVisits
      <4> HIDE DEF StoreInv
      <4> QED
        BY <3>1, <4>1
    <3> QED
      BY <3>2, <3>3
  <2>2. valueCache' \in [Windows -> [Keys -> Entry]]
    <3>1. CASE \E k \in Keys : PreloadVisits(w, k)
      <4>1. PICK k \in Keys : valueCache' = [valueCache EXCEPT ![w][k] = store[k]]
        BY <3>1 DEF PreloadVisits
      <4> QED
        BY <4>1 DEF GMTypeOK
    <3>2. CASE valueCache' = valueCache
      BY <3>2 DEF GMTypeOK
    <3> QED
      BY <3>1, <3>2 DEF OpenWindow, PreloadFails, PreloadEnds
  <2> QED
    BY <1>1, <2>1, <2>2 DEF GMTypeOK
<1>3. Quiet'
  BY <1>1 DEF OpenWindow, PreloadFails, PreloadEnds, PreloadVisits, GMTypeOK, Quiet
<1>4. ASSUME NEW k \in Keys, NEW a \in Windows, NEW val \in Entry, Settled(k, a, val)
      PROVE  Settled(k, a, val)'
  <2>1. Loading' => Loading
    BY DEF OpenWindow, PreloadFails, PreloadEnds, PreloadVisits, GMTypeOK, Loading
  <2>2. ASSUME NEW u \in Windows, Holds(u, k, val) PROVE Holds(u, k, val)'
    <3>1. CASE OpenWindow(w)
      BY <2>2, <3>1 DEF OpenWindow, Holds, GMTypeOK, Quiet
    <3>2. CASE PreloadFails(w) \/ PreloadEnds(w)
      BY <2>2, <3>2 DEF PreloadFails, PreloadEnds, Holds, GMTypeOK
    <3>3. CASE \E kk \in Keys : PreloadVisits(w, kk)
      <4>1. PICK kk \in Keys : PreloadVisits(w, kk)
        BY <3>3
      <4>2. store[k] = val
        BY <1>4, <4>1 DEF Settled, PreloadVisits, Loading
      <4> QED
        BY <2>2, <4>1, <4>2 DEF PreloadVisits, Holds, GMTypeOK
    <3> QED
      BY <3>1, <3>2, <3>3
  <2> QED
    BY <1>1, <1>4, <2>1, <2>2 DEF Settled
<1> QED
  BY <1>1, <1>2, <1>3, <1>4 DEF Convergent

LEMMA StepPreload ==
  ASSUME StoreInv, NEW w \in Windows, PreloadStarts(w)
  PROVE  StoreInv'
<1> USE DEF StoreInv, PreloadStarts
<1>1. GMTypeOK' /\ Quiet'
  BY DEF GMTypeOK, Phase, Quiet
<1>2. ASSUME NEW k \in Keys \ unsettled', NEW a \in Windows, NEW val \in Entry, Settled(k, a, val)
      PROVE  Settled(k, a, val)'
  <2>1. \A u \in Windows : ~About(k, pending[u])
    BY DEF Pending
  <2>2. store[k] = val
    BY <1>2, <2>1 DEF Settled
  <2>3. ASSUME NEW u \in Windows, Holds(u, k, val) PROVE Holds(u, k, val)'
    BY <2>2, <2>3 DEF Holds, GMTypeOK
  <2> QED
    BY <1>2, <2>1, <2>3 DEF Settled, Loading
<1> QED
  BY <1>1, <1>2 DEF Convergent

LEMMA StepClose ==
  ASSUME StoreInv, NEW w \in Windows, CloseWindow(w)
  PROVE  StoreInv'
<1> USE DEF StoreInv, CloseWindow
<1>1. GMTypeOK' /\ Quiet'
  BY DEF GMTypeOK, Phase, Quiet, Entry
<1>2. ASSUME NEW k \in Keys \ unsettled', NEW a \in Windows, NEW val \in Entry, Settled(k, a, val)
      PROVE  Settled(k, a, val)'
  <2>1. ~About(k, pending[w]) /\ ~About(k, <<>>)
    BY DEF About
  <2>2. \A u \in Windows : pending'[u] = IF u = w THEN <<>> ELSE pending[u]
    BY DEF GMTypeOK
  <2>3. \A u, v \in Windows : channel'[u][v] = IF u = w THEN <<>> ELSE channel[u][v]
    BY DEF GMTypeOK
  <2>4. Loading' => Loading
    BY DEF Loading, GMTypeOK
  <2>5. Holds(w, k, val)'
    BY DEF Holds, GMTypeOK
  <2>6. ASSUME NEW u \in Windows \ {w}, Holds(u, k, val) PROVE Holds(u, k, val)'
    BY <2>6 DEF Holds, GMTypeOK
  <2> QED
    BY <1>2, <2>1, <2>2, <2>3, <2>4, <2>5, <2>6 DEF Settled
<1> QED
  BY <1>1, <1>2 DEF Convergent
----------------------------------------------------------------------------
\* GM_setValue and GM_deleteValue.
LEMMA StepChange ==
  ASSUME StoreInv, NEW w \in Windows, NEW key \in Keys, NEW new \in Entry, SetOrDelete(w, key, new)
  PROVE  StoreInv'
<1> USE DEF StoreInv
<1> DEFINE c == [key |-> key, val |-> new]
<1>1. c \in Change /\ c.key = key /\ c.val = new
  BY DEF Change
<1>2. /\ Running(w) /\ writes < MaxWrites /\ writes' = writes + 1
      /\ valueCache' = [valueCache EXCEPT ![w][key] = new]
      /\ pending' = [pending EXCEPT ![w] = Append(@, c)]
      /\ channel' = Posted(w, c)
      /\ unsettled' = IF Loading \/ Contested(w, key) THEN unsettled \cup {key} ELSE unsettled \ {key}
      /\ UNCHANGED <<phase, cursor, store>>
  BY DEF SetOrDelete
<1> HIDE DEF c
<1>3. \A u \in Windows : /\ pending[u] \in Seq(Change)
                         /\ pending'[u] = IF u = w THEN Append(pending[u], c) ELSE pending[u]
  BY <1>2 DEF GMTypeOK
<1>4. \A u, v \in Windows :
        /\ channel[u][v] \in Seq(Change)
        /\ channel'[u][v] = IF v = w /\ u # w /\ Running(u) THEN Append(channel[u][v], c)
                                                            ELSE channel[u][v]
  BY <1>2 DEF GMTypeOK, Posted
<1>5. \A s \in Seq(Change) : Append(s, c) \in Seq(Change)
  BY <1>1, AppendProperties
<1>6. GMTypeOK'
  <2>1. pending' \in [Windows -> Seq(Change)]
    BY <1>2, <1>3, <1>5 DEF GMTypeOK
  <2>2. channel' \in [Windows -> [Windows -> Seq(Change)]]
    BY <1>2, <1>4, <1>5 DEF GMTypeOK, Posted
  <2>3. valueCache' \in [Windows -> [Keys -> Entry]] /\ unsettled' \in SUBSET Keys
    BY <1>2 DEF GMTypeOK
  <2>4. writes' \in 0 .. MaxWrites
    BY <1>2, WritesAssumption DEF GMTypeOK
  <2> QED
    BY <1>2, <2>1, <2>2, <2>3, <2>4 DEF GMTypeOK
<1>7. Quiet'
  BY <1>2, <1>3, <1>4 DEF Quiet, Running, GMTypeOK
<1>8. ASSUME NEW k \in Keys \ unsettled', k # key, NEW a \in Windows, NEW val \in Entry,
             Settled(k, a, val)
      PROVE  Settled(k, a, val)'
  <2>1. \A u \in Windows : /\ About(k, pending'[u]) <=> About(k, pending[u])
                           /\ LastIs(k, pending'[u], val) <=> LastIs(k, pending[u], val)
    <3> TAKE u \in Windows
    <3>1. /\ About(k, Append(pending[u], c)) <=> About(k, pending[u])
          /\ LastIs(k, Append(pending[u], c), val) <=> LastIs(k, pending[u], val)
      BY <1>1, <1>3, <1>8, AboutAppend
    <3> QED
      BY <1>3, <3>1
  <2>2. \A u, v \in Windows : /\ About(k, channel'[u][v]) <=> About(k, channel[u][v])
                              /\ LastIs(k, channel'[u][v], val) <=> LastIs(k, channel[u][v], val)
    <3> TAKE u, v \in Windows
    <3>1. /\ About(k, Append(channel[u][v], c)) <=> About(k, channel[u][v])
          /\ LastIs(k, Append(channel[u][v], c), val) <=> LastIs(k, channel[u][v], val)
      BY <1>1, <1>4, <1>8, AboutAppend
    <3> QED
      BY <1>4, <3>1
  <2>3. \A u \in Windows : valueCache'[u][k] = valueCache[u][k]
    BY <1>2, <1>8 DEF GMTypeOK
  <2> QED
    BY <1>2, <1>8, <2>1, <2>2, <2>3 DEF Settled, Holds, Loading
<1>9. ASSUME key \notin unsettled' PROVE Settled(key, w, new)'
  <2>1. ~Loading /\ ~Contested(w, key)
    BY <1>2, <1>9
  <2>2. \A u \in Windows \ {w} : ~About(key, pending'[u])
    BY <1>3, <2>1 DEF Contested
  <2>3. About(key, pending'[w]) /\ LastIs(key, pending'[w], new)
    BY <1>1, <1>3, AboutAppend
  <2>4. \A u \in Windows, v \in Windows \ {w} : ~About(key, channel'[u][v])
    BY <1>4, <2>1 DEF Contested
  <2>5. \A u \in Windows \ {w} :
          Running(u) => About(key, channel'[u][w]) /\ LastIs(key, channel'[u][w], new)
    <3> TAKE u \in Windows \ {w}
    <3>1. About(key, Append(channel[u][w], c)) /\ LastIs(key, Append(channel[u][w], c), new)
      BY <1>1, <1>4, AboutAppend
    <3> QED
      BY <1>4, <3>1
  <2>6. ASSUME NEW u \in Windows, ~Running(u) \/ u = w
        PROVE  ~About(key, channel'[u][w]) /\ Holds(u, key, new)'
    <3>1. channel'[u][w] = <<>>
      BY <1>4, <2>6 DEF Quiet, Running
    <3>2. ~About(key, <<>>)
      BY DEF About
    <3>3. u = w => valueCache'[u][key] = new
      BY <1>2 DEF GMTypeOK
    <3>4. u # w => phase'[u] = "closed"
      BY <1>2, <2>6 DEF Running
    <3> QED
      BY <3>1, <3>2, <3>3, <3>4 DEF Holds
  <2> QED
    BY <1>2, <2>1, <2>2, <2>3, <2>4, <2>5, <2>6 DEF Settled, Loading
<1>10. Convergent'
  <2> SUFFICES ASSUME Windows # {}, NEW k \in Keys \ unsettled'
      PROVE  \E a \in Windows, val \in Entry : Settled(k, a, val)'
    BY DEF Convergent
  <2>1. CASE k = key
    BY <1>9, <2>1
  <2>2. CASE k # key
    <3>1. k \in Keys \ unsettled
      BY <1>2, <2>2
    <3>2. PICK a \in Windows, val \in Entry : Settled(k, a, val)
      BY <3>1 DEF Convergent
    <3> QED
      BY <1>8, <2>2, <3>2
  <2> QED
    BY <2>1, <2>2
<1> QED
  BY <1>6, <1>7, <1>10
----------------------------------------------------------------------------
\* The database carries out a request, or fails to.
LEMMA StepCommit ==
  ASSUME StoreInv, NEW w \in Windows, Commit(w) \/ CommitFails(w)
  PROVE  StoreInv'
<1> USE DEF StoreInv
<1> DEFINE c == Head(pending[w])
<1>1. /\ pending[w] # <<>> /\ pending' = [pending EXCEPT ![w] = Tail(@)] /\ phase[w] # "opening"
      /\ UNCHANGED <<phase, valueCache, cursor, channel, writes>>
      /\ \/ ~Loading /\ store' = [store EXCEPT ![c.key] = c.val] /\ unsettled' = unsettled
         \/ store' = store /\ unsettled' = unsettled \cup {c.key}
  BY DEF Commit, CommitFails
<1>2. /\ pending[w] \in Seq(Change) /\ c \in Change /\ Tail(pending[w]) \in Seq(Change)
      /\ c.key \in Keys /\ c.val \in Entry
      /\ \A u \in Windows : pending'[u] = IF u = w THEN Tail(pending[w]) ELSE pending[u]
  <2>1. pending[w] \in Seq(Change)
    BY DEF GMTypeOK
  <2>2. c \in Change /\ Tail(pending[w]) \in Seq(Change)
    BY <1>1, <2>1, AboutTail
  <2> QED
    BY <1>1, <2>1, <2>2 DEF GMTypeOK, Change
<1> HIDE DEF c
<1>3. GMTypeOK' /\ Quiet'
  BY <1>1, <1>2 DEF GMTypeOK, Quiet
<1>4. ASSUME NEW k \in Keys \ unsettled', NEW a \in Windows, NEW val \in Entry, Settled(k, a, val)
      PROVE  Settled(k, a, val)'
  <2>1. \A u \in Windows : \A x : Holds(u, k, x)' <=> Holds(u, k, x)
    BY <1>1 DEF Holds
  <2>2. CASE c.key # k
    <3>1. store'[k] = store[k]
      BY <1>1, <1>2, <2>2 DEF GMTypeOK
    <3>2. About(k, pending'[w]) <=> About(k, pending[w])
      BY <1>1, <1>2, <2>2, AboutTail DEF c
    <3>3. About(k, pending[w]) /\ LastIs(k, pending[w], val) => LastIs(k, pending'[w], val)
      BY <1>1, <1>2, <2>2, AboutTail DEF c
    <3> QED
      BY <1>1, <1>2, <1>4, <2>1, <3>1, <3>2, <3>3 DEF Settled, Loading
  <2>3. CASE c.key = k
    <3>1. ~Loading /\ store'[k] = c.val
      BY <1>1, <1>2, <2>3 DEF GMTypeOK
    <3>2. About(k, pending[w])
      BY <1>1, <1>2, <2>3, AboutTail DEF c
    <3>3. w = a /\ LastIs(k, pending[w], val)
      BY <1>4, <3>2 DEF Settled
    <3>4. IF About(k, pending'[a]) THEN LastIs(k, pending'[a], val) ELSE store'[k] = val
      BY <1>1, <1>2, <3>1, <3>3, AboutTail DEF c
    <3> QED
      BY <1>1, <1>2, <1>4, <2>1, <3>1, <3>3, <3>4 DEF Settled, Loading
  <2> QED
    BY <2>2, <2>3
<1> QED
  BY <1>1, <1>3, <1>4 DEF Convergent

\* A window is told of a change.
LEMMA StepTold ==
  ASSUME StoreInv, NEW v \in Windows, NEW w \in Windows, Told(v, w)
  PROVE  StoreInv'
<1> USE DEF StoreInv
<1> DEFINE c == Head(channel[v][w])
<1>1. /\ channel[v][w] # <<>> /\ channel' = [channel EXCEPT ![v][w] = Tail(@)]
      /\ valueCache' = [valueCache EXCEPT ![v][c.key] = c.val]
      /\ UNCHANGED <<phase, cursor, pending, store, writes, unsettled>>
  BY DEF Told
<1>2. /\ channel[v][w] \in Seq(Change) /\ c \in Change /\ Tail(channel[v][w]) \in Seq(Change)
      /\ c.key \in Keys /\ c.val \in Entry
      /\ \A x, y \in Windows :
           channel'[x][y] = IF x = v /\ y = w THEN Tail(channel[v][w]) ELSE channel[x][y]
  <2>1. channel[v][w] \in Seq(Change)
    BY DEF GMTypeOK
  <2>2. c \in Change /\ Tail(channel[v][w]) \in Seq(Change)
    BY <1>1, <2>1, AboutTail
  <2> QED
    BY <1>1, <2>1, <2>2 DEF GMTypeOK, Change
<1> HIDE DEF c
<1>3. GMTypeOK'
  BY <1>1, <1>2 DEF GMTypeOK
<1>4. Quiet'
  BY <1>1, <1>2 DEF GMTypeOK, Quiet
<1>5. ASSUME NEW k \in Keys \ unsettled, NEW a \in Windows, NEW val \in Entry, Settled(k, a, val)
      PROVE  Settled(k, a, val)'
  <2>1. \A x, y \in Windows : About(k, channel'[x][y]) => About(k, channel[x][y])
    BY <1>1, <1>2, AboutTail
  <2>2. ASSUME NEW u \in Windows
        PROVE  IF About(k, channel'[u][a]) THEN LastIs(k, channel'[u][a], val) ELSE Holds(u, k, val)'
    <3>1. CASE u # v
      BY <1>1, <1>2, <1>5, <3>1 DEF Settled, Holds, GMTypeOK
    <3>2. CASE u = v /\ w # a
      <4>1. c.key # k
        BY <1>1, <1>2, <1>5, <3>2, AboutTail DEF Settled, c
      <4>2. valueCache'[u][k] = valueCache[u][k] /\ channel'[u][a] = channel[u][a]
        BY <1>1, <1>2, <3>2, <4>1 DEF GMTypeOK
      <4> QED
        BY <1>1, <1>5, <4>2 DEF Settled, Holds
    <3>3. CASE u = v /\ w = a
      <4>1. CASE c.key = k
        <5>1. LastIs(k, channel[u][a], val)
          BY <1>1, <1>2, <1>5, <3>3, <4>1, AboutTail DEF Settled, c
        <5>2. IF About(k, channel'[u][a]) THEN LastIs(k, channel'[u][a], val) ELSE c.val = val
          BY <1>1, <1>2, <3>3, <5>1, AboutTail DEF c
        <5>3. valueCache'[u][k] = c.val
          BY <1>1, <1>2, <3>3, <4>1 DEF GMTypeOK
        <5> QED
          BY <5>2, <5>3 DEF Holds
      <4>2. CASE c.key # k
        <5>1. valueCache'[u][k] = valueCache[u][k]
          BY <1>1, <1>2, <3>3, <4>2 DEF GMTypeOK
        <5>2. /\ About(k, channel'[u][a]) <=> About(k, channel[u][a])
              /\ About(k, channel[u][a]) /\ LastIs(k, channel[u][a], val) =>
                   LastIs(k, channel'[u][a], val)
          BY <1>1, <1>2, <3>3, <4>2, AboutTail DEF c
        <5> QED
          BY <1>1, <1>5, <5>1, <5>2 DEF Settled, Holds
      <4> QED
        BY <4>1, <4>2
    <3> QED
      BY <3>1, <3>2, <3>3
  <2> QED
    BY <1>1, <1>5, <2>1, <2>2 DEF Settled, Loading
<1> QED
  BY <1>1, <1>3, <1>4, <1>5 DEF Convergent
----------------------------------------------------------------------------
LEMMA StoreInvariant == GMSpec => []StoreInv
<1>1. ASSUME StoreInv, [GMNext]_gmVars PROVE StoreInv'
  <2>1. ASSUME NEW w \in Windows,
               \/ OpenWindow(w) \/ PreloadFails(w) \/ PreloadEnds(w)
               \/ \E k \in Keys : PreloadVisits(w, k)
        PROVE  StoreInv'
    BY <1>1, <2>1, StepOpening
  <2>2. ASSUME NEW w \in Windows, PreloadStarts(w) PROVE StoreInv'
    BY <1>1, <2>2, StepPreload
  <2>3. ASSUME NEW w \in Windows, CloseWindow(w) PROVE StoreInv'
    BY <1>1, <2>3, StepClose
  <2>4. ASSUME NEW w \in Windows, NEW k \in Keys, NEW val \in Entry, SetOrDelete(w, k, val)
        PROVE  StoreInv'
    BY <1>1, <2>4, StepChange
  <2>5. ASSUME NEW w \in Windows, Commit(w) \/ CommitFails(w) PROVE StoreInv'
    BY <1>1, <2>5, StepCommit
  <2>6. ASSUME NEW w \in Windows, NEW v \in Windows, Told(v, w) PROVE StoreInv'
    BY <1>1, <2>6, StepTold
  <2>7. CASE UNCHANGED gmVars
    <3>1. GMTypeOK' /\ Quiet'
      BY <1>1, <2>7 DEF StoreInv, gmVars, GMTypeOK, Quiet
    <3>2. Convergent'
      BY <1>1, <2>7 DEF StoreInv, gmVars, Convergent, Settled, Holds, Loading
    <3> QED
      BY <3>1, <3>2 DEF StoreInv
  <2> QED
    BY <1>1, <2>1, <2>2, <2>3, <2>4, <2>5, <2>6, <2>7 DEF GMNext
<1> QED
  BY <1>1, InitStore, PTL DEF GMSpec

\* Caches, requests and messages only hold changes of keys the scripts use.
THEOREM StoreTypeCorrect == GMSpec => []GMTypeOK
<1>1. StoreInv => GMTypeOK
  BY DEF StoreInv
<1> QED
  BY <1>1, StoreInvariant, PTL

\* Whatever windows open, fail to load, close, set and delete: once nothing is
\* under way they agree on every key whose last change met nothing
\* (gm-polyfill.js: preload, dbSave, dbDelete, onmessage).
THEOREM CachesAgree == GMSpec => []StoresAgree
<1>1. StoreInv => StoresAgree
  <2> SUFFICES ASSUME StoreInv, AtRest, NEW w \in Windows, NEW k \in Keys \ unsettled, phase[w] = "ready"
      PROVE  valueCache[w][k] = store[k]
    BY DEF StoresAgree
  <2>1. PICK a \in Windows, val \in Entry : Settled(k, a, val)
    BY DEF StoreInv, Convergent
  <2>2. pending[a] = <<>> /\ channel[w][a] = <<>> /\ ~About(k, <<>>)
    BY DEF AtRest, About
  <2> QED
    BY <2>1, <2>2 DEF Settled, Holds
<1> QED
  BY <1>1, StoreInvariant, PTL
-----------------------------------------------------------------------------
(***************************************************************************)
(* The translations.  Within a load they never go back, since the release  *)
(* last seen is as new as all that was ever kept, and who downloads is alone*)
(* and downloads what was last seen.  The page shows none older than those of*)
(* its database, since storage has no label newer than its copy.           *)
(***************************************************************************)

\* A copy of the translations, or none.
Copies == Undefined .. MaxReleased

\* Storage s has no label that is newer than its content.
Whole(s) == s["databaseSha"] <= s["databaseMap"] /\ s["databaseInfo"] <= s["database"]

\* A value put at an item.
Put == [item : Items, val : Copies]

\* What a list of puts of different items makes of a storage.
LEMMA AfterPuts ==
  ASSUME NEW list \in Seq(Put), NEW d \in [Items -> Copies],
         \A j, k \in 1 .. Len(list) : list[j].item = list[k].item => j = k
  PROVE  /\ After(list, d) \in [Items -> Copies]
         /\ \A j \in 1 .. Len(list) : After(list, d)[list[j].item] = list[j].val
         /\ \A i \in Items : (\A j \in 1 .. Len(list) : list[j].item # i) => After(list, d)[i] = d[i]
<1>0. DOMAIN list = 1 .. Len(list) /\ \A j \in 1 .. Len(list) : list[j] \in Put
  OBVIOUS
<1>1. ASSUME NEW j \in 1 .. Len(list) PROVE After(list, d)[list[j].item] = list[j].val
  <2> DEFINE P == {list[k] : k \in DOMAIN list}
             p == CHOOSE q \in P : q.item = list[j].item
  <2>1. p \in P /\ p.item = list[j].item
    BY <1>0
  <2>2. PICK k \in 1 .. Len(list) : p = list[k]
    BY <1>0, <2>1
  <2>3. k = j
    BY <2>1, <2>2
  <2> HIDE DEF p
  <2>4. p.val = list[j].val
    BY <2>2, <2>3
  <2>5. list[j].item \in Items /\ \E k1 \in DOMAIN list : list[k1].item = list[j].item
    BY <1>0 DEF Put
  <2> QED
    BY <2>4, <2>5 DEF After, p
<1>2. ASSUME NEW i \in Items, \A j \in 1 .. Len(list) : list[j].item # i
      PROVE  After(list, d)[i] = d[i]
  BY <1>0, <1>2 DEF After
<1>3. ASSUME NEW i \in Items PROVE After(list, d)[i] \in Copies
  <2>1. CASE \E j \in 1 .. Len(list) : list[j].item = i
    BY <1>0, <1>1, <2>1 DEF Put
  <2>2. CASE \A j \in 1 .. Len(list) : list[j].item # i
    BY <1>2, <2>2
  <2> QED
    BY <2>1, <2>2
<1>4. After(list, d) = [i \in Items |-> After(list, d)[i]]
  BY DEF After
<1> QED
  BY <1>1, <1>2, <1>3, <1>4

(* All of a list is put in the cache, and the first n of it in storage.    *)
Takes(list) ==
  /\ cache' \in [Items -> Copies] /\ disk' \in [Items -> Copies]
  /\ {lost', torn'} \subseteq BOOLEAN /\ (lost => lost') /\ (torn => torn')
  /\ \A j \in 1 .. Len(list) : cache'[list[j].item] = list[j].val
  /\ \A i \in Items : (\A j \in 1 .. Len(list) : list[j].item # i)
                         => cache'[i] = cache[i] /\ disk'[i] = disk[i]
  /\ \E n \in 0 .. Len(list) :
       /\ \A j \in 1 .. Len(list) :
            disk'[list[j].item] = IF j <= n THEN list[j].val ELSE disk[list[j].item]
       /\ n < Len(list) => lost'
       /\ n < Len(list) /\ ~lost => (HalfPut(list[n + 1], disk') => torn')
       /\ lost => n = 0

\* GM_setValue of a list.
LEMMA SavePuts ==
  ASSUME TagTypeOK, NEW list \in Seq(Put), Save(list),
         \A j, k \in 1 .. Len(list) : list[j].item = list[k].item => j = k
  PROVE  Takes(list)
<1>1. PICK n \in Done(list) :
        /\ disk' = After(SubSeq(list, 1, n), disk)
        /\ cache' = After(list, cache)
        /\ lost' = (lost \/ n < Len(list))
        /\ torn' = (torn \/ (~lost /\ n < Len(list) /\ HalfPut(list[n + 1], disk')))
  BY DEF Save
<1>2. n \in 0 .. Len(list) /\ (lost => n = 0)
  BY DEF Done
<1>3. disk \in [Items -> Copies] /\ cache \in [Items -> Copies]
  BY DEF TagTypeOK, Copies
<1> DEFINE first == SubSeq(list, 1, n)
<1>4. /\ first \in Seq(Put) /\ Len(first) = n
      /\ \A j \in 1 .. n : first[j] = list[j]
  BY <1>2
<1>5. \A j, k \in 1 .. Len(first) : first[j].item = first[k].item => j = k
  BY <1>2, <1>4
<1> HIDE DEF first
<1>6. /\ After(list, cache) \in [Items -> Copies]
      /\ \A j \in 1 .. Len(list) : After(list, cache)[list[j].item] = list[j].val
      /\ \A i \in Items : (\A j \in 1 .. Len(list) : list[j].item # i) => After(list, cache)[i] = cache[i]
  BY <1>3, AfterPuts
<1>7. /\ After(first, disk) \in [Items -> Copies]
      /\ \A j \in 1 .. Len(first) : After(first, disk)[first[j].item] = first[j].val
      /\ \A i \in Items : (\A j \in 1 .. Len(first) : first[j].item # i) => After(first, disk)[i] = disk[i]
  BY <1>3, <1>4, <1>5, AfterPuts
<1>8. disk' = After(first, disk)
  BY <1>1 DEF first
<1>9. ASSUME NEW j \in 1 .. Len(list)
      PROVE  disk'[list[j].item] = IF j <= n THEN list[j].val ELSE disk[list[j].item]
  <2>1. CASE j <= n
    BY <1>2, <1>4, <1>7, <1>8, <2>1
  <2>2. CASE ~ j <= n
    <3>1. list[j] \in Put
      OBVIOUS
    <3>2. \A k \in 1 .. Len(first) : first[k].item # list[j].item
      BY <1>2, <1>4, <2>2
    <3> QED
      BY <1>7, <1>8, <2>2, <3>1, <3>2 DEF Put
  <2> QED
    BY <2>1, <2>2
<1>10. ASSUME NEW i \in Items, \A j \in 1 .. Len(list) : list[j].item # i
       PROVE  cache'[i] = cache[i] /\ disk'[i] = disk[i]
  <2>1. \A k \in 1 .. Len(first) : first[k].item # i
    BY <1>2, <1>4, <1>10
  <2> QED
    BY <1>1, <1>6, <1>7, <1>8, <1>10, <2>1
<1>11. cache' \in [Items -> Copies] /\ disk' \in [Items -> Copies]
  BY <1>1, <1>6, <1>7, <1>8
<1>12. \A j \in 1 .. Len(list) : cache'[list[j].item] = list[j].val
  BY <1>1, <1>6
<1>13. {lost', torn'} \subseteq BOOLEAN /\ (lost => lost') /\ (torn => torn')
  BY <1>1
<1>14. /\ n < Len(list) => lost'
       /\ n < Len(list) /\ ~lost => (HalfPut(list[n + 1], disk') => torn')
  BY <1>1
<1> QED
  BY <1>2, <1>9, <1>10, <1>11, <1>12, <1>13, <1>14 DEF Takes
\* What the lists that are put make of storage, one by one.
LEMMA SaveNothing ==
  ASSUME TagTypeOK, Save(<<>>)
  PROVE  disk' = disk /\ cache' = cache /\ lost' = lost /\ torn' = torn
<1>1. PICK n \in Done(<<>>) :
        /\ disk' = After(SubSeq(<<>>, 1, n), disk)
        /\ cache' = After(<<>>, cache)
        /\ lost' = (lost \/ n < Len(<<>>))
        /\ torn' = (torn \/ (~lost /\ n < Len(<<>>) /\ HalfPut((<<>>)[n + 1], disk')))
  BY DEF Save
<1>2. n = 0
  BY <1>1 DEF Done
<1>3. SubSeq(<<>>, 1, 0) = <<>>
  OBVIOUS
<1>4. \A d \in [Items -> Copies] : After(<<>>, d) = d
  BY DEF After
<1>5. disk \in [Items -> Copies] /\ cache \in [Items -> Copies] /\ lost \in BOOLEAN /\ torn \in BOOLEAN
  BY DEF TagTypeOK, Copies
<1>6. disk' = disk /\ cache' = cache
  BY <1>1, <1>2, <1>3, <1>4, <1>5
<1>7. lost' = lost /\ torn' = torn
  BY <1>1, <1>2, <1>5
<1> QED
  BY <1>6, <1>7

LEMMA SaveRelease ==
  ASSUME TagTypeOK, NEW v \in Copies, Save(<<Is("release", v)>>)
  PROVE  /\ cache' \in [Items -> Copies] /\ disk' \in [Items -> Copies]
         /\ {lost', torn'} \subseteq BOOLEAN /\ (lost => lost') /\ (torn => torn')
         /\ cache'["release"] = v
         /\ disk'["release"] = v \/ (disk'["release"] = disk["release"] /\ lost')
         /\ lost => disk'["release"] = disk["release"]
         /\ \A i \in Items \ {"release"} : cache'[i] = cache[i] /\ disk'[i] = disk[i]
<1> DEFINE list == <<Is("release", v)>>
<1>1. /\ list \in Seq(Put) /\ Len(list) = 1
      /\ list[1].item = "release" /\ list[1].val = v
  BY DEF Is, Put, Items
<1>2. Save(list)
  OBVIOUS
<1> HIDE DEF list
<1>3. \A j, k \in 1 .. Len(list) : list[j].item = list[k].item => j = k
  BY <1>1
<1>4. Takes(list)
  BY <1>1, <1>2, <1>3, SavePuts
<1>5. PICK n \in 0 .. 1 : /\ disk'["release"] = IF 1 <= n THEN v ELSE disk["release"]
                          /\ n < 1 => lost'
                          /\ lost => n = 0
  BY <1>1, <1>4 DEF Takes
<1> QED
  BY <1>1, <1>4, <1>5 DEF Takes

LEMMA SaveCopy ==
  ASSUME TagTypeOK, NEW l \in Copies, NEW m \in Copies,
         Save(<<Is("databaseMap", m), Is("databaseSha", l)>>)
  PROVE  /\ cache' \in [Items -> Copies] /\ disk' \in [Items -> Copies]
         /\ {lost', torn'} \subseteq BOOLEAN /\ (lost => lost') /\ (torn => torn')
         /\ cache'["databaseMap"] = m /\ cache'["databaseSha"] = l
         /\ \A i \in Items \ {"databaseMap", "databaseSha"} : cache'[i] = cache[i] /\ disk'[i] = disk[i]
         /\ Whole(disk) /\ l <= m /\ ~torn' => Whole(disk')
<1> DEFINE list == <<Is("databaseMap", m), Is("databaseSha", l)>>
<1>1. /\ list \in Seq(Put) /\ Len(list) = 2
      /\ list[1].item = "databaseMap" /\ list[1].val = m
      /\ list[2].item = "databaseSha" /\ list[2].val = l
  BY DEF Is, Put, Items
<1>2. Save(list)
  OBVIOUS
<1> HIDE DEF list
<1>3. \A j, k \in 1 .. Len(list) : list[j].item = list[k].item => j = k
  BY <1>1
<1>4. Takes(list)
  BY <1>1, <1>2, <1>3, SavePuts
<1>5. \A i \in Items \ {"databaseMap", "databaseSha"} : cache'[i] = cache[i] /\ disk'[i] = disk[i]
  BY <1>1, <1>4 DEF Takes
<1>6. PICK n \in 0 .. 2 : /\ disk'["databaseMap"] = IF 1 <= n THEN m ELSE disk["databaseMap"]
                          /\ disk'["databaseSha"] = IF 2 <= n THEN l ELSE disk["databaseSha"]
                          /\ n < 2 /\ ~lost => (HalfPut(list[n + 1], disk') => torn')
                          /\ lost => n = 0
  BY <1>1, <1>4 DEF Takes
<1>7. ASSUME Whole(disk), l <= m, ~torn' PROVE Whole(disk')
  <2>1. disk'["databaseInfo"] = disk["databaseInfo"] /\ disk'["database"] = disk["database"]
    BY <1>5 DEF Items
  <2>2. disk \in [Items -> Int] /\ disk' \in [Items -> Int]
    BY <1>4 DEF Takes, TagTypeOK, Copies, Undefined
  <2>3. disk'["databaseSha"] <= disk'["databaseMap"]
    <3>1. CASE n = 1
      BY <1>1, <1>6, <1>7, <2>2, <3>1 DEF HalfPut, Whole, Items, Copies, Undefined
    <3>2. CASE n # 1
      BY <1>6, <1>7, <2>2, <3>2 DEF Whole, Items
    <3> QED
      BY <3>1, <3>2
  <2> QED
    BY <1>7, <2>1, <2>3 DEF Whole
<1> QED
  BY <1>1, <1>4, <1>5, <1>7 DEF Takes

LEMMA SaveBase ==
  ASSUME TagTypeOK, NEW l \in Copies,
         Save(<<Is("databaseInfo", l), Is("database", l)>>)
  PROVE  /\ cache' \in [Items -> Copies] /\ disk' \in [Items -> Copies]
         /\ {lost', torn'} \subseteq BOOLEAN /\ (lost => lost') /\ (torn => torn')
         /\ cache'["databaseInfo"] = l /\ cache'["database"] = l
         /\ disk'["databaseInfo"] \in {disk["databaseInfo"], l}
         /\ lost => disk'["databaseInfo"] = disk["databaseInfo"]
         /\ \A i \in Items \ {"databaseInfo", "database"} : cache'[i] = cache[i] /\ disk'[i] = disk[i]
         /\ Whole(disk) /\ ~torn' => Whole(disk')
<1> DEFINE list == <<Is("databaseInfo", l), Is("database", l)>>
<1>1. /\ list \in Seq(Put) /\ Len(list) = 2
      /\ list[1].item = "databaseInfo" /\ list[1].val = l
      /\ list[2].item = "database" /\ list[2].val = l
  BY DEF Is, Put, Items
<1>2. Save(list)
  OBVIOUS
<1> HIDE DEF list
<1>3. \A j, k \in 1 .. Len(list) : list[j].item = list[k].item => j = k
  BY <1>1
<1>4. Takes(list)
  BY <1>1, <1>2, <1>3, SavePuts
<1>5. \A i \in Items \ {"databaseInfo", "database"} : cache'[i] = cache[i] /\ disk'[i] = disk[i]
  BY <1>1, <1>4 DEF Takes
<1>6. PICK n \in 0 .. 2 : /\ disk'["databaseInfo"] = IF 1 <= n THEN l ELSE disk["databaseInfo"]
                          /\ disk'["database"] = IF 2 <= n THEN l ELSE disk["database"]
                          /\ n < 2 /\ ~lost => (HalfPut(list[n + 1], disk') => torn')
                          /\ lost => n = 0
  BY <1>1, <1>4 DEF Takes
<1>7. ASSUME Whole(disk), ~torn' PROVE Whole(disk')
  <2>1. disk'["databaseMap"] = disk["databaseMap"] /\ disk'["databaseSha"] = disk["databaseSha"]
    BY <1>5 DEF Items
  <2>2. disk'["databaseInfo"] <= disk'["database"]
    <3>1. CASE n = 1
      BY <1>1, <1>6, <1>7, <3>1 DEF HalfPut
    <3>2. CASE n # 1
      BY <1>6, <1>7, <3>2 DEF Whole, Copies, Undefined
    <3> QED
      BY <3>1, <3>2
  <2> QED
    BY <1>7, <2>1, <2>2 DEF Whole
<1> QED
  BY <1>1, <1>4, <1>5, <1>6, <1>7 DEF Takes

LEMMA SaveAll ==
  ASSUME TagTypeOK, NEW l \in Copies,
         Save(<<Is("databaseMap", l), Is("databaseSha", l), Is("databaseInfo", l), Is("database", l)>>)
  PROVE  /\ cache' \in [Items -> Copies] /\ disk' \in [Items -> Copies]
         /\ {lost', torn'} \subseteq BOOLEAN /\ (lost => lost') /\ (torn => torn')
         /\ \A i \in Items \ {"release"} : cache'[i] = l
         /\ disk'["databaseInfo"] \in {disk["databaseInfo"], l}
         /\ lost => disk'["databaseInfo"] = disk["databaseInfo"]
         /\ cache'["release"] = cache["release"] /\ disk'["release"] = disk["release"]
         /\ Whole(disk) /\ ~torn' => Whole(disk')
<1> DEFINE list == <<Is("databaseMap", l), Is("databaseSha", l), Is("databaseInfo", l), Is("database", l)>>
<1>1. /\ list \in Seq(Put) /\ Len(list) = 4
      /\ list[1].item = "databaseMap" /\ list[1].val = l
      /\ list[2].item = "databaseSha" /\ list[2].val = l
      /\ list[3].item = "databaseInfo" /\ list[3].val = l
      /\ list[4].item = "database" /\ list[4].val = l
  BY DEF Is, Put, Items
<1>2. Save(list)
  OBVIOUS
<1> HIDE DEF list
<1>3. \A j, k \in 1 .. Len(list) : list[j].item = list[k].item => j = k
  BY <1>1
<1>4. Takes(list)
  BY <1>1, <1>2, <1>3, SavePuts
<1>5. cache'["release"] = cache["release"] /\ disk'["release"] = disk["release"]
  BY <1>1, <1>4 DEF Takes, Items
<1>6. PICK n \in 0 .. 4 : /\ disk'["databaseMap"] = IF 1 <= n THEN l ELSE disk["databaseMap"]
                          /\ disk'["databaseSha"] = IF 2 <= n THEN l ELSE disk["databaseSha"]
                          /\ disk'["databaseInfo"] = IF 3 <= n THEN l ELSE disk["databaseInfo"]
                          /\ disk'["database"] = IF 4 <= n THEN l ELSE disk["database"]
                          /\ n < 4 /\ ~lost => (HalfPut(list[n + 1], disk') => torn')
                          /\ lost => n = 0
  BY <1>1, <1>4 DEF Takes
<1>7. ASSUME Whole(disk), ~torn' PROVE Whole(disk')
  <2>1. disk \in [Items -> Int] /\ disk' \in [Items -> Int] /\ l \in Int
    BY <1>4 DEF Takes, TagTypeOK, Copies, Undefined
  <2>2. disk'["databaseSha"] <= disk'["databaseMap"]
    <3>1. CASE n = 1
      BY <1>1, <1>6, <1>7, <2>1, <3>1 DEF HalfPut, Whole, Items
    <3>2. CASE n # 1
      BY <1>6, <1>7, <2>1, <3>2 DEF Whole, Items
    <3> QED
      BY <3>1, <3>2
  <2>3. disk'["databaseInfo"] <= disk'["database"]
    <3>1. CASE n = 3
      BY <1>1, <1>6, <1>7, <3>1 DEF HalfPut
    <3>2. CASE n # 3
      BY <1>6, <1>7, <2>1, <3>2 DEF Whole, Items
    <3> QED
      BY <3>1, <3>2
  <2> QED
    BY <2>2, <2>3 DEF Whole
<1>8. \A i \in Items \ {"release"} : cache'[i] = l
  BY <1>1, <1>4 DEF Takes, Items
<1> QED
  BY <1>4, <1>5, <1>6, <1>7, <1>8 DEF Takes
----------------------------------------------------------------------------
\* TagDatabase.init has not read the database yet.
Starting == boot \in {"info", "map"}
Asked(h) == task[h] \in {"check", "recheck", "look"}

\* No translations that the page has, or will find in storage, are newer than n.
Covers(n) ==
  /\ tagMap.label <= n /\ info <= n
  /\ cache["databaseInfo"] <= n /\ snapshot["databaseInfo"] <= n /\ disk["databaseInfo"] <= n

(* The release last seen covers all translations, and storage has it as far *)
(* as puts are done.  Before one is seen, what storage has of it does.      *)
SeenInv ==
  /\ lastCheck <= released
  /\ cache["release"] <= released /\ snapshot["release"] <= released /\ disk["release"] <= released
  /\ ~overtaken =>
       /\ Covers(released)
       /\ IF lastCheck # 0 THEN Covers(lastCheck) /\ (~lost => disk["release"] = lastCheck)
          ELSE /\ cache["release"] # Undefined =>
                    Covers(cache["release"]) /\ cache["release"] = disk["release"]
               /\ snapshot["release"] # Undefined =>
                    Covers(snapshot["release"]) /\ snapshot["release"] = disk["release"]
       /\ disk["databaseInfo"] <= disk["release"] /\ snapshot["databaseInfo"] <= snapshot["release"]

(* Who asks for the latest release asks for one that covers all there is,   *)
(* as long as none was seen.  Who updates is alone, and what it downloads   *)
(* covers all there is and is not newer than what was last seen.            *)
TaskOK(h) ==
  /\ Asked(h) => goal[h] \in 1 .. released /\ (~overtaken /\ lastCheck = 0 => Covers(goal[h]))
  /\ task[h] \in {"compare", "wait", "recheck", "download"} => lastCheck # 0
  /\ task[h] = "download" /\ ~overtaken => goal[h] <= lastCheck
  /\ task[h] \in {"recheck", "download"} /\ ~crowded =>
       updating = h /\ (task[h] = "download" /\ ~overtaken => Covers(goal[h]))

TaskInv == \A h \in Handlers : TaskOK(h)

(* Until TagDatabase.init has read the database the page is as it started,  *)
(* but for what other windows have put in its cache.                        *)
StartInv ==
  /\ IF Starting THEN tagMap = NoMap ELSE Undefined \notin {tagMap.label, tagMap.content}
  /\ loaded => snapshot = NoItems
  /\ Starting =>
       /\ task["rebuild"] = "idle"
       /\ have = Undefined - 1 \/ (have # Undefined /\ (foreign \/ have = cache["databaseSha"]))
       /\ torn \/ info \in {Undefined, cache["databaseInfo"]}
       /\ boot = "info" => info = Undefined
       /\ ~loaded => \A i \in Items \ {"release"} : cache[i] \in {Undefined, snapshot[i]}

(* Storage has no label newer than its copy.  The label there is that of the*)
(* database once it is up, and nothing older is shown, unless the label is  *)
(* another window's.                                                        *)
PageInv ==
  /\ ~torn => Whole(disk) /\ Whole(snapshot) /\ (Starting => Whole(cache)) /\ tagMap.label <= tagMap.content
  /\ ~overwritten /\ boot = "up" => foreign \/ cache["databaseSha"] = tagMap.label
  /\ ~overwritten /\ ~torn => cache["databaseSha"] <= cache["databaseMap"]
  /\ ~overwritten /\ ~torn /\ ~misled /\ shown # Undefined =>
       /\ foreign \/ cache["databaseSha"] <= shown
       /\ boot = "up" => tagMap.label <= shown
  /\ ~loaded => /\ (cache["databaseSha"] = Undefined) = (cache["databaseMap"] = Undefined)
                /\ cache["databaseMap"] = Undefined => shown = Undefined

(* What a page knows of releases is in order until another window puts one, *)
(* and again once the page is opened on what that window has left.          *)
Ordered == SeenInv /\ TaskInv

TagInv == TagTypeOK /\ StartInv /\ PageInv /\ (told \/ Ordered)
----------------------------------------------------------------------------
\* Syringe.updateTagMap, with nothing more to put.
LEMMA ShowOnly ==
  ASSUME TagTypeOK, NEW map \in [label : Copies, content : Copies],
         NEW old, Show(map, old, <<>>)
  PROVE  /\ cache' \in [Items -> Copies] /\ disk' \in [Items -> Copies]
         /\ {lost', torn'} \subseteq BOOLEAN /\ (lost => lost') /\ (torn => torn')
         /\ \A i \in Items \ {"databaseMap", "databaseSha"} : cache'[i] = cache[i] /\ disk'[i] = disk[i]
         /\ IF old = map.label
              THEN cache' = cache /\ disk' = disk /\ shown' = shown /\ GoesByStorage
              ELSE cache'["databaseMap"] = map.content /\ cache'["databaseSha"] = map.label /\ Shows(map.content)
         /\ Whole(disk) /\ map.label <= map.content /\ ~torn' => Whole(disk')
<1>1. CASE old = map.label
  <2>1. Save(<<>>) /\ shown' = shown /\ GoesByStorage
    BY <1>1 DEF Show
  <2>2. disk' = disk /\ cache' = cache /\ lost' = lost /\ torn' = torn
    BY <2>1, SaveNothing
  <2>3. cache \in [Items -> Copies] /\ disk \in [Items -> Copies] /\ lost \in BOOLEAN /\ torn \in BOOLEAN
    BY DEF TagTypeOK, Copies
  <2> QED
    BY <1>1, <2>1, <2>2, <2>3 DEF Whole
<1>2. CASE old # map.label
  <2>1. /\ Save(<<Is("databaseMap", map.content), Is("databaseSha", map.label)>> \o <<>>)
        /\ Shows(map.content)
    BY <1>2 DEF Show
  <2>2. <<Is("databaseMap", map.content), Is("databaseSha", map.label)>> \o <<>>
          = <<Is("databaseMap", map.content), Is("databaseSha", map.label)>>
    OBVIOUS
  <2>3. Save(<<Is("databaseMap", map.content), Is("databaseSha", map.label)>>)
    BY <2>1, <2>2
  <2>4. map.label \in Copies /\ map.content \in Copies
    OBVIOUS
  <2>5. /\ cache' \in [Items -> Copies] /\ disk' \in [Items -> Copies]
        /\ {lost', torn'} \subseteq BOOLEAN /\ (lost => lost') /\ (torn => torn')
        /\ cache'["databaseMap"] = map.content /\ cache'["databaseSha"] = map.label
        /\ \A i \in Items \ {"databaseMap", "databaseSha"} : cache'[i] = cache[i] /\ disk'[i] = disk[i]
        /\ Whole(disk) /\ map.label <= map.content /\ ~torn' => Whole(disk')
    BY <2>3, <2>4, SaveCopy
  <2> QED
    BY <1>2, <2>1, <2>5
<1> QED
  BY <1>1, <1>2

\* The same, before the database is put.
LEMMA ShowDownloaded ==
  ASSUME TagTypeOK, NEW l \in Copies, NEW old,
         Show([label |-> l, content |-> l], old, <<Is("databaseInfo", l), Is("database", l)>>)
  PROVE  /\ cache' \in [Items -> Copies] /\ disk' \in [Items -> Copies]
         /\ {lost', torn'} \subseteq BOOLEAN /\ (lost => lost') /\ (torn => torn')
         /\ cache'["databaseInfo"] = l /\ cache'["database"] = l
         /\ disk'["databaseInfo"] \in {disk["databaseInfo"], l}
         /\ lost => disk'["databaseInfo"] = disk["databaseInfo"]
         /\ cache'["release"] = cache["release"] /\ disk'["release"] = disk["release"]
         /\ IF old = l
              THEN /\ cache'["databaseMap"] = cache["databaseMap"]
                   /\ cache'["databaseSha"] = cache["databaseSha"] /\ shown' = shown /\ GoesByStorage
              ELSE cache'["databaseMap"] = l /\ cache'["databaseSha"] = l /\ Shows(l)
         /\ Whole(disk) /\ ~torn' => Whole(disk')
<1> DEFINE rest == <<Is("databaseInfo", l), Is("database", l)>>
           map == [label |-> l, content |-> l]
<1>0. map.label = l /\ map.content = l
  OBVIOUS
<1>1. CASE old = l
  <2>1. Save(rest) /\ shown' = shown /\ GoesByStorage
    BY <1>0, <1>1 DEF Show
  <2>2. /\ cache' \in [Items -> Copies] /\ disk' \in [Items -> Copies]
        /\ {lost', torn'} \subseteq BOOLEAN /\ (lost => lost') /\ (torn => torn')
        /\ cache'["databaseInfo"] = l /\ cache'["database"] = l
        /\ disk'["databaseInfo"] \in {disk["databaseInfo"], l}
        /\ lost => disk'["databaseInfo"] = disk["databaseInfo"]
        /\ \A i \in Items \ {"databaseInfo", "database"} : cache'[i] = cache[i] /\ disk'[i] = disk[i]
        /\ Whole(disk) /\ ~torn' => Whole(disk')
    BY <2>1, SaveBase
  <2> QED
    BY <1>1, <2>1, <2>2 DEF Items
<1>2. CASE old # l
  <2>1. /\ Save(<<Is("databaseMap", map.content), Is("databaseSha", map.label)>> \o rest)
        /\ Shows(l)
    BY <1>0, <1>2 DEF Show
  <2>2. <<Is("databaseMap", map.content), Is("databaseSha", map.label)>> \o rest
          = <<Is("databaseMap", l), Is("databaseSha", l), Is("databaseInfo", l), Is("database", l)>>
    <3> DEFINE two == <<Is("databaseMap", map.content), Is("databaseSha", map.label)>>
               four == <<Is("databaseMap", l), Is("databaseSha", l), Is("databaseInfo", l), Is("database", l)>>
    <3>1. /\ two \in Seq(Put) /\ Len(two) = 2
          /\ two[1] = Is("databaseMap", l) /\ two[2] = Is("databaseSha", l)
      BY <1>0 DEF Is, Put, Items
    <3>2. /\ rest \in Seq(Put) /\ Len(rest) = 2
          /\ rest[1] = Is("databaseInfo", l) /\ rest[2] = Is("database", l)
      BY DEF Is, Put, Items
    <3>3. /\ four \in Seq(Put) /\ Len(four) = 4
          /\ four[1] = Is("databaseMap", l) /\ four[2] = Is("databaseSha", l)
          /\ four[3] = Is("databaseInfo", l) /\ four[4] = Is("database", l)
      BY DEF Is, Put, Items
    <3> HIDE DEF two, four, rest
    <3>4. /\ two \o rest \in Seq(Put) /\ Len(two \o rest) = 4
          /\ \A i \in 1 .. 4 : (two \o rest)[i] = IF i <= 2 THEN two[i] ELSE rest[i - 2]
      BY SMTT(30), <3>1, <3>2, ConcatProperties
    <3>5. \A i \in 1 .. 4 : (two \o rest)[i] = four[i]
      BY <3>1, <3>2, <3>3, <3>4
    <3>6. two \o rest = four
      BY <3>3, <3>4, <3>5, SeqEqual
    <3> QED
      BY <3>6 DEF two, four
  <2>3. Save(<<Is("databaseMap", l), Is("databaseSha", l), Is("databaseInfo", l), Is("database", l)>>)
    BY <2>1, <2>2
  <2>4. /\ cache' \in [Items -> Copies] /\ disk' \in [Items -> Copies]
        /\ {lost', torn'} \subseteq BOOLEAN /\ (lost => lost') /\ (torn => torn')
        /\ \A i \in Items \ {"release"} : cache'[i] = l
        /\ disk'["databaseInfo"] \in {disk["databaseInfo"], l}
        /\ lost => disk'["databaseInfo"] = disk["databaseInfo"]
        /\ cache'["release"] = cache["release"] /\ disk'["release"] = disk["release"]
        /\ Whole(disk) /\ ~torn' => Whole(disk')
    BY <2>3, SaveAll
  <2> QED
    BY <1>2, <2>1, <2>4 DEF Items
<1> QED
  BY <1>1, <1>2
----------------------------------------------------------------------------
\* What handler h awaits next, when seen is the release last seen.
Moves(h, seen) ==
  \E where \in {"done", "compare", "wait", "recheck", "download"}, number \in {0, seen, released} :
    /\ Goes(h, where, number)
    /\ where = "download" => number = seen
    /\ where = "recheck" => number = released
    /\ IF where \in {"recheck", "download"}
         THEN updating = Nobody /\ updating' = h
         ELSE updating' = updating
    /\ waitsFor' \in [Handlers -> Handlers \cup {Nobody}]

\* await this.updating, the end of a message, and AutoUpdate's decision.
LEMMA WaitOrBeginMoves ==
  ASSUME TagTypeOK, NEW h \in Handlers, NEW seen, NEW fresh \in BOOLEAN, WaitOrBegin(h, seen, fresh)
  PROVE  Moves(h, seen)
<1>1. updating \in Handlers \cup {Nobody} /\ waitsFor \in [Handlers -> Handlers \cup {Nobody}]
  BY DEF TagTypeOK
<1>2. CASE updating = Nobody
  <2>1. updating' = h /\ Goes(h, Where(fresh), Number(seen, fresh)) /\ waitsFor' = waitsFor
    BY <1>2 DEF WaitOrBegin
  <2>2. Where(fresh) \in {"recheck", "download"} /\ Number(seen, fresh) \in {0, seen, released}
        /\ (Where(fresh) = "download" => Number(seen, fresh) = seen)
        /\ (Where(fresh) = "recheck" => Number(seen, fresh) = released)
    BY DEF Where, Number
  <2> QED
    BY <1>1, <1>2, <2>1, <2>2 DEF Moves
<1>3. CASE updating # Nobody
  <2>1. Goes(h, "wait", 0) /\ waitsFor' = [waitsFor EXCEPT ![h] = updating] /\ updating' = updating
    BY <1>3 DEF WaitOrBegin
  <2> QED
    BY <1>1, <2>1 DEF Moves
<1> QED
  BY <1>2, <1>3

LEMMA SettlesMoves ==
  ASSUME TagTypeOK, NEW h \in Handlers, NEW seen, NEW where \in {"done", "compare"}, Settles(h, where)
  PROVE  Moves(h, seen)
BY DEF TagTypeOK, Settles, Moves

LEMMA ConsiderMoves ==
  ASSUME TagTypeOK, NEW h \in Handlers, NEW seen, Consider(h, seen)
  PROVE  Moves(h, seen)
<1>1. ASSUME NEW where \in {"done", "compare"}, Settles(h, where) PROVE Moves(h, seen)
  BY <1>1, SettlesMoves
<1>2. ASSUME WaitOrBegin(h, seen, TRUE) PROVE Moves(h, seen)
  BY <1>2, WaitOrBeginMoves
<1>3. \/ Settles(h, "compare") \/ Settles(h, "done") \/ WaitOrBegin(h, seen, TRUE)
  BY DEF Consider
<1> QED
  BY <1>1, <1>2, <1>3

\* The tasks keep their type.
LEMMA MovesType ==
  ASSUME TagTypeOK, NEW h \in Handlers, NEW seen \in 0 .. MaxReleased, Moves(h, seen)
  PROVE  /\ task' \in [Handlers -> Stages]
         /\ goal' \in [Handlers -> 0 .. MaxReleased]
         /\ updating' \in Handlers \cup {Nobody}
         /\ waitsFor' \in [Handlers -> Handlers \cup {Nobody}]
<1>1. PICK where \in {"done", "compare", "wait", "recheck", "download"}, number \in {0, seen, released} :
        /\ task' = [task EXCEPT ![h] = where]
        /\ goal' = [goal EXCEPT ![h] = number]
        /\ updating' \in {updating, h}
        /\ waitsFor' \in [Handlers -> Handlers \cup {Nobody}]
  BY DEF Moves, Goes
<1>2. released \in 0 .. MaxReleased
  BY TagBoundsAssumption DEF TagTypeOK
<1>3. task' \in [Handlers -> Stages]
  BY <1>1 DEF TagTypeOK, Stages
<1>4. number \in 0 .. MaxReleased
  BY <1>1, <1>2, TagBoundsAssumption
<1>5. goal' \in [Handlers -> 0 .. MaxReleased]
  BY <1>1, <1>4 DEF TagTypeOK
<1> QED
  BY <1>1, <1>3, <1>5 DEF TagTypeOK

(* An update ends: what becomes of each handler.                            *)
LEMMA EndedTasks ==
  ASSUME TagTypeOK, NEW h \in Handlers, task[h] \in {"recheck", "download"}, Ended(h)
  PROVE  /\ task' \in [Handlers -> Stages]
         /\ goal' \in [Handlers -> 0 .. MaxReleased]
         /\ updating' \in Handlers \cup {Nobody}
         /\ waitsFor' \in [Handlers -> Handlers \cup {Nobody}]
         /\ crowded' \in BOOLEAN /\ (crowded => crowded')
         /\ task'[h] = "done"
         /\ \A g \in Handlers \ {h} :
              \/ task'[g] = task[g] /\ goal'[g] = goal[g]
              \/ /\ task[g] = "wait" /\ (~crowded' => updating' = g)
                 /\ \/ task'[g] = "recheck" /\ goal'[g] = released
                    \/ task'[g] = "download" /\ goal'[g] = lastCheck
<1> DEFINE W == {g \in Handlers : task[g] = "wait" /\ waitsFor[g] = h}
<1>1. /\ task' = [g \in Handlers |-> IF g \in W THEN Where(Known)
                                     ELSE IF g = h THEN "done" ELSE task[g]]
      /\ goal' = [g \in Handlers |-> IF g \in W THEN Number(lastCheck, Known)
                                     ELSE IF g = h THEN 0 ELSE goal[g]]
      /\ IF W = {} THEN updating' = Nobody ELSE updating' \in W
      /\ crowded' = (crowded \/ Cardinality(W) > 1)
      /\ waitsFor' = [g \in Handlers |-> IF g \in W THEN Nobody ELSE waitsFor[g]]
  BY DEF Ended
<1>2. W \subseteq Handlers /\ h \notin W
  OBVIOUS
<1>3. IsFiniteSet(W)
  <2>1. IsFiniteSet(Handlers)
    <3>1. IsFiniteSet({"rebuild"}) /\ IsFiniteSet({"auto"})
      BY FS_Singleton
    <3>2. IsFiniteSet({"rebuild"} \cup ({"auto"} \cup Presses))
      BY <3>1, FS_Union, PressesAssumption
    <3>3. Handlers = {"rebuild"} \cup ({"auto"} \cup Presses)
      BY DEF Handlers
    <3> QED
      BY <3>2, <3>3
  <2> QED
    BY <1>2, <2>1, FS_Subset
<1>4. ASSUME NEW g \in W, ~crowded' PROVE updating' = g
  <2>1. updating' \in W
    BY <1>1, <1>4
  <2>2. SUFFICES ASSUME updating' # g PROVE FALSE
    OBVIOUS
  <2>3. Cardinality(W) \in Nat /\ Cardinality(W) <= 1
    <3>1. Cardinality(W) \in Nat
      BY <1>3, FS_CardinalityType
    <3>2. ~(Cardinality(W) > 1)
      BY <1>1, <1>4
    <3> QED
      BY <3>1, <3>2
  <2>4. PICK u \in W : u # g
    BY <2>1, <2>2
  <2>5. IsFiniteSet({u, g}) /\ {u, g} \subseteq W
    BY <1>3, <2>4, FS_Subset
  <2>6. Cardinality({u, g}) <= Cardinality(W)
    BY <1>3, <2>5, FS_Subset
  <2>7. Cardinality({u, g}) = 2
    <3>1. IsFiniteSet({u}) /\ Cardinality({u}) = 1 /\ g \notin {u} /\ {u} \cup {g} = {u, g}
      BY <2>4, FS_Singleton
    <3>2. Cardinality({u} \cup {g}) = 2
      BY SMTT(30), <3>1, FS_AddElement
    <3> QED
      BY <3>1, <3>2
  <2> QED
    BY <2>3, <2>6, <2>7
<1>5. lastCheck \in 0 .. MaxReleased /\ released \in 0 .. MaxReleased /\ task \in [Handlers -> Stages]
      /\ goal \in [Handlers -> 0 .. MaxReleased] /\ waitsFor \in [Handlers -> Handlers \cup {Nobody}]
      /\ crowded \in BOOLEAN
  BY TagBoundsAssumption DEF TagTypeOK
<1>6. /\ Where(Known) \in {"recheck", "download"} /\ (Where(Known) = "download" => Number(lastCheck, Known) = lastCheck)
      /\ (Where(Known) = "recheck" => Number(lastCheck, Known) = released)
      /\ Number(lastCheck, Known) \in 0 .. MaxReleased
  BY <1>5 DEF Where, Number
<1> HIDE DEF W
<1>7. /\ goal' \in [Handlers -> 0 .. MaxReleased]
      /\ task' \in [Handlers -> Stages]
  <2>1. goal' \in [Handlers -> 0 .. MaxReleased]
    BY <1>1, <1>5, <1>6, TagBoundsAssumption
  <2>2. task' \in [Handlers -> Stages]
    BY <1>1, <1>5, <1>6 DEF Stages
  <2> QED
    BY <2>1, <2>2
<1>8. waitsFor' \in [Handlers -> Handlers \cup {Nobody}] /\ updating' \in Handlers \cup {Nobody}
      /\ crowded' \in BOOLEAN /\ (crowded => crowded')
  BY <1>1, <1>2, <1>5
<1>9. task'[h] = "done"
  BY <1>1, <1>2
<1>10. ASSUME NEW g \in Handlers \ {h}
       PROVE  \/ task'[g] = task[g] /\ goal'[g] = goal[g]
              \/ /\ task[g] = "wait" /\ (~crowded' => updating' = g)
                 /\ \/ task'[g] = "recheck" /\ goal'[g] = released
                    \/ task'[g] = "download" /\ goal'[g] = lastCheck
  <2>1. CASE g \in W
    <3>1. task[g] = "wait"
      BY <2>1 DEF W
    <3>2. task'[g] = Where(Known) /\ goal'[g] = Number(lastCheck, Known)
      BY <1>1, <2>1
    <3> QED
      BY <1>4, <1>6, <2>1, <3>1, <3>2
  <2>2. CASE g \notin W
    BY <1>1, <2>2
  <2> QED
    BY <2>1, <2>2
<1> QED
  BY <1>7, <1>8, <1>9, <1>10
----------------------------------------------------------------------------
(* Each action keeps TagTypeOK, whatever other windows do.                  *)
LEMMA ReadInfoType ==
  ASSUME TagTypeOK, ReadInfo
  PROVE  TagTypeOK'
BY DEF TagTypeOK, ReadInfo, Items, storageVars, savedVars, preloadVars, checkVars, taskVars, pageVars

LEMMA ShowCopyType ==
  ASSUME TagTypeOK, ShowCopy
  PROVE  TagTypeOK'
BY DEF TagTypeOK, ShowCopy, GoesByStorage, Items, Undefined,
       storageVars, savedVars, preloadVars, bootVars, checkVars, taskVars, pageVars

LEMMA ReadReleaseType ==
  ASSUME TagTypeOK, ReadRelease
  PROVE  TagTypeOK'
<1>1. cache["release"] \in 0 .. MaxReleased /\ MaxReleased \in Nat
  BY TagBoundsAssumption DEF TagTypeOK, ReadRelease, Items, Undefined
<1> QED
  BY <1>1 DEF TagTypeOK, ReadRelease,
     storageVars, savedVars, preloadVars, bootVars, checkVars, taskVars, pageVars

LEMMA FiveMinutesType ==
  ASSUME TagTypeOK, FiveMinutes
  PROVE  TagTypeOK'
BY DEF TagTypeOK, FiveMinutes,
       storageVars, savedVars, preloadVars, bootVars, checkVars, taskVars, pageVars

LEMMA PublishType ==
  ASSUME TagTypeOK, Publish
  PROVE  TagTypeOK'
<1>1. released' \in 1 .. MaxReleased
  BY TagBoundsAssumption DEF TagTypeOK, Publish
<1> QED
  BY <1>1 DEF TagTypeOK, Publish,
     storageVars, savedVars, preloadVars, bootVars, checkVars, taskVars, pageVars

LEMMA CheckType ==
  ASSUME TagTypeOK, NEW h \in Handlers, Check(h)
  PROVE  TagTypeOK'
<1>1. /\ task' = [task EXCEPT ![h] = "look"] /\ goal' = [goal EXCEPT ![h] = released]
      /\ released \in 0 .. MaxReleased
  BY TagBoundsAssumption DEF TagTypeOK, Check, Goes
<1> QED
  BY <1>1 DEF TagTypeOK, Check, Stages,
     storageVars, savedVars, preloadVars, bootVars, checkVars, pageVars

LEMMA UpdateType ==
  ASSUME TagTypeOK, NEW h \in Handlers, Update(h)
  PROVE  TagTypeOK'
<1>1. lastCheck \in 0 .. MaxReleased /\ released \in 0 .. MaxReleased
  BY TagBoundsAssumption DEF TagTypeOK
<1>2. /\ task' \in [Handlers -> Stages]
      /\ goal' \in [Handlers -> 0 .. MaxReleased]
      /\ updating' \in Handlers \cup {Nobody}
      /\ waitsFor' \in [Handlers -> Handlers \cup {Nobody}]
  <2>1. CASE Settles(h, "done")
    BY <1>1, <2>1, SettlesMoves, MovesType
  <2>2. CASE Consider(h, lastCheck)
    BY <1>1, <2>2, ConsiderMoves, MovesType
  <2>3. CASE Goes(h, "check", released) /\ UNCHANGED <<updating, waitsFor>>
    BY <1>1, <2>3 DEF Goes, TagTypeOK, Stages
  <2> QED
    BY <2>1, <2>2, <2>3 DEF Update
<1> QED
  BY <1>2 DEF TagTypeOK, Update, storageVars, savedVars, preloadVars, bootVars, checkVars, pageVars

LEMMA CompareType ==
  ASSUME TagTypeOK, NEW h \in Handlers, Compare(h)
  PROVE  TagTypeOK'
<1>1. lastCheck \in 0 .. MaxReleased /\ recent \in BOOLEAN
  BY DEF TagTypeOK
<1>2. Moves(h, lastCheck)
  <2>1. CASE Settles(h, "done")
    BY <1>1, <2>1, SettlesMoves
  <2>2. CASE WaitOrBegin(h, lastCheck, recent)
    BY <1>1, <2>2, WaitOrBeginMoves
  <2> QED
    BY <2>1, <2>2 DEF Compare
<1>3. /\ task' \in [Handlers -> Stages]
      /\ goal' \in [Handlers -> 0 .. MaxReleased]
      /\ updating' \in Handlers \cup {Nobody}
      /\ waitsFor' \in [Handlers -> Handlers \cup {Nobody}]
  BY <1>1, <1>2, MovesType
<1> QED
  BY <1>3 DEF TagTypeOK, Compare, storageVars, savedVars, preloadVars, bootVars, checkVars, pageVars

LEMMA CheckFailsType ==
  ASSUME TagTypeOK, NEW h \in Handlers, CheckFails(h)
  PROVE  TagTypeOK'
<1>1. /\ UNCHANGED <<updating, waitsFor>>
      /\ task' = [task EXCEPT ![h] = "done"] /\ goal' = [goal EXCEPT ![h] = 0]
      /\ 0 \in 0 .. MaxReleased
  BY TagBoundsAssumption DEF CheckFails, Settles, Goes
<1> QED
  BY <1>1 DEF TagTypeOK, CheckFails, Stages,
     storageVars, savedVars, preloadVars, checkVars, pageVars

LEMMA AnsweredType ==
  ASSUME TagTypeOK, NEW h \in Handlers, Answered(h)
  PROVE  TagTypeOK'
<1>1. /\ lastCheck \in 0 .. MaxReleased /\ released \in 1 .. MaxReleased /\ MaxReleased \in Nat
      /\ goal[h] \in 0 .. MaxReleased /\ overtaken \in BOOLEAN
  BY TagBoundsAssumption DEF TagTypeOK
<1>2. PICK v \in goal[h] .. released :
        /\ lastCheck' = v
        /\ overtaken' = (overtaken \/ v < lastCheck)
        /\ Save(<<Is("release", v)>>)
        /\ CASE task[h] = "check" -> Consider(h, v)
             [] task[h] = "recheck" -> Goes(h, "download", v) /\ UNCHANGED <<updating, waitsFor>>
             [] task[h] = "look" -> Settles(h, "done")
  BY DEF Answered
<1>3. v \in 0 .. MaxReleased /\ v \in Copies
  BY <1>1 DEF Copies, Undefined
<1>4. cache' \in [Items -> Copies] /\ disk' \in [Items -> Copies] /\ {lost', torn'} \subseteq BOOLEAN
  BY <1>2, <1>3, SaveRelease
<1>5. /\ task' \in [Handlers -> Stages]
      /\ goal' \in [Handlers -> 0 .. MaxReleased]
      /\ updating' \in Handlers \cup {Nobody}
      /\ waitsFor' \in [Handlers -> Handlers \cup {Nobody}]
  <2>1. CASE task[h] = "check"
    <3>1. Consider(h, v)
      BY <1>2, <2>1
    <3> QED
      BY <1>3, <3>1, ConsiderMoves, MovesType
  <2>2. CASE task[h] = "recheck"
    <3>1. Goes(h, "download", v) /\ UNCHANGED <<updating, waitsFor>>
      BY <1>2, <2>2
    <3> QED
      BY <1>3, <3>1 DEF Goes, TagTypeOK, Stages
  <2>3. CASE task[h] = "look"
    <3>1. Settles(h, "done")
      BY <1>2, <2>3
    <3> QED
      BY <1>3, <3>1, SettlesMoves, MovesType
  <2> QED
    BY <2>1, <2>2, <2>3 DEF Answered
<1>6. lastCheck' \in 0 .. MaxReleased /\ overtaken' \in BOOLEAN
  BY <1>1, <1>2, <1>3
<1>7. UNCHANGED <<released, loaded, snapshot, overwritten, told, boot, info, loads, crowded, tagMap, have, shown,
                  foreign, misled>>
      /\ recent' = TRUE /\ checked' = TRUE
  BY DEF Answered, preloadVars, bootVars, pageVars
<1> QED
  BY <1>4, <1>5, <1>6, <1>7 DEF TagTypeOK, Copies

LEMMA PreloadType ==
  ASSUME TagTypeOK, Preload
  PROVE  TagTypeOK'
<1>1. cache' \in [Items -> Copies] /\ snapshot' \in [Items -> Copies]
  BY TagBoundsAssumption DEF Preload, TagTypeOK, Copies, NoItems, AllOf, Undefined
<1>2. overwritten' \in BOOLEAN /\ loaded' \in BOOLEAN
  BY DEF Preload, TagTypeOK
<1> QED
  BY <1>1, <1>2 DEF Preload, TagTypeOK, Copies, bootVars, checkVars, taskVars, pageVars

LEMMA OtherWindowType ==
  ASSUME TagTypeOK, NEW v \in 1 .. released, OtherWindow(v)
  PROVE  TagTypeOK'
<1>1. v \in Copies /\ Undefined \in Copies
  BY TagBoundsAssumption DEF TagTypeOK, Copies, Undefined
<1>2. disk' \in [Items -> Copies] /\ cache' \in [Items -> Copies] /\ snapshot' \in [Items -> Copies]
  BY <1>1 DEF OtherWindow, NoItems, AllOf
<1>3. {told', recent', torn', foreign'} \subseteq BOOLEAN
  BY DEF OtherWindow, TagTypeOK
<1> QED
  BY <1>2, <1>3 DEF OtherWindow, TagTypeOK, Copies, bootVars, taskVars

(* The storage that a page finds when it is opened again.                   *)
LEMMA ReopenType ==
  ASSUME TagTypeOK, Reopen
  PROVE  /\ TagTypeOK'
         /\ disk' \in [Items -> Copies]
         /\ \/ disk' = IF loaded THEN disk ELSE snapshot
            \/ \E v \in 1 .. released : disk' = AllOf(v)
<1>1. /\ Start(disk') /\ loads < MaxLoads /\ loads' = loads + 1 /\ released' = released
      /\ task' = [h \in Handlers |-> IF h \in Presses /\ task[h] # "idle" THEN "done" ELSE "idle"]
      /\ {recent', overtaken', torn', told'} \subseteq BOOLEAN
      /\ \/ disk' = IF loaded THEN disk ELSE snapshot
         \/ \E v \in 1 .. released : disk' = AllOf(v)
  BY DEF Reopen, TagTypeOK
<1>2. /\ MaxReleased \in Nat /\ Undefined = -1 /\ Copies = -1 .. MaxReleased
      /\ loads \in 1 .. MaxLoads /\ MaxLoads \in Nat /\ released \in 1 .. MaxReleased
  BY TagBoundsAssumption DEF TagTypeOK, Copies, Undefined
<1>3. disk' \in [Items -> Copies]
  <2>1. CASE disk' = IF loaded THEN disk ELSE snapshot
    BY <2>1 DEF TagTypeOK, Copies
  <2>2. CASE \E v \in 1 .. released : disk' = AllOf(v)
    BY <1>2, <2>2 DEF AllOf
  <2> QED
    BY <1>1, <2>1, <2>2
<1>4. PICK d \in [Items -> Copies] : d = disk'
  BY <1>3
<1>5. /\ \/ loaded' = TRUE /\ cache' = d /\ snapshot' = NoItems
         \/ loaded' = FALSE /\ cache' = NoItems /\ snapshot' = d
      /\ lost' = FALSE /\ overwritten' = FALSE /\ foreign' = FALSE /\ misled' = FALSE
      /\ boot' = "info" /\ info' = Undefined
      /\ tagMap' = NoMap /\ shown' = Undefined
      /\ have' = cache'["databaseSha"] - (IF cache'["databaseSha"] = Undefined THEN 1 ELSE 0)
      /\ lastCheck' = 0 /\ checked' = FALSE /\ crowded' = FALSE
      /\ goal' = [h \in Handlers |-> 0]
      /\ updating' = Nobody /\ waitsFor' = [h \in Handlers |-> Nobody]
  BY <1>1, <1>4 DEF Start
<1>6. cache' \in [Items -> Copies] /\ snapshot' \in [Items -> Copies]
  BY <1>2, <1>5 DEF NoItems, AllOf
<1>7. have' \in Undefined - 1 .. MaxReleased
  <2>1. cache'["databaseSha"] \in Copies
    BY <1>6 DEF Items
  <2> QED
    BY <1>2, <1>5, <2>1
<1>8. tagMap' \in [label : Copies, content : Copies] /\ loads' \in 1 .. MaxLoads
  BY <1>1, <1>2, <1>5 DEF NoMap
<1>9. /\ task' \in [Handlers -> Stages]
      /\ goal' \in [Handlers -> 0 .. MaxReleased] /\ waitsFor' \in [Handlers -> Handlers \cup {Nobody}]
      /\ updating' \in Handlers \cup {Nobody}
  BY <1>1, <1>2, <1>5 DEF Stages
<1>10. {loaded', lost', recent', checked', torn', overwritten', told', foreign', misled', overtaken',
        crowded'} \subseteq BOOLEAN
  BY <1>1, <1>5
<1>11. TagTypeOK'
  BY <1>1, <1>2, <1>3, <1>5, <1>6, <1>7, <1>8, <1>9, <1>10 DEF TagTypeOK, Copies
<1> QED
  BY <1>1, <1>3, <1>11

LEMMA ReadMapType ==
  ASSUME TagTypeOK, ReadMap
  PROVE  TagTypeOK'
<1>1. /\ Undefined = -1 /\ Copies = -1 .. MaxReleased /\ MaxReleased \in Nat
      /\ info \in Copies /\ cache["database"] \in Copies /\ shown \in Copies
  BY TagBoundsAssumption DEF TagTypeOK, Copies, Undefined, Items
<1>2. tagMap' \in [label : Copies, content : Copies]
  <2>1. \/ tagMap' = EmptyMap
        \/ tagMap' = [label |-> info, content |-> cache["database"]]
    BY DEF ReadMap
  <2> QED
    BY <1>1, <2>1 DEF EmptyMap
<1>3. PICK map \in [label : Copies, content : Copies] : map = tagMap'
  BY <1>2
<1>4. Show(map, have, <<>>)
  BY <1>3 DEF ReadMap
<1>5. /\ cache' \in [Items -> Copies] /\ disk' \in [Items -> Copies]
      /\ {lost', torn'} \subseteq BOOLEAN
      /\ shown' \in {shown, map.content} /\ {foreign', misled'} \subseteq BOOLEAN
  BY <1>4, ShowOnly DEF Shows, GoesByStorage, TagTypeOK
<1>6. shown' \in Copies
  BY <1>1, <1>5
<1>7. /\ boot' \in {"rebuild", "up"} /\ info' = Undefined /\ have' = Undefined
      /\ UNCHANGED <<loads, loaded, snapshot, overwritten, told, released, lastCheck, recent, checked,
                     overtaken, task, goal, updating, waitsFor, crowded>>
  BY DEF ReadMap, preloadVars, checkVars, taskVars
<1>8. have' \in Undefined - 1 .. MaxReleased /\ info' \in Copies
  BY <1>1, <1>7
<1> QED
  BY <1>2, <1>5, <1>6, <1>7, <1>8 DEF TagTypeOK, Copies

LEMMA DownloadedType ==
  ASSUME TagTypeOK, NEW h \in Handlers, Downloaded(h)
  PROVE  TagTypeOK'
<1>1. PICK l \in 0 .. MaxReleased : l = goal[h]
  BY DEF TagTypeOK
<1>2. l \in Copies /\ shown \in Copies
  BY TagBoundsAssumption DEF Copies, Undefined, TagTypeOK
<1>3. /\ task[h] = "download" /\ Ended(h)
      /\ tagMap' = [label |-> l, content |-> l]
      /\ \/ Show([label |-> l, content |-> l], cache["databaseSha"], <<Is("databaseInfo", l), Is("database", l)>>)
         \/ Save(<<Is("databaseInfo", l), Is("database", l)>>) /\ UNCHANGED <<shown, foreign, misled>>
      /\ UNCHANGED <<info, loads, loaded, snapshot, overwritten, told, released, lastCheck, recent, checked,
                     overtaken, have>>
  BY <1>1 DEF Downloaded, preloadVars, checkVars
<1>4. cache' \in [Items -> Copies] /\ disk' \in [Items -> Copies] /\ {lost', torn'} \subseteq BOOLEAN
      /\ shown' \in {shown, l} /\ {foreign', misled'} \subseteq BOOLEAN
  <2>1. CASE Save(<<Is("databaseInfo", l), Is("database", l)>>) /\ UNCHANGED <<shown, foreign, misled>>
    BY <1>2, <2>1, SaveBase DEF TagTypeOK
  <2>2. CASE Show([label |-> l, content |-> l], cache["databaseSha"], <<Is("databaseInfo", l), Is("database", l)>>)
    <3>1. PICK old : old = cache["databaseSha"]
      OBVIOUS
    <3>2. Show([label |-> l, content |-> l], old, <<Is("databaseInfo", l), Is("database", l)>>)
      BY <2>2, <3>1
    <3> QED
      BY <1>2, <3>2, ShowDownloaded DEF Shows, GoesByStorage, TagTypeOK
  <2> QED
    BY <1>3, <2>1, <2>2
<1>5. shown' \in Copies /\ tagMap' \in [label : Copies, content : Copies]
  BY <1>2, <1>3, <1>4
<1>6. /\ task' \in [Handlers -> Stages]
      /\ goal' \in [Handlers -> 0 .. MaxReleased]
      /\ updating' \in Handlers \cup {Nobody}
      /\ waitsFor' \in [Handlers -> Handlers \cup {Nobody}]
      /\ crowded' \in BOOLEAN
  BY <1>3, EndedTasks
<1>7. boot' \in {boot, "up"}
  BY <1>3 DEF Ended
<1> QED
  BY <1>3, <1>4, <1>5, <1>6, <1>7 DEF TagTypeOK, Copies

LEMMA DownloadFailsType ==
  ASSUME TagTypeOK, NEW h \in Handlers, DownloadFails(h)
  PROVE  TagTypeOK'
<1>1. /\ task[h] \in {"recheck", "download"} /\ Ended(h)
      /\ Show(tagMap, cache["databaseSha"], <<>>) \/ UNCHANGED <<disk, cache, lost, torn, shown, foreign, misled>>
      /\ UNCHANGED <<info, loads, loaded, snapshot, overwritten, told, released, lastCheck, recent, checked,
                     overtaken, tagMap, have>>
  BY DEF DownloadFails, savedVars, preloadVars, checkVars
<1>2. PICK map \in [label : Copies, content : Copies] : map = tagMap
  BY DEF TagTypeOK, Copies
<1>3. map.content \in Copies /\ shown \in Copies
  BY DEF TagTypeOK, Copies
<1>4. cache' \in [Items -> Copies] /\ disk' \in [Items -> Copies] /\ {lost', torn'} \subseteq BOOLEAN
      /\ shown' \in {shown, map.content} /\ {foreign', misled'} \subseteq BOOLEAN
  <2>1. CASE Show(tagMap, cache["databaseSha"], <<>>)
    <3>1. PICK old : old = cache["databaseSha"]
      OBVIOUS
    <3>2. Show(map, old, <<>>)
      BY <1>2, <2>1, <3>1
    <3> QED
      BY <3>2, ShowOnly DEF Shows, GoesByStorage, TagTypeOK
  <2>2. CASE UNCHANGED <<disk, cache, lost, torn, shown, foreign, misled>>
    BY <2>2 DEF TagTypeOK, Copies
  <2> QED
    BY <1>1, <2>1, <2>2
<1>5. shown' \in Copies
  BY <1>3, <1>4
<1>6. /\ task' \in [Handlers -> Stages]
      /\ goal' \in [Handlers -> 0 .. MaxReleased]
      /\ updating' \in Handlers \cup {Nobody}
      /\ waitsFor' \in [Handlers -> Handlers \cup {Nobody}]
      /\ crowded' \in BOOLEAN
  BY <1>1, EndedTasks
<1>7. boot' \in {boot, "up"}
  BY <1>1 DEF Ended
<1> QED
  BY <1>1, <1>4, <1>5, <1>6, <1>7 DEF TagTypeOK, Copies

LEMMA TagTypeStep ==
  ASSUME TagTypeOK, [TagNext]_tagVars
  PROVE  TagTypeOK'
<1>1. ASSUME NEW h \in Handlers,
             \/ Update(h) \/ Compare(h) \/ Check(h)
             \/ Answered(h) \/ CheckFails(h) \/ Downloaded(h) \/ DownloadFails(h)
      PROVE  TagTypeOK'
  BY <1>1, UpdateType, CompareType, CheckType, AnsweredType, CheckFailsType, DownloadedType, DownloadFailsType
<1>2. ASSUME NEW v \in 1 .. released, OtherWindow(v) PROVE TagTypeOK'
  BY <1>2, OtherWindowType
<1>3. CASE UNCHANGED tagVars
  BY <1>3 DEF TagTypeOK, tagVars, storageVars, savedVars, preloadVars, bootVars, checkVars, taskVars, pageVars
<1> QED
  BY <1>1, <1>2, <1>3, ReadInfoType, ReadMapType, ShowCopyType, ReadReleaseType, PreloadType, ReopenType,
     PublishType, FiveMinutesType DEF TagNext
----------------------------------------------------------------------------
\* No translations change.
SameLabels ==
  /\ tagMap' = tagMap /\ info' = info
  /\ cache'["databaseInfo"] = cache["databaseInfo"]
  /\ snapshot'["databaseInfo"] = snapshot["databaseInfo"]
  /\ disk'["databaseInfo"] = disk["databaseInfo"]

LEMMA CoversSame ==
  ASSUME SameLabels, NEW n
  PROVE  Covers(n)' <=> Covers(n)
BY DEF SameLabels, Covers

LEMMA CoversMore ==
  ASSUME TagTypeOK, NEW m \in Int, NEW n \in Int, m <= n, Covers(m)
  PROVE  Covers(n)
<1>1. /\ tagMap.label \in Int /\ info \in Int /\ cache["databaseInfo"] \in Int
      /\ snapshot["databaseInfo"] \in Int /\ disk["databaseInfo"] \in Int
  BY DEF TagTypeOK, Items, Undefined
<1> QED
  BY <1>1 DEF Covers

\* One handler goes on to what it awaits next, and all tasks are in order.
LEMMA MovesTasks ==
  ASSUME TagTypeOK, TaskInv, SameLabels,
         released' = released, crowded' = crowded,
         NEW seen \in 1 .. MaxReleased, lastCheck' = seen,
         NEW h \in Handlers, Moves(h, seen),
         ~overtaken' => ~overtaken /\ lastCheck <= seen /\ Covers(seen)
  PROVE  TaskInv'
<1>1. PICK where \in {"done", "compare", "wait", "recheck", "download"}, number \in {0, seen, released} :
        /\ task' = [task EXCEPT ![h] = where]
        /\ goal' = [goal EXCEPT ![h] = number]
        /\ where = "download" => number = seen
        /\ where = "recheck" => number = released
        /\ IF where \in {"recheck", "download"}
             THEN updating = Nobody /\ updating' = h
             ELSE updating' = updating
  BY DEF Moves, Goes
<1>2. /\ task \in [Handlers -> Stages]
      /\ goal \in [Handlers -> 0 .. MaxReleased] /\ released \in 1 .. MaxReleased
      /\ lastCheck \in 0 .. MaxReleased /\ MaxReleased \in Nat
  BY TagBoundsAssumption DEF TagTypeOK
<1>3. Nobody \notin Handlers
  BY PressesAssumption DEF Nobody, Handlers
<1>4. ASSUME NEW g \in Handlers PROVE TaskOK(g)'
  <2>1. CASE g = h
    <3>1. task'[g] = where /\ goal'[g] = number
      BY <1>1, <1>2, <2>1
    <3>2. Asked(g)' <=> where = "recheck"
      BY <3>1 DEF Asked
    <3>3. where \in {"recheck", "download"} => updating' = g
      BY <1>1, <2>1
    <3>4. Covers(seen)' <=> Covers(seen)
      BY CoversSame
    <3>5. where = "download" /\ ~overtaken' => goal'[g] = seen /\ Covers(seen)'
      BY <1>1, <3>1, <3>4
    <3>6. Asked(g)' => goal'[g] \in 1 .. released'
      BY <1>1, <1>2, <3>1, <3>2
    <3>7. (task[g] = "download" /\ ~overtaken => Covers(goal[g]))'
      BY <3>1, <3>5 DEF Covers
    <3>8. (task[g] = "download" /\ ~overtaken => goal[g] <= lastCheck)'
      BY <1>2, <3>1, <3>5
    <3> QED
      BY <3>1, <3>2, <3>3, <3>6, <3>7, <3>8 DEF TaskOK
  <2>2. CASE g # h
    <3>1. task'[g] = task[g] /\ goal'[g] = goal[g] /\ TaskOK(g)
      BY <1>1, <1>2, <2>2 DEF TaskInv
    <3>2. Asked(g)' => goal'[g] \in 1 .. released'
      BY <3>1 DEF TaskOK, Asked
    <3>3. (task[g] = "download" /\ ~overtaken => goal[g] <= lastCheck)'
      BY <1>2, <3>1 DEF TaskOK
    <3>4. (task[g] \in {"recheck", "download"} /\ ~crowded => updating = g)'
      BY <1>1, <1>3, <3>1 DEF TaskOK
    <3>5. Covers(goal[g]) => (Covers(goal[g]))'
      BY <3>1 DEF Covers, SameLabels
    <3>6. (task[g] \in {"recheck", "download"} /\ ~crowded =>
            (task[g] = "download" /\ ~overtaken => Covers(goal[g])))'
      BY <3>1, <3>5 DEF TaskOK
    <3> QED
      BY <3>2, <3>3, <3>4, <3>6 DEF TaskOK
  <2> QED
    BY <2>1, <2>2
<1> QED
  BY <1>4 DEF TaskInv
----------------------------------------------------------------------------
(* Steps that leave a part of the state alone leave its invariant alone.    *)
LEMMA SeenSame ==
  ASSUME SeenInv,
         UNCHANGED <<lastCheck, released, overtaken, lost, cache, snapshot, disk, tagMap, info>>
  PROVE  SeenInv'
BY DEF SeenInv, Covers

LEMMA TasksSame ==
  ASSUME TaskInv, SameLabels,
         UNCHANGED <<task, goal, released, overtaken, lastCheck, crowded, updating>>
  PROVE  TaskInv'
BY DEF TaskInv, TaskOK, Asked, Covers, SameLabels

LEMMA StartSame ==
  ASSUME StartInv, task'["rebuild"] = task["rebuild"] \/ ~Starting,
         UNCHANGED <<boot, tagMap, loaded, snapshot, have, cache, info, foreign, torn>>
  PROVE  StartInv'
BY DEF StartInv, Starting

LEMMA PageSame ==
  ASSUME PageInv,
         UNCHANGED <<torn, disk, snapshot, cache, boot, tagMap, overwritten, shown, loaded, foreign, misled>>
  PROVE  PageInv'
BY DEF PageInv, Starting, Whole

(* Each action of this window keeps TagInv.                                 *)
LEMMA ReadInfoKeeps ==
  ASSUME TagInv, ReadInfo
  PROVE  TagInv'
<1> USE DEF storageVars, savedVars, preloadVars, checkVars, taskVars, pageVars
<1>1. TagTypeOK'
  BY ReadInfoType DEF TagInv
<1>2. ASSUME ~told PROVE SeenInv'
  BY <1>2 DEF TagInv, Ordered, SeenInv, Covers, ReadInfo
<1>3. ASSUME ~told PROVE TaskInv'
  <2>1. ASSUME NEW g \in Handlers PROVE TaskOK(g)'
    BY <1>3 DEF TagInv, Ordered, TaskInv, TaskOK, Asked, Covers, ReadInfo
  <2> QED
    BY <2>1 DEF TaskInv
<1>4. StartInv'
  BY DEF TagInv, StartInv, Starting, ReadInfo
<1>5. PageInv'
  BY DEF TagInv, PageInv, Starting, Whole, ReadInfo
<1>6. told' = told
  BY DEF ReadInfo
<1> QED
  BY <1>1, <1>2, <1>3, <1>4, <1>5, <1>6 DEF TagInv, Ordered

LEMMA ShowCopyKeeps ==
  ASSUME TagInv, ShowCopy
  PROVE  TagInv'
<1> USE DEF storageVars, savedVars, preloadVars, bootVars, checkVars, taskVars, pageVars
<1>1. TagTypeOK'
  BY ShowCopyType DEF TagInv
<1>2. ASSUME ~told PROVE SeenInv' /\ TaskInv'
  BY <1>2, SeenSame, TasksSame DEF TagInv, Ordered, ShowCopy, SameLabels
<1>3. foreign' = foreign /\ misled' = (misled \/ foreign) /\ told' = told
  BY DEF ShowCopy, GoesByStorage
<1>4. StartInv'
  BY <1>3, StartSame DEF TagInv, ShowCopy
<1>5. PageInv'
  <2>1. /\ shown' = cache["databaseMap"] /\ shown' # Undefined
        /\ UNCHANGED <<torn, disk, snapshot, cache, boot, tagMap, overwritten, loaded>>
    BY DEF ShowCopy
  <2>2. /\ cache["databaseSha"] \in Int /\ cache["databaseMap"] \in Int /\ tagMap.label \in Int
        /\ {foreign, misled} \subseteq BOOLEAN
    BY DEF TagInv, TagTypeOK, Items, Undefined
  <2>3. ASSUME ~overwritten, ~torn, ~misled'
        PROVE  ~foreign /\ cache["databaseSha"] <= shown' /\ (boot = "up" => tagMap.label <= shown')
    BY <1>3, <2>1, <2>2, <2>3 DEF TagInv, PageInv
  <2> QED
    BY <1>3, <2>1, <2>3 DEF TagInv, PageInv, Starting, Whole
<1> QED
  BY <1>1, <1>2, <1>3, <1>4, <1>5 DEF TagInv, Ordered

LEMMA ReadReleaseKeeps ==
  ASSUME TagInv, ReadRelease
  PROVE  TagInv'
<1> USE DEF storageVars, savedVars, preloadVars, bootVars, checkVars, taskVars, pageVars
<1>1. TagTypeOK'
  BY ReadReleaseType DEF TagInv
<1>2. ASSUME ~told PROVE SeenInv'
  BY <1>2 DEF TagInv, Ordered, SeenInv, Covers, ReadRelease
<1>3. ASSUME ~told PROVE TaskInv'
  <2>1. ASSUME NEW g \in Handlers PROVE TaskOK(g)'
    <3>1. TaskOK(g) /\ lastCheck = 0
      BY <1>3 DEF TagInv, Ordered, TaskInv, ReadRelease
    <3> QED
      BY <3>1 DEF TaskOK, Asked, Covers, ReadRelease
  <2> QED
    BY <2>1 DEF TaskInv
<1>4. StartInv' /\ PageInv' /\ told' = told
  BY StartSame, PageSame DEF TagInv, ReadRelease
<1> QED
  BY <1>1, <1>2, <1>3, <1>4 DEF TagInv, Ordered

LEMMA FiveMinutesKeeps ==
  ASSUME TagInv, FiveMinutes
  PROVE  TagInv'
<1> USE DEF storageVars, savedVars, preloadVars, bootVars, checkVars, taskVars, pageVars
<1>1. TagTypeOK'
  BY FiveMinutesType DEF TagInv
<1>2. ASSUME ~told PROVE SeenInv' /\ TaskInv'
  BY <1>2, SeenSame, TasksSame DEF TagInv, Ordered, FiveMinutes, SameLabels
<1>3. StartInv' /\ PageInv' /\ told' = told
  BY StartSame, PageSame DEF TagInv, FiveMinutes
<1> QED
  BY <1>1, <1>2, <1>3 DEF TagInv, Ordered

LEMMA PublishKeeps ==
  ASSUME TagInv, Publish
  PROVE  TagInv'
<1> USE DEF storageVars, savedVars, preloadVars, bootVars, checkVars, taskVars, pageVars
<1>0. /\ released \in 1 .. MaxReleased /\ released' = released + 1 /\ released' \in 1 .. MaxReleased
      /\ MaxReleased \in Nat
  BY TagBoundsAssumption DEF TagInv, TagTypeOK, Publish
<1>1. TagTypeOK'
  BY PublishType DEF TagInv
<1>2. ASSUME ~told PROVE SeenInv'
  <2>1. /\ tagMap.label \in Int /\ info \in Int /\ cache["databaseInfo"] \in Int
        /\ snapshot["databaseInfo"] \in Int /\ disk["databaseInfo"] \in Int
        /\ cache["release"] \in Int /\ snapshot["release"] \in Int /\ disk["release"] \in Int
        /\ lastCheck \in Int
    BY DEF TagInv, TagTypeOK, Items, Undefined
  <2> QED
    BY <1>0, <1>2, <2>1 DEF TagInv, Ordered, SeenInv, Covers, Publish
<1>3. ASSUME ~told PROVE TaskInv'
  <2>1. ASSUME NEW g \in Handlers PROVE TaskOK(g)'
    <3>1. TaskOK(g)
      BY <1>3 DEF TagInv, Ordered, TaskInv
    <3> QED
      BY <1>0, <3>1 DEF TaskOK, Asked, Covers, Publish
  <2> QED
    BY <2>1 DEF TaskInv
<1>4. StartInv' /\ PageInv' /\ told' = told
  BY StartSame, PageSame DEF TagInv, Publish
<1> QED
  BY <1>1, <1>2, <1>3, <1>4 DEF TagInv, Ordered

LEMMA CheckKeeps ==
  ASSUME TagInv, NEW h \in Handlers, Check(h)
  PROVE  TagInv'
<1> USE DEF storageVars, savedVars, preloadVars, bootVars, checkVars, taskVars, pageVars
<1>0. /\ task' = [task EXCEPT ![h] = "look"] /\ goal' = [goal EXCEPT ![h] = released]
      /\ released \in 1 .. MaxReleased /\ released \in 0 .. MaxReleased /\ told' = told
  BY TagBoundsAssumption DEF TagInv, TagTypeOK, Check, Goes
<1>1. TagTypeOK'
  BY CheckType DEF TagInv
<1>2. ASSUME ~told PROVE SeenInv'
  BY <1>2, SeenSame DEF TagInv, Ordered, Check
<1>3. ASSUME ~told PROVE TaskInv'
  <2>1. ASSUME NEW g \in Handlers PROVE TaskOK(g)'
    <3>1. TaskOK(g)
      BY <1>3 DEF TagInv, Ordered, TaskInv
    <3>2. CASE g = h
      <4>1. task'[g] = "look" /\ goal'[g] = released
        BY <1>0, <3>2 DEF TagInv, TagTypeOK
      <4>2. ~overtaken => Covers(released)
        BY <1>3 DEF TagInv, Ordered, SeenInv
      <4> QED
        BY <1>0, <4>1, <4>2 DEF TaskOK, Asked, Covers, Check
    <3>3. CASE g # h
      <4>1. task'[g] = task[g] /\ goal'[g] = goal[g]
        BY <1>0, <3>3 DEF TagInv, TagTypeOK
      <4> QED
        BY <3>1, <4>1 DEF TaskOK, Asked, Covers, Check
    <3> QED
      BY <3>2, <3>3
  <2> QED
    BY <2>1 DEF TaskInv
<1>4. StartInv'
  <2>1. h # "rebuild"
    BY PressesAssumption DEF Check
  <2>2. task'["rebuild"] = task["rebuild"]
    BY <1>0, <2>1 DEF TagInv, TagTypeOK, Handlers
  <2> QED
    BY <2>2, StartSame DEF TagInv, Check
<1>5. PageInv'
  BY PageSame DEF TagInv, Check
<1> QED
  BY <1>0, <1>1, <1>2, <1>3, <1>4, <1>5 DEF TagInv, Ordered

(* A handler is done, or asks for the latest release.                       *)
LEMMA AsksTasks ==
  ASSUME TagTypeOK, TaskInv, SeenInv, SameLabels, NEW h \in Handlers,
         Goes(h, "done", 0) \/ Goes(h, "check", released),
         UNCHANGED <<released, overtaken, lastCheck, crowded, updating>>
  PROVE  TaskInv'
<1>1. ASSUME NEW g \in Handlers PROVE TaskOK(g)'
  <2>1. TaskOK(g) /\ (~overtaken => Covers(released)) /\ released \in 1 .. MaxReleased
    BY DEF TaskInv, SeenInv, TagTypeOK
  <2>2. CASE g = h
    <3>1. \/ task'[g] = "done"
          \/ task'[g] = "check" /\ goal'[g] = released
      BY <2>2 DEF Goes, TagTypeOK
    <3> QED
      BY <2>1, <3>1 DEF TaskOK, Asked, Covers, SameLabels
  <2>3. CASE g # h
    <3>1. task'[g] = task[g] /\ goal'[g] = goal[g]
      BY <2>3 DEF Goes, TagTypeOK
    <3> QED
      BY <2>1, <3>1 DEF TaskOK, Asked, Covers, SameLabels
  <2> QED
    BY <2>2, <2>3
<1> QED
  BY <1>1 DEF TaskInv

LEMMA UpdateKeeps ==
  ASSUME TagInv, NEW h \in Handlers, Update(h)
  PROVE  TagInv'
<1> USE DEF storageVars, savedVars, preloadVars, bootVars, checkVars, pageVars
<1>1. /\ lastCheck \in 0 .. MaxReleased /\ released \in 0 .. MaxReleased /\ MaxReleased \in Nat
      /\ task \in [Handlers -> Stages]
      /\ goal \in [Handlers -> 0 .. MaxReleased] /\ TagTypeOK /\ (~told => TaskInv /\ SeenInv)
  BY TagBoundsAssumption DEF TagInv, Ordered, TagTypeOK
<1>2. SameLabels /\ UNCHANGED <<released, overtaken, lastCheck, crowded, told>>
  BY DEF Update, SameLabels
<1>3. \/ Settles(h, "done")
      \/ Known /\ Consider(h, lastCheck)
      \/ Goes(h, "check", released) /\ UNCHANGED <<updating, waitsFor>>
  BY DEF Update
<1>4. /\ task' \in [Handlers -> Stages]
      /\ goal' \in [Handlers -> 0 .. MaxReleased]
      /\ updating' \in Handlers \cup {Nobody}
      /\ waitsFor' \in [Handlers -> Handlers \cup {Nobody}]
      /\ ~told => TaskInv'
      /\ \A g \in Handlers \ {h} : task'[g] = task[g]
  <2>1. CASE Settles(h, "done")
    <3>1. task' = [task EXCEPT ![h] = "done"] /\ goal' = [goal EXCEPT ![h] = 0]
          /\ UNCHANGED <<updating, waitsFor>>
      BY <2>1 DEF Settles, Goes
    <3>2. Goes(h, "done", 0)
      BY <2>1 DEF Settles
    <3>3. ~told => TaskInv'
      BY <1>1, <1>2, <3>1, <3>2, AsksTasks
    <3> QED
      BY <1>1, <3>1, <3>3 DEF TagTypeOK, Stages
  <2>2. CASE Known /\ Consider(h, lastCheck)
    <3>1. Moves(h, lastCheck)
      BY <1>1, <2>2, ConsiderMoves
    <3>2. lastCheck \in 1 .. MaxReleased /\ lastCheck' = lastCheck
      BY <1>1, <1>2, <2>2 DEF Known
    <3>3. ASSUME ~told, ~overtaken' PROVE ~overtaken /\ lastCheck <= lastCheck /\ Covers(lastCheck)
      BY <1>1, <1>2, <3>2, <3>3 DEF SeenInv
    <3>4. ~told => TaskInv'
      BY <1>1, <1>2, <3>1, <3>2, <3>3, MovesTasks
    <3> QED
      BY <1>1, <3>1, <3>4, MovesType DEF Moves, Goes
  <2>3. CASE Goes(h, "check", released) /\ UNCHANGED <<updating, waitsFor>>
    <3>1. task' = [task EXCEPT ![h] = "check"] /\ goal' = [goal EXCEPT ![h] = released]
          /\ UNCHANGED <<updating, waitsFor>>
      BY <2>3 DEF Goes
    <3>2. ~told => TaskInv'
      BY <1>1, <1>2, <2>3, AsksTasks
    <3> QED
      BY <1>1, <3>1, <3>2 DEF TagTypeOK, Stages
  <2> QED
    BY <1>3, <2>1, <2>2, <2>3
<1>5. TagTypeOK'
  BY UpdateType DEF TagInv
<1>6. ASSUME ~told PROVE SeenInv'
  BY <1>6, SeenSame DEF TagInv, Ordered, Update
<1>7. StartInv'
  <2>1. CASE h = "rebuild"
    BY <2>1, StartSame DEF TagInv, Update, Starting
  <2>2. CASE h # "rebuild"
    <3>1. task'["rebuild"] = task["rebuild"]
      BY <1>4, <2>2 DEF Handlers
    <3> QED
      BY <3>1, StartSame DEF TagInv, Update
  <2> QED
    BY <2>1, <2>2
<1>8. PageInv'
  BY PageSame DEF TagInv, Update
<1> QED
  BY <1>2, <1>4, <1>5, <1>6, <1>7, <1>8 DEF TagInv, Ordered

LEMMA CompareKeeps ==
  ASSUME TagInv, NEW h \in Handlers, Compare(h)
  PROVE  TagInv'
<1> USE DEF storageVars, savedVars, preloadVars, bootVars, checkVars, pageVars
<1>1. /\ lastCheck \in 0 .. MaxReleased /\ MaxReleased \in Nat /\ recent \in BOOLEAN
      /\ task \in [Handlers -> Stages]
      /\ TagTypeOK /\ StartInv /\ PageInv /\ (~told => TaskInv /\ SeenInv)
  BY TagBoundsAssumption DEF TagInv, Ordered, TagTypeOK
<1>2. SameLabels /\ UNCHANGED <<released, overtaken, lastCheck, crowded, told>>
  BY DEF Compare, SameLabels
<1>3. ~told => lastCheck \in 1 .. MaxReleased
  BY <1>1 DEF TaskInv, TaskOK, Compare
<1>4. Moves(h, lastCheck)
  <2>1. CASE Settles(h, "done")
    BY <1>1, <2>1, SettlesMoves
  <2>2. CASE WaitOrBegin(h, lastCheck, recent)
    BY <1>1, <2>2, WaitOrBeginMoves
  <2> QED
    BY <2>1, <2>2 DEF Compare
<1>5. /\ task' \in [Handlers -> Stages]
      /\ goal' \in [Handlers -> 0 .. MaxReleased]
      /\ updating' \in Handlers \cup {Nobody}
      /\ waitsFor' \in [Handlers -> Handlers \cup {Nobody}]
  BY <1>1, <1>4, MovesType
<1>6. ASSUME ~told PROVE TaskInv'
  <2>1. ~overtaken' => ~overtaken /\ lastCheck <= lastCheck /\ Covers(lastCheck)
    BY <1>1, <1>2, <1>3, <1>6 DEF SeenInv
  <2> QED
    BY <1>1, <1>2, <1>3, <1>4, <1>6, <2>1, MovesTasks
<1>7. TagTypeOK'
  BY CompareType DEF TagInv
<1>8. ASSUME ~told PROVE SeenInv'
  BY <1>1, <1>8, SeenSame DEF Compare
<1>9. StartInv'
  BY <1>1, StartSame DEF Compare, StartInv
<1>10. PageInv'
  BY <1>1, PageSame DEF Compare
<1> QED
  BY <1>2, <1>6, <1>7, <1>8, <1>9, <1>10 DEF TagInv, Ordered

LEMMA CheckFailsKeeps ==
  ASSUME TagInv, NEW h \in Handlers, CheckFails(h)
  PROVE  TagInv'
<1> USE DEF storageVars, savedVars, preloadVars, checkVars, pageVars
<1>1. /\ task \in [Handlers -> Stages]
      /\ goal \in [Handlers -> 0 .. MaxReleased] /\ MaxReleased \in Nat
      /\ TagTypeOK /\ StartInv /\ PageInv /\ (~told => TaskInv /\ SeenInv)
  BY TagBoundsAssumption DEF TagInv, Ordered, TagTypeOK
<1>2. /\ SameLabels /\ UNCHANGED <<released, overtaken, lastCheck, crowded, told>>
      /\ Goes(h, "done", 0) /\ UNCHANGED <<updating, waitsFor>>
      /\ task' = [task EXCEPT ![h] = "done"] /\ goal' = [goal EXCEPT ![h] = 0]
      /\ boot' = IF h = "rebuild" THEN "failed" ELSE boot
  BY DEF CheckFails, SameLabels, Settles, Goes
<1>3. TagTypeOK'
  BY CheckFailsType DEF TagInv
<1>4. ASSUME ~told PROVE SeenInv'
  BY <1>1, <1>4, SeenSame DEF CheckFails
<1>5. ASSUME ~told PROVE TaskInv'
  BY <1>1, <1>2, <1>5, AsksTasks
<1>6. StartInv' /\ PageInv'
  <2>1. CASE h = "rebuild"
    <3>1. ~Starting /\ ~Starting'
      BY <1>1, <1>2, <2>1 DEF StartInv, CheckFails, Starting
    <3>2. StartInv'
      BY <1>1, <3>1 DEF StartInv, CheckFails
    <3>3. PageInv'
      BY <1>1, <1>2, <2>1, <3>1 DEF PageInv, Whole, CheckFails
    <3> QED
      BY <3>2, <3>3
  <2>2. CASE h # "rebuild"
    <3>1. task'["rebuild"] = task["rebuild"]
      BY <1>1, <1>2, <2>2 DEF Handlers
    <3>2. UNCHANGED <<boot, tagMap, loaded, snapshot, have, cache, info, foreign, torn>>
      BY <1>2, <2>2 DEF CheckFails
    <3>3. StartInv'
      BY <1>1, <3>1, <3>2, StartSame
    <3>4. PageInv'
      BY <1>1, <3>2, PageSame DEF CheckFails
    <3> QED
      BY <3>3, <3>4
  <2> QED
    BY <2>1, <2>2
<1> QED
  BY <1>2, <1>3, <1>4, <1>5, <1>6 DEF TagInv, Ordered

LEMMA AnsweredKeeps ==
  ASSUME TagInv, NEW h \in Handlers, Answered(h)
  PROVE  TagInv'
<1> USE DEF preloadVars, bootVars, pageVars
<1>0. /\ lastCheck \in 0 .. MaxReleased /\ released \in 1 .. MaxReleased /\ MaxReleased \in Nat
      /\ task \in [Handlers -> Stages]
      /\ goal \in [Handlers -> 0 .. MaxReleased] /\ overtaken \in BOOLEAN
      /\ TagTypeOK /\ StartInv /\ PageInv /\ (~told => TaskInv /\ SeenInv)
  BY TagBoundsAssumption DEF TagInv, Ordered, TagTypeOK
<1>1. PICK v \in goal[h] .. released :
        /\ lastCheck' = v
        /\ overtaken' = (overtaken \/ v < lastCheck)
        /\ Save(<<Is("release", v)>>)
        /\ CASE task[h] = "check" -> Consider(h, v)
             [] task[h] = "recheck" -> Goes(h, "download", v) /\ UNCHANGED <<updating, waitsFor>>
             [] task[h] = "look" -> Settles(h, "done")
  BY DEF Answered
<1>2. UNCHANGED <<released, loaded, snapshot, overwritten, told, boot, info, loads, crowded, tagMap, have, shown,
                  foreign, misled>>
      /\ recent' = TRUE /\ checked' = TRUE
  BY DEF Answered
<1>3. Asked(h) /\ (~told => goal[h] \in 1 .. released)
  BY <1>0 DEF Answered, Asked, TaskInv, TaskOK
<1>4. /\ v \in 0 .. MaxReleased /\ v \in Copies /\ goal[h] <= v
      /\ ~told => v \in 1 .. MaxReleased /\ v \in 1 .. released
  BY <1>0, <1>3 DEF Copies, Undefined
<1>5. /\ cache' \in [Items -> Copies] /\ disk' \in [Items -> Copies]
      /\ {lost', torn'} \subseteq BOOLEAN /\ (lost => lost') /\ (torn => torn')
      /\ cache'["release"] = v
      /\ disk'["release"] = v \/ (disk'["release"] = disk["release"] /\ lost')
      /\ lost => disk'["release"] = disk["release"]
      /\ \A i \in Items \ {"release"} : cache'[i] = cache[i] /\ disk'[i] = disk[i]
  BY <1>0, <1>1, <1>4, SaveRelease
<1>6. /\ cache'["databaseInfo"] = cache["databaseInfo"] /\ disk'["databaseInfo"] = disk["databaseInfo"]
      /\ cache'["database"] = cache["database"] /\ disk'["database"] = disk["database"]
      /\ cache'["databaseMap"] = cache["databaseMap"] /\ disk'["databaseMap"] = disk["databaseMap"]
      /\ cache'["databaseSha"] = cache["databaseSha"] /\ disk'["databaseSha"] = disk["databaseSha"]
  BY <1>5 DEF Items
<1>7. SameLabels
  BY <1>2, <1>6 DEF SameLabels
<1>8. ASSUME ~told PROVE ~overtaken' => ~overtaken /\ lastCheck <= v /\ Covers(v)
  <2>1. SUFFICES ASSUME ~overtaken' PROVE ~overtaken /\ lastCheck <= v /\ Covers(v)
    OBVIOUS
  <2>2. ~overtaken /\ lastCheck <= v
    <3>1. ~overtaken /\ ~(v < lastCheck)
      BY <1>1, <2>1
    <3>2. v \in Int /\ lastCheck \in Int
      BY <1>0, <1>4
    <3> QED
      BY <3>1, <3>2
  <2>3. CASE lastCheck = 0
    <3>1. Covers(goal[h])
      BY <1>0, <1>3, <1>8, <2>2, <2>3 DEF TaskInv, TaskOK
    <3> QED
      BY <1>0, <1>4, <2>2, <3>1, CoversMore
  <2>4. CASE lastCheck # 0
    <3>1. Covers(lastCheck)
      BY <1>0, <1>8, <2>2, <2>4 DEF SeenInv
    <3> QED
      BY <1>0, <1>4, <2>2, <3>1, CoversMore
  <2> QED
    BY <2>2, <2>3, <2>4
<1>9. Moves(h, v) \/ (task[h] = "recheck" /\ Goes(h, "download", v) /\ UNCHANGED <<updating, waitsFor>>)
  <2>1. CASE task[h] = "check"
    <3>1. Consider(h, v)
      BY <1>1, <2>1
    <3> QED
      BY <1>0, <3>1, ConsiderMoves
  <2>2. CASE task[h] = "recheck"
    BY <1>1, <2>2
  <2>3. CASE task[h] = "look"
    <3>1. Settles(h, "done")
      BY <1>1, <2>3
    <3> QED
      BY <1>0, <3>1, SettlesMoves
  <2> QED
    BY <1>3, <2>1, <2>2, <2>3 DEF Asked
<1>10. /\ task' \in [Handlers -> Stages]
       /\ goal' \in [Handlers -> 0 .. MaxReleased]
       /\ updating' \in Handlers \cup {Nobody}
       /\ waitsFor' \in [Handlers -> Handlers \cup {Nobody}]
       /\ \A g \in Handlers \ {h} : task'[g] = task[g] /\ goal'[g] = goal[g]
  <2>1. CASE Moves(h, v)
    BY <1>0, <1>4, <2>1, MovesType DEF Moves, Goes
  <2>2. CASE Goes(h, "download", v) /\ UNCHANGED <<updating, waitsFor>>
    BY <1>0, <1>4, <2>2 DEF Goes, TagTypeOK, Stages
  <2> QED
    BY <1>9, <2>1, <2>2
<1>11. ASSUME ~told PROVE TaskInv'
  <2>1. CASE Moves(h, v)
    BY <1>0, <1>1, <1>2, <1>4, <1>7, <1>8, <1>11, <2>1, MovesTasks
  <2>2. CASE task[h] = "recheck" /\ Goes(h, "download", v) /\ UNCHANGED <<updating, waitsFor>>
    <3>1. ASSUME NEW g \in Handlers PROVE TaskOK(g)'
      <4>1. TaskOK(g) /\ (Covers(v) => (Covers(v))')
        BY <1>0, <1>7, <1>11, CoversSame DEF TaskInv
      <4>2. CASE g = h
        <5>1. task'[g] = "download" /\ goal'[g] = v
          BY <1>0, <2>2, <4>2 DEF Goes
        <5>2. ~overtaken' => Covers(goal[g])'
          BY <1>8, <1>11, <4>1, <5>1 DEF Covers
        <5>3. ~crowded => updating' = g
          BY <2>2, <4>1, <4>2 DEF TaskOK
        <5> QED
          BY <1>1, <1>2, <1>4, <1>11, <5>1, <5>2, <5>3 DEF TaskOK, Asked
      <4>3. CASE g # h
        <5>1. task'[g] = task[g] /\ goal'[g] = goal[g] /\ goal[g] \in Nat
          BY <1>0, <1>10, <4>3
        <5>2. Covers(goal[g]) => (Covers(goal[g]))'
          BY <1>7, <5>1 DEF Covers, SameLabels
        <5>3. (Asked(g) => goal[g] \in 1 .. released /\ (~overtaken /\ lastCheck = 0 => Covers(goal[g])))'
          BY <1>1, <1>2, <1>4, <1>11, <4>1, <5>1 DEF TaskOK, Asked
        <5>4. (task[g] = "download" /\ ~overtaken => goal[g] <= lastCheck)'
          BY <1>0, <1>1, <1>4, <1>8, <1>11, <4>1, <5>1 DEF TaskOK
        <5>5. (task[g] \in {"recheck", "download"} /\ ~crowded =>
                 updating = g /\ (task[g] = "download" /\ ~overtaken => Covers(goal[g])))'
          BY <1>2, <1>8, <1>11, <2>2, <4>1, <5>1, <5>2 DEF TaskOK
        <5> QED
          BY <1>1, <1>4, <1>11, <5>3, <5>4, <5>5 DEF TaskOK
      <4> QED
        BY <4>2, <4>3
    <3> QED
      BY <3>1 DEF TaskInv
  <2> QED
    BY <1>9, <2>1, <2>2
<1>12. TagTypeOK'
  BY AnsweredType DEF TagInv
<1>13. ASSUME ~told PROVE SeenInv'
  <2>1. /\ cache["databaseInfo"] \in Int /\ snapshot["databaseInfo"] \in Int /\ disk["databaseInfo"] \in Int
        /\ tagMap.label \in Int /\ info \in Int /\ disk["release"] \in Int /\ snapshot["release"] \in Int
    BY <1>0 DEF TagTypeOK, Items, Undefined
  <2>2. /\ lastCheck' <= released' /\ cache'["release"] <= released'
        /\ snapshot'["release"] <= released' /\ disk'["release"] <= released'
    BY <1>0, <1>1, <1>2, <1>4, <1>5, <1>13 DEF SeenInv
  <2>3. ASSUME ~overtaken'
        PROVE  /\ Covers(released)'
               /\ lastCheck' # 0 /\ Covers(lastCheck)' /\ (~lost' => disk'["release"] = lastCheck')
               /\ disk'["databaseInfo"] <= disk'["release"]
               /\ snapshot'["databaseInfo"] <= snapshot'["release"]
    <3>1. ~overtaken /\ Covers(v) /\ Covers(released)
      BY <1>0, <1>8, <1>13, <2>3 DEF SeenInv
    <3>2. Covers(released)' /\ Covers(lastCheck)'
      BY <1>1, <1>2, <1>6, <3>1 DEF Covers
    <3>3. disk'["databaseInfo"] <= disk'["release"]
      BY <1>0, <1>5, <1>6, <1>13, <3>1 DEF Covers, SeenInv
    <3> QED
      BY <1>0, <1>1, <1>2, <1>4, <1>5, <1>13, <3>1, <3>2, <3>3 DEF SeenInv
  <2> QED
    BY <2>2, <2>3 DEF SeenInv
<1>14. StartInv'
  <2>1. Starting => h # "rebuild"
    BY <1>0, <1>3 DEF StartInv, Asked
  <2>2. Starting => task'["rebuild"] = "idle"
    BY <1>0, <1>10, <2>1 DEF StartInv, Handlers
  <2>3. Starting' <=> Starting
    BY <1>2 DEF Starting
  <2> QED
    BY <1>0, <1>2, <1>5, <1>6, <2>2, <2>3 DEF StartInv
<1>15. PageInv'
  <2>1. Starting' <=> Starting
    BY <1>2 DEF Starting
  <2> QED
    BY <1>0, <1>2, <1>5, <1>6, <2>1 DEF PageInv, Whole
<1> QED
  BY <1>2, <1>11, <1>12, <1>13, <1>14, <1>15 DEF TagInv, Ordered

LEMMA PreloadKeeps ==
  ASSUME TagInv, Preload
  PROVE  TagInv'
<1> USE DEF bootVars, checkVars, taskVars, pageVars
<1>0. TagTypeOK /\ StartInv /\ PageInv /\ (~told => TaskInv /\ SeenInv)
  BY DEF TagInv, Ordered
<1>1. /\ ~loaded /\ loaded' = TRUE /\ snapshot' = NoItems
      /\ cache' = [i \in Items |-> IF snapshot[i] # Undefined THEN snapshot[i] ELSE cache[i]]
      /\ overwritten' = (overwritten \/ \E i \in Items : cache[i] \notin {Undefined, cache'[i]})
      /\ UNCHANGED <<disk, lost, torn, told, foreign, misled, boot, info, loads, released, lastCheck, recent, checked,
                     overtaken, task, goal, updating, waitsFor, crowded, tagMap, have, shown>>
  BY DEF Preload
<1>2. /\ cache \in [Items -> Copies] /\ snapshot \in [Items -> Copies] /\ disk \in [Items -> Copies]
      /\ cache' \in [Items -> Copies] /\ snapshot' \in [Items -> Copies]
  BY <1>0, <1>1, TagBoundsAssumption DEF TagTypeOK, Copies, NoItems, AllOf, Undefined
<1>3. \A i \in Items : /\ snapshot'[i] = Undefined
                       /\ cache'[i] = IF snapshot[i] # Undefined THEN snapshot[i] ELSE cache[i]
                       /\ ~overwritten' => cache[i] = Undefined \/ cache'[i] = cache[i]
                       /\ cache[i] \in Int /\ snapshot[i] \in Int /\ disk[i] \in Int
                       /\ cache[i] >= -1 /\ snapshot[i] >= -1
  <2>1. ASSUME NEW i \in Items, ~overwritten' PROVE cache[i] = Undefined \/ cache'[i] = cache[i]
    BY <1>1, <2>1
  <2>2. \A i \in Items : cache[i] \in Copies /\ snapshot[i] \in Copies /\ disk[i] \in Copies
    BY <1>2
  <2>3. \A n \in Copies : n \in Int /\ n >= -1
    BY TagBoundsAssumption DEF Copies, Undefined
  <2> QED
    BY <1>1, <2>1, <2>2, <2>3 DEF NoItems, AllOf
<1>4. Items = {"databaseInfo", "database", "release", "databaseMap", "databaseSha"}
  BY DEF Items
<1>5. /\ released \in Int /\ released >= 1 /\ lastCheck \in Int /\ tagMap.label \in Int /\ info \in Int
      /\ goal \in [Handlers -> Int] /\ lastCheck >= 0
      /\ tagMap.content \in Int /\ shown \in Int
  BY <1>0 DEF TagTypeOK, Undefined
<1>6. ASSUME NEW n \in Int, n >= -1, Covers(n) PROVE Covers(n)'
  BY <1>1, <1>3, <1>4, <1>6 DEF Covers, Undefined
<1>7. TagTypeOK'
  BY PreloadType DEF TagInv
<1>8. ASSUME ~told PROVE SeenInv'
  <2>1. /\ lastCheck' <= released' /\ cache'["release"] <= released'
        /\ snapshot'["release"] <= released' /\ disk'["release"] <= released'
    BY <1>0, <1>1, <1>3, <1>4, <1>5, <1>8 DEF SeenInv, Undefined
  <2>2. ASSUME ~overtaken'
        PROVE  /\ Covers(released)'
               /\ lastCheck' # 0 => Covers(lastCheck)' /\ (~lost' => disk'["release"] = lastCheck')
               /\ disk'["databaseInfo"] <= disk'["release"]
               /\ snapshot'["databaseInfo"] <= snapshot'["release"]
    <3>1. Covers(released) /\ (lastCheck # 0 => Covers(lastCheck))
      BY <1>0, <1>1, <1>8, <2>2 DEF SeenInv
    <3>2. /\ Covers(released) => Covers(released)'
          /\ Covers(lastCheck) => Covers(lastCheck)'
      BY <1>1, <1>5, <1>6 DEF Covers
    <3> QED
      BY <1>0, <1>1, <1>3, <1>4, <1>8, <2>2, <3>1, <3>2 DEF SeenInv, Undefined
  <2>3. ASSUME ~overtaken', lastCheck' = 0, cache'["release"] # Undefined
        PROVE  Covers(cache["release"])' /\ cache'["release"] = disk'["release"]
    <3> DEFINE c == cache'["release"]
    <3>1. c = disk["release"] /\ Covers(c)
      BY <1>0, <1>1, <1>3, <1>4, <1>8, <2>3 DEF SeenInv
    <3>2. c \in Int /\ c >= -1
      BY <1>3, <1>4
    <3> HIDE DEF c
    <3>3. Covers(c) => /\ tagMap'.label <= c /\ info' <= c
                       /\ cache'["databaseInfo"] <= c /\ snapshot'["databaseInfo"] <= c
                       /\ disk'["databaseInfo"] <= c
      BY <1>1, <1>3, <1>4, <3>2 DEF Covers, Undefined
    <3> QED
      BY <1>1, <3>1, <3>3 DEF Covers, c
  <2> QED
    BY <1>3, <1>4, <2>1, <2>2, <2>3 DEF SeenInv
<1>9. ASSUME ~told PROVE TaskInv'
  <2>1. ASSUME NEW g \in Handlers PROVE TaskOK(g)'
    <3>1. TaskOK(g) /\ goal[g] \in Int /\ goal'[g] = goal[g] /\ goal[g] >= 0
      BY <1>0, <1>1, <1>9 DEF TaskInv, TagTypeOK
    <3>2. Covers(goal[g]) => Covers(goal[g])'
      BY <1>1, <1>3, <1>4, <3>1 DEF Covers, Undefined
    <3> QED
      BY <1>1, <3>1, <3>2 DEF TaskOK, Asked
  <2> QED
    BY <2>1 DEF TaskInv
<1>10. StartInv'
  BY <1>0, <1>1, <1>3, <1>4 DEF StartInv, Starting, Undefined
<1>11. PageInv'
  <2>1. Starting' <=> Starting
    BY <1>1 DEF Starting
  <2>2. Whole(disk)' <=> Whole(disk)
    BY <1>1 DEF Whole
  <2>3. Whole(snapshot)'
    BY <1>3, <1>4 DEF Whole, Undefined
  <2>4. ASSUME ~torn, Starting PROVE Whole(cache)'
    <3>1. \A i \in Items \ {"release"} : cache[i] \in {Undefined, snapshot[i]}
      BY <1>0, <1>1, <2>4 DEF StartInv
    <3>2. \A i \in Items \ {"release"} : cache'[i] = snapshot[i]
      BY <1>3, <1>4, <3>1
    <3> QED
      BY <1>0, <1>4, <2>4, <3>2 DEF PageInv, Whole
  <2>5. ASSUME ~overwritten' PROVE ~overwritten
    BY <1>1, <2>5
  <2>6. /\ (cache["databaseSha"] = Undefined) = (cache["databaseMap"] = Undefined)
        /\ cache["databaseMap"] = Undefined => shown = Undefined
        /\ "databaseSha" \in Items /\ "databaseMap" \in Items
    BY <1>0, <1>1, <1>4 DEF PageInv
  <2>7. ASSUME ~torn, ~overwritten' PROVE cache'["databaseSha"] <= cache'["databaseMap"]
    <3>1. /\ cache["databaseSha"] <= cache["databaseMap"] /\ snapshot["databaseSha"] <= snapshot["databaseMap"]
      BY <1>0, <2>5, <2>7 DEF PageInv, Whole
    <3>2. CASE cache["databaseSha"] = Undefined
      BY <1>3, <2>6, <3>1, <3>2 DEF Undefined
    <3>3. CASE cache["databaseSha"] # Undefined
      BY <1>3, <2>6, <2>7, <3>1, <3>3
    <3> QED
      BY <3>2, <3>3
  <2>8. ASSUME ~overwritten', shown # Undefined \/ boot = "up"
        PROVE  cache'["databaseSha"] = cache["databaseSha"] \/ foreign
    <3>1. cache["databaseSha"] # Undefined \/ foreign
      BY <1>0, <2>5, <2>6, <2>8 DEF PageInv, StartInv, Starting
    <3> QED
      BY <1>3, <2>6, <2>8, <3>1
  <2> QED
    BY <1>0, <1>1, <2>1, <2>2, <2>3, <2>4, <2>5, <2>7, <2>8 DEF PageInv
<1> QED
  BY <1>1, <1>7, <1>8, <1>9, <1>10, <1>11 DEF TagInv, Ordered

(* A page that starts from storage d.                                       *)
LEMMA StartsInOrder ==
  ASSUME NEW d \in [Items -> Copies], disk' = d,
         \/ loaded' = TRUE /\ cache' = d /\ snapshot' = NoItems
         \/ loaded' = FALSE /\ cache' = NoItems /\ snapshot' = d,
         boot' = "info", info' = Undefined, tagMap' = NoMap, shown' = Undefined,
         foreign' = FALSE, have' = cache'["databaseSha"] - (IF cache'["databaseSha"] = Undefined THEN 1 ELSE 0),
         lastCheck' = 0, released' \in 1 .. MaxReleased,
         task' \in [Handlers -> {"idle", "done"}], task'["rebuild"] = "idle",
         ~told' => d["release"] <= released' /\ (~overtaken' => d["databaseInfo"] <= d["release"]),
         ~torn' => Whole(d)
  PROVE  StartInv' /\ PageInv' /\ (told' \/ Ordered')
<1>1. /\ \A i \in Items : /\ NoItems[i] = Undefined
                          /\ d[i] \in Int /\ d[i] >= -1
                          /\ cache'[i] \in {d[i], Undefined} /\ snapshot'[i] \in {d[i], Undefined}
      /\ Items = {"databaseInfo", "database", "release", "databaseMap", "databaseSha"}
      /\ NoMap.label = -1 /\ NoMap.content = -1 /\ Undefined = -1 /\ released' \in Int /\ released' >= 1
  BY TagBoundsAssumption DEF Items, Copies, NoItems, AllOf, NoMap, Undefined
<1>2. ASSUME ~told' PROVE SeenInv'
  <2>1. cache'["release"] <= released' /\ snapshot'["release"] <= released' /\ disk'["release"] <= released'
    BY <1>1, <1>2
  <2>2. ASSUME ~overtaken'
        PROVE  /\ Covers(released)'
               /\ cache'["release"] # Undefined =>
                    Covers(cache["release"])' /\ cache'["release"] = disk'["release"]
               /\ snapshot'["release"] # Undefined =>
                    Covers(snapshot["release"])' /\ snapshot'["release"] = disk'["release"]
               /\ disk'["databaseInfo"] <= disk'["release"]
               /\ snapshot'["databaseInfo"] <= snapshot'["release"]
    <3>1. /\ d["databaseInfo"] <= d["release"] /\ d["databaseInfo"] <= released'
          /\ cache'["databaseInfo"] <= d["databaseInfo"] /\ snapshot'["databaseInfo"] <= d["databaseInfo"]
          /\ d["databaseInfo"] \in Int /\ d["release"] \in Int
          /\ cache'["databaseInfo"] \in Int /\ snapshot'["databaseInfo"] \in Int
          /\ d["databaseInfo"] >= -1
      BY <1>1, <1>2, <2>2
    <3>2. Covers(released)'
      BY <1>1, <3>1 DEF Covers
    <3>3. cache'["release"] # Undefined => Covers(cache["release"])' /\ cache'["release"] = disk'["release"]
      BY <1>1, <3>1 DEF Covers
    <3>4. snapshot'["release"] # Undefined => Covers(snapshot["release"])' /\ snapshot'["release"] = disk'["release"]
      BY <1>1, <3>1 DEF Covers
    <3>5. snapshot'["databaseInfo"] <= snapshot'["release"]
      BY <1>1, <3>1
    <3> QED
      BY <3>1, <3>2, <3>3, <3>4, <3>5
  <2> QED
    BY <1>1, <2>1, <2>2 DEF SeenInv
<1>3. TaskInv'
  <2>1. ASSUME NEW g \in Handlers PROVE TaskOK(g)'
    <3>1. task'[g] \in {"idle", "done"}
      OBVIOUS
    <3> QED
      BY <3>1 DEF TaskOK, Asked
  <2> QED
    BY <2>1 DEF TaskInv
<1>4. StartInv'
  <2>1. have' = Undefined - 1 \/ (have' = cache'["databaseSha"] /\ have' # Undefined)
    BY <1>1
  <2> QED
    BY <1>1, <2>1 DEF StartInv, Starting
<1>5. PageInv'
  <2>1. ~torn' => Whole(cache)' /\ Whole(snapshot)' /\ Whole(disk)'
    BY <1>1 DEF Whole
  <2> QED
    BY <1>1, <2>1 DEF PageInv, Starting, Whole
<1> QED
  BY <1>2, <1>3, <1>4, <1>5 DEF Ordered

LEMMA ReopenKeeps ==
  ASSUME TagInv, Reopen
  PROVE  TagInv'
<1>1. /\ TagTypeOK'
      /\ disk' \in [Items -> Copies]
      /\ \/ disk' = (IF loaded THEN disk ELSE snapshot) /\ UNCHANGED <<overtaken, torn, told>>
         \/ \E v \in 1 .. released : disk' = AllOf(v)
  <2>1. \/ disk' = (IF loaded THEN disk ELSE snapshot) /\ UNCHANGED <<overtaken, torn, told>>
        \/ \E v \in 1 .. released : disk' = AllOf(v)
    BY DEF Reopen
  <2> QED
    BY <2>1, ReopenType DEF TagInv
<1>2. PICK d \in [Items -> Copies] : d = disk'
  BY <1>1
<1>3. /\ Start(d) /\ released' = released
      /\ task' = [h \in Handlers |-> IF h \in Presses /\ task[h] # "idle" THEN "done" ELSE "idle"]
  BY <1>2 DEF Reopen
<1>4. /\ ~told' => d["release"] <= released /\ (~overtaken' => d["databaseInfo"] <= d["release"])
      /\ ~torn' => Whole(d)
  <2>1. CASE d = (IF loaded THEN disk ELSE snapshot) /\ UNCHANGED <<overtaken, torn, told>>
    <3>1. PageInv /\ (~told => SeenInv)
      BY DEF TagInv, Ordered
    <3> QED
      BY <2>1, <3>1 DEF SeenInv, PageInv, Whole
  <2>2. ASSUME NEW v \in 1 .. released, d = AllOf(v)
        PROVE  d["release"] <= released /\ d["databaseInfo"] <= d["release"] /\ Whole(d)
    <3>1. v \in Int /\ v <= released /\ \A i \in Items : d[i] = v
      BY <2>2 DEF AllOf, TagInv, TagTypeOK
    <3> QED
      BY <3>1 DEF Items, Whole
  <2> QED
    BY <1>1, <1>2, <2>1, <2>2
<1>5. /\ task' \in [Handlers -> {"idle", "done"}] /\ task'["rebuild"] = "idle"
  BY <1>3, PressesAssumption DEF Handlers
<1>6. /\ \/ loaded' = TRUE /\ cache' = d /\ snapshot' = NoItems
         \/ loaded' = FALSE /\ cache' = NoItems /\ snapshot' = d
      /\ boot' = "info" /\ info' = Undefined /\ foreign' = FALSE
      /\ tagMap' = NoMap /\ shown' = Undefined
      /\ have' = cache'["databaseSha"] - (IF cache'["databaseSha"] = Undefined THEN 1 ELSE 0)
      /\ lastCheck' = 0
  BY <1>3 DEF Start
<1>7. released' \in 1 .. MaxReleased /\ released' = released
  BY <1>3 DEF TagInv, TagTypeOK
<1>8. StartInv' /\ PageInv' /\ (told' \/ Ordered')
  BY <1>2, <1>4, <1>5, <1>6, <1>7, StartsInOrder
<1> QED
  BY <1>1, <1>8 DEF TagInv

(* Another window puts a release: what it changes is whole, and what this   *)
(* page knows of storage is no longer relied on.                            *)
LEMMA OtherWindowKeeps ==
  ASSUME TagInv, NEW v \in 1 .. released, OtherWindow(v)
  PROVE  TagInv'
<1>1. TagTypeOK'
  BY OtherWindowType DEF TagInv
<1>2. v \in Int /\ v >= 1 /\ \A i \in Items : AllOf(v)[i] = v /\ NoItems[i] = Undefined
  BY DEF TagInv, TagTypeOK, AllOf, NoItems
<1>3. /\ disk' = AllOf(v) /\ cache' = AllOf(v)
      /\ snapshot' = IF loaded THEN NoItems ELSE AllOf(v)
      /\ told' = TRUE /\ foreign' = TRUE
      /\ torn' = (torn \/ (boot = "map" /\ info \notin {Undefined, v}))
      /\ UNCHANGED <<loaded, overwritten, boot, info, task, tagMap, have, shown, misled>>
  BY DEF OtherWindow, bootVars, taskVars
<1>4. StartInv /\ PageInv
  BY DEF TagInv
<1>5. Starting /\ boot # "map" => info = Undefined
  BY <1>4 DEF StartInv, Starting
<1>6. StartInv'
  BY <1>2, <1>3, <1>4, <1>5 DEF StartInv, Starting, Items
<1>7. PageInv'
  <2>1. /\ Whole(disk)' /\ Whole(snapshot)' /\ Whole(cache)'
        /\ cache'["databaseSha"] = v /\ cache'["databaseMap"] = v /\ v # Undefined
    BY <1>2, <1>3 DEF Whole, Items, Undefined
  <2>2. ~torn' => ~torn
    BY <1>3
  <2>3. cache'["databaseSha"] <= cache'["databaseMap"]
    BY <1>2, <2>1
  <2> QED
    BY <1>3, <1>4, <2>1, <2>2, <2>3 DEF PageInv, Starting
<1> QED
  BY <1>1, <1>3, <1>6, <1>7 DEF TagInv

\* An update has ended, and all tasks are in order.
LEMMA EndedInOrder ==
  ASSUME TagTypeOK, TaskInv, NEW h \in Handlers, task[h] \in {"recheck", "download"}, Ended(h),
         UNCHANGED <<released, overtaken, lastCheck>>,
         ~overtaken => Covers(lastCheck)'
  PROVE  TaskInv'
<1>1. /\ task'[h] = "done" /\ (crowded => crowded')
      /\ \A g \in Handlers \ {h} :
           \/ task'[g] = task[g] /\ goal'[g] = goal[g]
           \/ /\ task[g] = "wait" /\ (~crowded' => updating' = g)
              /\ \/ task'[g] = "recheck" /\ goal'[g] = released
                 \/ task'[g] = "download" /\ goal'[g] = lastCheck
  BY EndedTasks
<1>2. lastCheck # 0 /\ (~crowded => updating = h)
  BY DEF TaskInv, TaskOK
<1>3. released \in 1 .. MaxReleased /\ lastCheck \in Nat /\ crowded \in BOOLEAN /\ overtaken \in BOOLEAN
  BY DEF TagTypeOK
<1>4. ASSUME NEW g \in Handlers PROVE TaskOK(g)'
  <2>1. CASE g = h
    BY <1>1, <2>1 DEF TaskOK, Asked
  <2>2. CASE g # h /\ task'[g] = task[g] /\ goal'[g] = goal[g]
    <3>1. TaskOK(g)
      BY DEF TaskInv
    <3>2. task[g] \in {"recheck", "download"} => crowded
      BY <1>2, <2>2, <3>1 DEF TaskOK
    <3> QED
      BY <1>1, <1>2, <2>2, <3>1, <3>2 DEF TaskOK, Asked
  <2>3. CASE task'[g] = "recheck" /\ goal'[g] = released /\ (~crowded' => updating' = g)
    BY <1>2, <1>3, <2>3 DEF TaskOK, Asked
  <2>4. CASE task'[g] = "download" /\ goal'[g] = lastCheck /\ (~crowded' => updating' = g)
    <3>1. ~overtaken' => Covers(goal[g])'
      BY <2>4 DEF Covers
    <3>2. (task[g] = "download" /\ ~overtaken => goal[g] <= lastCheck)'
      BY <1>3, <2>4
    <3> QED
      BY <1>2, <2>4, <3>1, <3>2 DEF TaskOK, Asked
  <2> QED
    BY <1>1, <2>1, <2>2, <2>3, <2>4
<1> QED
  BY <1>4 DEF TaskInv

LEMMA ReadMapKeeps ==
  ASSUME TagInv, ReadMap
  PROVE  TagInv'
<1> USE DEF preloadVars, checkVars, taskVars
<1>0. TagTypeOK /\ StartInv /\ PageInv /\ (~told => TaskInv /\ SeenInv)
  BY DEF TagInv, Ordered
<1>1. /\ boot = "map" /\ boot' \in {"rebuild", "up"}
      /\ Show(tagMap', have, <<>>)
      /\ info' = Undefined /\ have' = Undefined
      /\ \/ tagMap' = EmptyMap /\ boot' = "rebuild"
         \/ /\ tagMap' = [label |-> info, content |-> cache["database"]] /\ boot' = "up"
            /\ info # Undefined /\ cache["database"] # Undefined
      /\ UNCHANGED <<loads, loaded, snapshot, overwritten, told, released, lastCheck, recent, checked, overtaken,
                     task, goal, updating, waitsFor, crowded>>
  BY DEF ReadMap
<1>2. Starting /\ ~Starting' /\ tagMap = NoMap
  BY <1>0, <1>1 DEF Starting, StartInv
<1>3. /\ cache \in [Items -> Copies] /\ snapshot \in [Items -> Copies] /\ disk \in [Items -> Copies]
      /\ info \in Copies /\ MaxReleased \in Nat /\ released \in 1 .. MaxReleased /\ lastCheck \in 0 .. MaxReleased
      /\ Undefined = -1 /\ Copies = -1 .. MaxReleased /\ goal \in [Handlers -> 0 .. MaxReleased]
  BY <1>0, TagBoundsAssumption DEF TagTypeOK, Copies, Undefined
<1>4. /\ tagMap' \in [label : Copies, content : Copies]
      /\ tagMap'.label \in {0, info} /\ tagMap'.label \in Copies /\ tagMap'.content \in Copies
      /\ tagMap'.label # Undefined /\ tagMap'.content # Undefined
      /\ boot' = "up" => /\ tagMap'.label = info /\ info # Undefined /\ (torn \/ info = cache["databaseInfo"])
                         /\ tagMap'.content = cache["database"]
      /\ boot' # "up" => tagMap'.label = 0 /\ tagMap'.content = 0
  <2>1. CASE tagMap' = EmptyMap /\ boot' = "rebuild"
    BY <1>3, <2>1 DEF EmptyMap
  <2>2. CASE /\ tagMap' = [label |-> info, content |-> cache["database"]] /\ boot' = "up"
             /\ info # Undefined /\ cache["database"] # Undefined
    <3>1. cache["database"] \in Copies
      BY <1>3 DEF Items
    <3>2. torn \/ info = cache["databaseInfo"]
      BY <1>0, <1>2, <2>2 DEF StartInv
    <3> QED
      BY <1>3, <2>2, <3>1, <3>2
  <2> QED
    BY <1>1, <2>1, <2>2
<1>5. PICK map \in [label : Copies, content : Copies] : map = tagMap'
  BY <1>4
<1>6. Show(map, have, <<>>)
  BY <1>1, <1>5
<1>7. /\ cache' \in [Items -> Copies] /\ disk' \in [Items -> Copies]
      /\ {lost', torn'} \subseteq BOOLEAN /\ (lost => lost') /\ (torn => torn')
      /\ \A i \in Items \ {"databaseMap", "databaseSha"} : cache'[i] = cache[i] /\ disk'[i] = disk[i]
      /\ IF have = map.label
           THEN cache' = cache /\ disk' = disk /\ shown' = shown /\ GoesByStorage
           ELSE cache'["databaseMap"] = map.content /\ cache'["databaseSha"] = map.label /\ Shows(map.content)
      /\ Whole(disk) /\ map.label <= map.content /\ ~torn' => Whole(disk')
  BY <1>0, <1>6, ShowOnly
<1>8. /\ cache'["databaseInfo"] = cache["databaseInfo"] /\ disk'["databaseInfo"] = disk["databaseInfo"]
      /\ cache'["release"] = cache["release"] /\ disk'["release"] = disk["release"]
      /\ cache["databaseInfo"] \in Copies /\ snapshot["databaseInfo"] \in Copies /\ disk["databaseInfo"] \in Copies
      /\ cache["databaseSha"] \in Copies /\ cache["databaseMap"] \in Copies /\ cache["database"] \in Copies
      /\ cache["release"] \in Copies /\ snapshot["release"] \in Copies /\ disk["release"] \in Copies
  BY <1>3, <1>7 DEF Items
<1>9. TagTypeOK'
  BY ReadMapType DEF TagInv
<1>10. ASSUME NEW n \in Nat, Covers(n) PROVE Covers(n)'
  <2>1. tagMap'.label <= n /\ info' <= n
    BY <1>1, <1>3, <1>4, <1>10 DEF Covers
  <2> QED
    BY <1>1, <1>8, <1>10, <2>1 DEF Covers
<1>11. ASSUME ~told PROVE SeenInv'
  <2>1. ASSUME ~overtaken, NEW c \in Nat, Covers(c)
        PROVE  /\ tagMap'.label <= c /\ info' <= c
               /\ cache'["databaseInfo"] <= c /\ snapshot'["databaseInfo"] <= c
               /\ disk'["databaseInfo"] <= c
    BY <1>10, <2>1 DEF Covers
  <2>2. /\ cache["release"] # Undefined => cache["release"] \in Nat
        /\ snapshot["release"] # Undefined => snapshot["release"] \in Nat
        /\ released \in Nat /\ lastCheck \in Nat
    BY SMTT(30), <1>3, <1>8
  <2>3. ~overtaken => Covers(released)'
    BY <1>0, <1>1, <1>11, <2>1, <2>2 DEF SeenInv, Covers
  <2>4. ~overtaken /\ lastCheck # 0 => Covers(lastCheck)' /\ (~lost' => disk'["release"] = lastCheck)
    BY <1>0, <1>1, <1>11, <1>7, <1>8, <2>1, <2>2 DEF SeenInv, Covers
  <2>5. ~overtaken /\ lastCheck = 0 /\ cache["release"] # Undefined =>
          Covers(cache["release"])' /\ cache'["release"] = disk'["release"]
    BY <1>0, <1>1, <1>11, <1>8, <2>1, <2>2 DEF SeenInv, Covers
  <2>6. ~overtaken /\ lastCheck = 0 /\ snapshot["release"] # Undefined =>
          Covers(snapshot["release"])' /\ snapshot'["release"] = disk'["release"]
    BY <1>0, <1>1, <1>11, <1>8, <2>1, <2>2 DEF SeenInv, Covers
  <2> QED
    BY <1>0, <1>1, <1>11, <1>8, <2>3, <2>4, <2>5, <2>6 DEF SeenInv
<1>12. ASSUME ~told PROVE TaskInv'
  <2>1. ASSUME NEW g \in Handlers PROVE TaskOK(g)'
    <3>1. TaskOK(g) /\ goal'[g] = goal[g] /\ goal[g] \in Nat /\ task'[g] = task[g]
      BY <1>0, <1>1, <1>3, <1>12 DEF TaskInv
    <3>2. Covers(goal[g]) => Covers(goal[g])'
      BY <1>1, <1>10, <3>1 DEF Covers
    <3> QED
      BY <1>1, <3>1, <3>2 DEF TaskOK, Asked
  <2> QED
    BY <2>1 DEF TaskInv
<1>13. StartInv'
  BY <1>0, <1>1, <1>2, <1>4 DEF StartInv
<1>14. PageInv'
  <2>1. ASSUME ~torn
        PROVE  /\ tagMap'.label <= tagMap'.content /\ Whole(disk) /\ Whole(snapshot)
               /\ cache["databaseSha"] <= cache["databaseMap"]
    BY <1>0, <1>1, <1>2, <1>3, <1>4, <2>1 DEF PageInv, Whole
  <2>2. ASSUME ~torn'
        PROVE  /\ Whole(disk)' /\ Whole(snapshot)' /\ tagMap'.label <= tagMap'.content
               /\ cache'["databaseSha"] <= cache'["databaseMap"]
    <3>1. ~torn
      BY <1>0, <1>7, <2>2 DEF TagTypeOK
    <3> QED
      BY <1>1, <1>5, <1>7, <2>1, <2>2, <3>1 DEF Whole
  <2>3. ASSUME have = map.label PROVE foreign \/ cache["databaseSha"] = map.label
    BY <1>0, <1>2, <1>3, <1>4, <1>5, <2>3 DEF StartInv
  <2>4. ASSUME boot' = "up" PROVE foreign' \/ cache'["databaseSha"] = tagMap'.label
    BY <1>5, <1>7, <2>3 DEF GoesByStorage
  <2>5. ASSUME ~overwritten', ~torn', ~misled', shown' # Undefined
        PROVE  /\ foreign' \/ cache'["databaseSha"] <= shown'
               /\ tagMap'.label <= shown'
    <3>1. CASE have = map.label
      <4>1. ~torn /\ ~foreign /\ ~misled /\ shown' = shown
        BY <1>0, <1>7, <2>5, <3>1 DEF GoesByStorage, TagTypeOK
      <4> QED
        BY <1>0, <1>1, <1>5, <1>7, <2>3, <2>5, <3>1, <4>1 DEF PageInv
    <3>2. CASE have # map.label
      BY <1>5, <1>7, <2>2, <2>5, <3>2 DEF Shows
    <3> QED
      BY <3>1, <3>2
  <2>6. ASSUME ~loaded'
        PROVE  /\ (cache'["databaseSha"] = Undefined) = (cache'["databaseMap"] = Undefined)
               /\ cache'["databaseMap"] = Undefined => shown' = Undefined
    <3>1. CASE have = map.label
      BY <1>0, <1>1, <1>7, <2>6, <3>1 DEF PageInv
    <3>2. CASE have # map.label
      BY <1>4, <1>5, <1>7, <3>2 DEF Shows
    <3> QED
      BY <3>1, <3>2
  <2> QED
    BY <1>2, <2>2, <2>4, <2>5, <2>6 DEF PageInv
<1> QED
  BY <1>1, <1>9, <1>11, <1>12, <1>13, <1>14 DEF TagInv, Ordered

LEMMA DownloadedKeeps ==
  ASSUME TagInv, NEW h \in Handlers, Downloaded(h)
  PROVE  TagInv'
<1> USE DEF preloadVars, checkVars
<1>0. TagTypeOK /\ StartInv /\ PageInv /\ (~told => TaskInv /\ SeenInv)
  BY DEF TagInv, Ordered
<1>1. /\ task[h] = "download" /\ tagMap # NoMap /\ Ended(h)
      /\ tagMap' = [label |-> goal[h], content |-> goal[h]]
      /\ UNCHANGED <<info, loads, loaded, snapshot, overwritten, told, released, lastCheck, recent, checked,
                     overtaken, have>>
  BY DEF Downloaded
<1>2. PICK l \in 0 .. MaxReleased : l = goal[h]
  BY <1>0 DEF TagTypeOK
<1>3. /\ cache \in [Items -> Copies] /\ snapshot \in [Items -> Copies] /\ disk \in [Items -> Copies]
      /\ l \in Copies /\ MaxReleased \in Nat /\ released \in 1 .. MaxReleased /\ lastCheck \in 0 .. MaxReleased
      /\ Undefined = -1 /\ Copies = -1 .. MaxReleased /\ shown \in Copies
      /\ {lost, torn, overtaken} \subseteq BOOLEAN
  BY <1>0, TagBoundsAssumption DEF TagTypeOK, Copies, Undefined
<1>4. \/ Show([label |-> l, content |-> l], cache["databaseSha"], <<Is("databaseInfo", l), Is("database", l)>>)
      \/ /\ boot' # "up"
         /\ Save(<<Is("databaseInfo", l), Is("database", l)>>) /\ UNCHANGED <<shown, foreign, misled>>
  BY <1>2 DEF Downloaded
<1>5. /\ cache' \in [Items -> Copies] /\ disk' \in [Items -> Copies]
      /\ {lost', torn'} \subseteq BOOLEAN /\ (lost => lost') /\ (torn => torn')
      /\ cache'["databaseInfo"] = l /\ cache'["database"] = l
      /\ disk'["databaseInfo"] \in {disk["databaseInfo"], l}
      /\ lost => disk'["databaseInfo"] = disk["databaseInfo"]
      /\ cache'["release"] = cache["release"] /\ disk'["release"] = disk["release"]
      /\ \/ /\ cache'["databaseMap"] = cache["databaseMap"]
            /\ cache'["databaseSha"] = cache["databaseSha"] /\ shown' = shown
            /\ \/ GoesByStorage /\ cache["databaseSha"] = l
               \/ foreign' = foreign /\ misled' = misled /\ boot' # "up"
         \/ cache'["databaseMap"] = l /\ cache'["databaseSha"] = l /\ Shows(l)
      /\ Whole(disk) /\ ~torn' => Whole(disk')
  <2>1. CASE Show([label |-> l, content |-> l], cache["databaseSha"], <<Is("databaseInfo", l), Is("database", l)>>)
    <3>1. PICK old : old = cache["databaseSha"]
      OBVIOUS
    <3>2. Show([label |-> l, content |-> l], old, <<Is("databaseInfo", l), Is("database", l)>>)
      BY <2>1, <3>1
    <3>3. /\ cache' \in [Items -> Copies] /\ disk' \in [Items -> Copies]
          /\ {lost', torn'} \subseteq BOOLEAN /\ (lost => lost') /\ (torn => torn')
          /\ cache'["databaseInfo"] = l /\ cache'["database"] = l
          /\ disk'["databaseInfo"] \in {disk["databaseInfo"], l}
          /\ lost => disk'["databaseInfo"] = disk["databaseInfo"]
          /\ cache'["release"] = cache["release"] /\ disk'["release"] = disk["release"]
          /\ IF old = l
               THEN /\ cache'["databaseMap"] = cache["databaseMap"]
                    /\ cache'["databaseSha"] = cache["databaseSha"] /\ shown' = shown /\ GoesByStorage
               ELSE cache'["databaseMap"] = l /\ cache'["databaseSha"] = l /\ Shows(l)
          /\ Whole(disk) /\ ~torn' => Whole(disk')
      BY <1>0, <1>3, <3>2, ShowDownloaded
    <3> QED
      BY <3>1, <3>3
  <2>2. CASE /\ boot' # "up"
             /\ Save(<<Is("databaseInfo", l), Is("database", l)>>) /\ UNCHANGED <<shown, foreign, misled>>
    <3>1. /\ cache' \in [Items -> Copies] /\ disk' \in [Items -> Copies]
          /\ {lost', torn'} \subseteq BOOLEAN /\ (lost => lost') /\ (torn => torn')
          /\ cache'["databaseInfo"] = l /\ cache'["database"] = l
          /\ disk'["databaseInfo"] \in {disk["databaseInfo"], l}
          /\ lost => disk'["databaseInfo"] = disk["databaseInfo"]
          /\ \A i \in Items \ {"databaseInfo", "database"} : cache'[i] = cache[i] /\ disk'[i] = disk[i]
          /\ Whole(disk) /\ ~torn' => Whole(disk')
      BY <1>0, <1>3, <2>2, SaveBase
    <3> QED
      BY <2>2, <3>1 DEF Items
  <2> QED
    BY <1>4, <2>1, <2>2
<1>6. /\ task' \in [Handlers -> Stages]
      /\ goal' \in [Handlers -> 0 .. MaxReleased]
      /\ updating' \in Handlers \cup {Nobody}
      /\ waitsFor' \in [Handlers -> Handlers \cup {Nobody}]
      /\ crowded' \in BOOLEAN
  BY <1>0, <1>1, EndedTasks
<1>7. /\ boot' \in {boot, "up"} /\ ~Starting /\ ~Starting'
      /\ boot' = IF h = "rebuild" THEN "up" ELSE boot
  <2>1. boot' = IF h = "rebuild" THEN "up" ELSE boot
    BY <1>1 DEF Ended
  <2>2. ~Starting
    BY <1>0, <1>1 DEF StartInv
  <2> QED
    BY <2>1, <2>2 DEF Starting
<1>8. /\ tagMap' \in [label : Copies, content : Copies] /\ tagMap'.label = l /\ tagMap'.content = l
      /\ l # Undefined
  BY <1>1, <1>2, <1>3
<1>9. TagTypeOK'
  BY DownloadedType DEF TagInv
<1>10. ~told /\ ~overtaken => l <= lastCheck /\ lastCheck # 0 /\ Covers(lastCheck) /\ Covers(released)
  BY <1>0, <1>1, <1>2 DEF TaskInv, TaskOK, SeenInv
<1>11. ~told /\ ~overtaken => Covers(lastCheck)' /\ Covers(released)'
  <2>1. (~told => lastCheck <= released) /\ lastCheck \in Int /\ released \in Int /\ l \in Int
    BY <1>0, <1>3 DEF SeenInv
  <2> QED
    BY <1>1, <1>5, <1>8, <1>10, <2>1 DEF Covers
<1>12. ASSUME ~told PROVE SeenInv'
  <2>1. /\ disk["databaseInfo"] \in Int /\ disk["release"] \in Int /\ l \in Int /\ lastCheck \in Int
    BY <1>3 DEF Items
  <2>2. ASSUME ~overtaken' PROVE disk'["databaseInfo"] <= disk'["release"]
    BY <1>0, <1>1, <1>3, <1>5, <1>10, <1>12, <2>1, <2>2 DEF SeenInv
  <2>3. ASSUME ~overtaken', ~lost' PROVE disk'["release"] = lastCheck'
    BY <1>0, <1>1, <1>3, <1>5, <1>10, <1>12, <2>3 DEF SeenInv
  <2> QED
    BY <1>0, <1>1, <1>5, <1>10, <1>11, <1>12, <2>2, <2>3 DEF SeenInv
<1>13. ASSUME ~told PROVE TaskInv'
  <2>1. task[h] \in {"recheck", "download"} /\ UNCHANGED <<released, overtaken, lastCheck>>
    BY <1>1
  <2>2. ~overtaken => Covers(lastCheck)'
    BY <1>11, <1>13
  <2> QED
    BY <1>0, <1>1, <1>13, <2>1, <2>2, EndedInOrder
<1>14. StartInv'
  BY <1>0, <1>1, <1>7, <1>8 DEF StartInv
<1>15. PageInv'
  <2>1. ASSUME ~torn' PROVE ~torn /\ Whole(disk)' /\ Whole(snapshot)'
    <3>1. ~torn
      BY <1>3, <1>5, <2>1
    <3> QED
      BY <1>0, <1>1, <1>5, <2>1, <3>1 DEF Whole, PageInv
  <2>2. ASSUME ~overwritten', ~torn' PROVE cache'["databaseSha"] <= cache'["databaseMap"]
    BY <1>0, <1>1, <1>3, <1>5, <2>1, <2>2 DEF PageInv
  <2>3. ASSUME boot' = "up" PROVE cache'["databaseSha"] = tagMap'.label
    BY <1>5, <1>8, <2>3
  <2>4. ASSUME ~overwritten', ~torn', ~misled', shown' # Undefined
        PROVE  /\ foreign' \/ cache'["databaseSha"] <= shown'
               /\ boot' = "up" => tagMap'.label <= shown'
    <3>1. CASE /\ cache'["databaseSha"] = cache["databaseSha"] /\ shown' = shown
               /\ GoesByStorage /\ cache["databaseSha"] = l
      <4>1. ~torn /\ ~foreign /\ ~misled
        BY <1>0, <2>1, <2>4, <3>1 DEF GoesByStorage, TagTypeOK
      <4> QED
        BY <1>0, <1>1, <1>8, <2>4, <3>1, <4>1 DEF PageInv
    <3>2. CASE /\ cache'["databaseSha"] = cache["databaseSha"] /\ shown' = shown
               /\ foreign' = foreign /\ misled' = misled /\ boot' # "up"
      BY <1>0, <1>1, <2>1, <2>4, <3>2 DEF PageInv
    <3>3. CASE cache'["databaseMap"] = l /\ cache'["databaseSha"] = l /\ Shows(l)
      BY <1>3, <1>8, <3>3 DEF Shows
    <3> QED
      BY <1>5, <3>1, <3>2, <3>3
  <2>5. ASSUME ~loaded'
        PROVE  /\ (cache'["databaseSha"] = Undefined) = (cache'["databaseMap"] = Undefined)
               /\ cache'["databaseMap"] = Undefined => shown' = Undefined
    BY <1>0, <1>1, <1>5, <1>8, <2>5 DEF PageInv, Shows
  <2>6. l <= l
    BY <1>3
  <2> QED
    BY <1>7, <1>8, <2>1, <2>2, <2>3, <2>4, <2>5, <2>6 DEF PageInv
<1> QED
  BY <1>1, <1>9, <1>12, <1>13, <1>14, <1>15 DEF TagInv, Ordered

LEMMA DownloadFailsKeeps ==
  ASSUME TagInv, NEW h \in Handlers, DownloadFails(h)
  PROVE  TagInv'
<1> USE DEF preloadVars, savedVars, checkVars
<1>0. TagTypeOK /\ StartInv /\ PageInv /\ (~told => TaskInv /\ SeenInv)
  BY DEF TagInv, Ordered
<1>1. /\ task[h] \in {"recheck", "download"} /\ Ended(h)
      /\ IF h = "rebuild" THEN Show(tagMap, cache["databaseSha"], <<>>)
                          ELSE UNCHANGED <<disk, cache, lost, torn, shown, foreign, misled>>
      /\ UNCHANGED <<info, loads, loaded, snapshot, overwritten, told, released, lastCheck, recent, checked,
                     overtaken, tagMap, have>>
  BY DEF DownloadFails
<1>2. /\ cache \in [Items -> Copies] /\ snapshot \in [Items -> Copies] /\ disk \in [Items -> Copies]
      /\ MaxReleased \in Nat /\ released \in 1 .. MaxReleased /\ lastCheck \in 0 .. MaxReleased
      /\ Undefined = -1 /\ Copies = -1 .. MaxReleased /\ shown \in Copies
      /\ tagMap \in [label : Copies, content : Copies] /\ tagMap.label \in Copies /\ tagMap.content \in Copies
      /\ {lost, torn, overtaken} \subseteq BOOLEAN
  BY <1>0, TagBoundsAssumption DEF TagTypeOK, Copies, Undefined
<1>3. /\ cache' \in [Items -> Copies] /\ disk' \in [Items -> Copies]
      /\ {lost', torn'} \subseteq BOOLEAN /\ (lost => lost') /\ (torn => torn')
      /\ \A i \in Items \ {"databaseMap", "databaseSha"} : cache'[i] = cache[i] /\ disk'[i] = disk[i]
      /\ \/ /\ cache' = cache /\ disk' = disk /\ shown' = shown
            /\ \/ GoesByStorage /\ cache["databaseSha"] = tagMap.label
               \/ foreign' = foreign /\ misled' = misled /\ h # "rebuild"
         \/ /\ h = "rebuild" /\ Shows(tagMap.content)
            /\ cache'["databaseMap"] = tagMap.content /\ cache'["databaseSha"] = tagMap.label
      /\ Whole(disk) /\ tagMap.label <= tagMap.content /\ ~torn' => Whole(disk')
  <2>1. CASE h = "rebuild"
    <3>1. /\ \E old : old = cache["databaseSha"]
          /\ \E map \in [label : Copies, content : Copies] : map = tagMap
      BY <1>2
    <3>2. PICK old : old = cache["databaseSha"]
      BY <3>1
    <3>3. PICK map \in [label : Copies, content : Copies] : map = tagMap
      BY <3>1
    <3>4. Show(map, old, <<>>)
      BY <1>1, <2>1, <3>2, <3>3
    <3>5. /\ cache' \in [Items -> Copies] /\ disk' \in [Items -> Copies]
          /\ {lost', torn'} \subseteq BOOLEAN /\ (lost => lost') /\ (torn => torn')
          /\ \A i \in Items \ {"databaseMap", "databaseSha"} : cache'[i] = cache[i] /\ disk'[i] = disk[i]
          /\ IF old = map.label
               THEN cache' = cache /\ disk' = disk /\ shown' = shown /\ GoesByStorage
               ELSE cache'["databaseMap"] = map.content /\ cache'["databaseSha"] = map.label /\ Shows(map.content)
          /\ Whole(disk) /\ map.label <= map.content /\ ~torn' => Whole(disk')
      BY <1>0, <3>4, ShowOnly
    <3> QED
      BY <2>1, <3>2, <3>3, <3>5
  <2>2. CASE h # "rebuild"
    BY <1>1, <1>2, <2>2 DEF Whole
  <2> QED
    BY <2>1, <2>2
<1>4. /\ cache'["databaseInfo"] = cache["databaseInfo"] /\ disk'["databaseInfo"] = disk["databaseInfo"]
      /\ cache'["release"] = cache["release"] /\ disk'["release"] = disk["release"]
  BY <1>3 DEF Items
<1>5. /\ task' \in [Handlers -> Stages]
      /\ goal' \in [Handlers -> 0 .. MaxReleased]
      /\ updating' \in Handlers \cup {Nobody}
      /\ waitsFor' \in [Handlers -> Handlers \cup {Nobody}]
      /\ crowded' \in BOOLEAN
      /\ Starting => task'["rebuild"] = "idle" /\ h # "rebuild"
  <2>1. Starting => task["rebuild"] = "idle" /\ h # "rebuild"
    BY <1>0, <1>1 DEF StartInv
  <2> QED
    BY <1>0, <1>1, <2>1, EndedTasks DEF Handlers
<1>6. /\ boot' = IF h = "rebuild" THEN "up" ELSE boot
      /\ Starting' <=> Starting
  <2>1. boot' = IF h = "rebuild" THEN "up" ELSE boot
    BY <1>1 DEF Ended
  <2> QED
    BY <1>5, <2>1 DEF Starting
<1>7. SameLabels
  BY <1>1, <1>4 DEF SameLabels
<1>8. TagTypeOK'
  BY DownloadFailsType DEF TagInv
<1>9. ASSUME ~told PROVE SeenInv'
  BY <1>0, <1>1, <1>2, <1>3, <1>4, <1>9 DEF SeenInv, Covers
<1>10. ASSUME ~told PROVE TaskInv'
  <2>1. lastCheck # 0
    BY <1>0, <1>1, <1>10 DEF TaskInv, TaskOK
  <2>2. ~overtaken => Covers(lastCheck)'
    BY <1>0, <1>1, <1>4, <1>10, <2>1 DEF SeenInv, Covers
  <2> QED
    BY <1>0, <1>1, <1>10, <2>2, EndedInOrder
<1>11. StartInv'
  <2>1. Starting => cache' = cache /\ foreign' = foreign /\ torn' \in {torn, TRUE}
    BY <1>1, <1>3, <1>5
  <2> QED
    BY <1>0, <1>1, <1>5, <1>6, <2>1 DEF StartInv
<1>12. PageInv'
  <2>1. ASSUME ~torn'
        PROVE  /\ ~torn /\ Whole(disk)' /\ Whole(snapshot)' /\ (Starting' => Whole(cache)')
               /\ tagMap'.label <= tagMap'.content
    <3>1. ~torn
      BY <1>2, <1>3, <2>1
    <3>2. tagMap.label <= tagMap.content
      BY <1>0, <3>1 DEF PageInv
    <3>3. Whole(disk)' /\ Whole(snapshot)'
      BY <1>0, <1>1, <1>3, <2>1, <3>1, <3>2 DEF Whole, PageInv
    <3>4. Starting' => Whole(cache)'
      BY <1>0, <1>1, <1>5, <1>6, <3>1 DEF PageInv, Whole
    <3> QED
      BY <1>1, <3>1, <3>2, <3>3, <3>4
  <2>2. ASSUME ~overwritten', ~torn' PROVE cache'["databaseSha"] <= cache'["databaseMap"]
    BY <1>0, <1>1, <1>3, <2>1, <2>2 DEF PageInv
  <2>3. ASSUME boot' = "up", ~overwritten' PROVE foreign' \/ cache'["databaseSha"] = tagMap'.label
    BY <1>0, <1>1, <1>3, <1>6, <2>3 DEF PageInv
  <2>4. ASSUME ~overwritten', ~torn', ~misled', shown' # Undefined
        PROVE  /\ foreign' \/ cache'["databaseSha"] <= shown'
               /\ boot' = "up" => tagMap'.label <= shown'
    <3>1. CASE cache' = cache /\ shown' = shown /\ GoesByStorage /\ cache["databaseSha"] = tagMap.label
      <4>1. ~torn /\ ~foreign /\ ~misled
        BY <1>0, <2>1, <2>4, <3>1 DEF GoesByStorage, TagTypeOK
      <4> QED
        BY <1>0, <1>1, <2>4, <3>1, <4>1 DEF PageInv
    <3>2. CASE cache' = cache /\ shown' = shown /\ foreign' = foreign /\ misled' = misled /\ h # "rebuild"
      BY <1>0, <1>1, <1>6, <2>1, <2>4, <3>2 DEF PageInv
    <3>3. CASE cache'["databaseSha"] = tagMap.label /\ Shows(tagMap.content)
      BY <1>1, <2>1, <2>4, <3>3 DEF Shows
    <3> QED
      BY <1>3, <3>1, <3>2, <3>3
  <2>5. ASSUME ~loaded'
        PROVE  /\ (cache'["databaseSha"] = Undefined) = (cache'["databaseMap"] = Undefined)
               /\ cache'["databaseMap"] = Undefined => shown' = Undefined
    <3>1. CASE cache' = cache /\ shown' = shown
      BY <1>0, <1>1, <2>5, <3>1 DEF PageInv
    <3>2. CASE h = "rebuild" /\ cache'["databaseMap"] = tagMap.content /\ cache'["databaseSha"] = tagMap.label
      <4>1. Undefined \notin {tagMap.label, tagMap.content}
        BY <1>0, <1>5, <3>2 DEF StartInv
      <4> QED
        BY <3>2, <4>1
    <3> QED
      BY <1>3, <3>1, <3>2
  <2> QED
    BY <2>1, <2>2, <2>3, <2>4, <2>5 DEF PageInv
<1> QED
  BY <1>1, <1>8, <1>9, <1>10, <1>11, <1>12 DEF TagInv, Ordered
----------------------------------------------------------------------------
LEMMA TagInvInit ==
  ASSUME TagInit
  PROVE  TagInv
<1> USE DEF TagInit
<1>1. /\ MaxReleased \in Nat /\ 1 <= MaxReleased /\ 1 <= MaxLoads /\ MaxLoads \in Nat
      /\ Undefined = -1 /\ Copies = -1 .. MaxReleased
  BY TagBoundsAssumption DEF Copies, Undefined
<1>2. PICK v \in {Undefined, 1} : disk = [i \in Items |-> v]
  BY DEF NoItems, AllOf
<1>3. /\ disk \in [Items -> Copies] /\ cache \in [Items -> Copies] /\ snapshot \in [Items -> Copies]
      /\ v \in Copies
  BY <1>1, <1>2 DEF NoItems, AllOf
<1>4. /\ \A i \in Items : /\ disk[i] = v /\ NoItems[i] = Undefined
                          /\ cache[i] \in {v, Undefined} /\ snapshot[i] \in {v, Undefined}
      /\ Items = {"databaseInfo", "database", "release", "databaseMap", "databaseSha"}
      /\ cache["databaseInfo"] = cache["release"] /\ snapshot["databaseInfo"] = snapshot["release"]
      /\ cache["databaseMap"] = cache["databaseSha"] /\ snapshot["databaseMap"] = snapshot["databaseSha"]
      /\ cache["database"] = cache["databaseInfo"] /\ snapshot["database"] = snapshot["databaseInfo"]
  BY <1>2 DEF NoItems, AllOf, Items
<1>5. tagMap.label = -1 /\ tagMap.content = -1 /\ tagMap \in [label : Copies, content : Copies]
  BY <1>1 DEF NoMap
<1>6. TagTypeOK
  <2>1. have \in Undefined - 1 .. MaxReleased
    BY SMTT(30), <1>1, <1>3 DEF Items
  <2>2. /\ task \in [Handlers -> Stages]
        /\ goal \in [Handlers -> 0 .. MaxReleased] /\ waitsFor \in [Handlers -> Handlers \cup {Nobody}]
    BY <1>1 DEF Stages
  <2>3. /\ {loaded, lost, recent, checked} \subseteq BOOLEAN
        /\ {torn, overwritten, told, foreign, misled, overtaken, crowded} \subseteq BOOLEAN
    OBVIOUS
  <2> QED
    BY <1>1, <1>3, <1>5, <2>1, <2>2, <2>3 DEF TagTypeOK, Copies
<1>7. SeenInv
  BY <1>1, <1>2, <1>4, <1>5 DEF SeenInv, Covers
<1>8. TaskInv
  <2>1. ASSUME NEW g \in Handlers PROVE TaskOK(g)
    <3>1. task[g] = "idle"
      OBVIOUS
    <3> QED
      BY <3>1 DEF TaskOK, Asked
  <2> QED
    BY <2>1 DEF TaskInv
<1>9. StartInv
  <2>1. have = Undefined - 1 \/ (have = cache["databaseSha"] /\ have # Undefined)
    BY <1>1, <1>3, <1>4
  <2>2. task["rebuild"] = "idle"
    BY DEF Handlers
  <2> QED
    BY <1>4, <2>1, <2>2 DEF StartInv, Starting
<1>10. PageInv
  BY <1>1, <1>3, <1>4, <1>5 DEF PageInv, Starting, Whole
<1> QED
  BY <1>6, <1>7, <1>8, <1>9, <1>10 DEF TagInv, Ordered

LEMMA TagInvStutters ==
  ASSUME TagInv, UNCHANGED tagVars
  PROVE  TagInv'
<1> USE DEF tagVars, storageVars, savedVars, preloadVars, bootVars, checkVars, taskVars, pageVars
<1>1. TagTypeOK'
  BY DEF TagInv, TagTypeOK
<1>2. ASSUME ~told PROVE SeenInv'
  BY <1>2, SeenSame DEF TagInv, Ordered
<1>3. ASSUME ~told PROVE TaskInv'
  BY <1>3, TasksSame DEF TagInv, Ordered, SameLabels
<1>4. StartInv'
  BY StartSame DEF TagInv
<1>5. PageInv'
  BY PageSame DEF TagInv
<1> QED
  BY <1>1, <1>2, <1>3, <1>4, <1>5 DEF TagInv, Ordered

LEMMA TagInvStep ==
  ASSUME TagInv, [TagNext]_tagVars
  PROVE  TagInv'
<1>1. ASSUME NEW h \in Handlers,
             \/ Update(h) \/ Compare(h) \/ Check(h)
             \/ Answered(h) \/ CheckFails(h) \/ Downloaded(h) \/ DownloadFails(h)
      PROVE  TagInv'
  BY <1>1, UpdateKeeps, CompareKeeps, CheckKeeps, AnsweredKeeps, CheckFailsKeeps, DownloadedKeeps, DownloadFailsKeeps
<1>2. ASSUME \/ ReadInfo \/ ReadMap \/ ShowCopy \/ ReadRelease
             \/ Preload \/ Reopen \/ Publish \/ FiveMinutes \/ UNCHANGED tagVars
      PROVE  TagInv'
  BY <1>2, ReadInfoKeeps, ReadMapKeeps, ShowCopyKeeps, ReadReleaseKeeps, PreloadKeeps, ReopenKeeps,
     PublishKeeps, FiveMinutesKeeps, TagInvStutters
<1>3. ASSUME NEW v \in 1 .. released, OtherWindow(v) PROVE TagInv'
  BY <1>3, OtherWindowKeeps
<1> QED
  BY <1>1, <1>2, <1>3 DEF TagNext

\* The invariant holds for ever.
LEMMA TagInvariant == TagSpec => []TagInv
<1>1. TagInit => TagInv
  BY TagInvInit
<1>2. TagInv /\ [TagNext]_tagVars => TagInv'
  BY TagInvStep
<1> QED
  BY <1>1, <1>2, PTL DEF TagSpec

(* Every variable of TagDatabase keeps its type, for any number of releases,*)
(* loads and presses of the popup's buttons, whatever other windows put.    *)
THEOREM TagTypeCorrect == TagSpec => []TagTypeOK
<1>1. TagInv => TagTypeOK
  BY DEF TagInv
<1> QED
  BY <1>1, TagInvariant, PTL

(* Syringe shows translations no older than those of TagDatabase, however   *)
(* often the page is left between two puts and whatever other windows put:  *)
(* updateTagMap puts the label after the map (EhSyringe.user.js:22578).  As *)
(* PageKeepsUp says, not after a label met the content of another release,  *)
(* the preload wrote over what the page had set, or Syringe went by a label *)
(* or a copy that another window had put.                                   *)
THEOREM PageUpToDate == TagSpec => []PageKeepsUp
<1>1. ASSUME TagInv PROVE PageKeepsUp
  <2>1. shown \in Int /\ tagMap.label \in Int
    BY <1>1, TagBoundsAssumption DEF TagInv, TagTypeOK, Undefined
  <2> QED
    BY <1>1, <2>1 DEF TagInv, PageInv, PageKeepsUp
<1> QED
  BY <1>1, TagInvariant, PTL

(* In one load, and until another window puts a release, the translations   *)
(* never go back to those of an older one: DatabaseUpdater.update lets one  *)
(* handler download at a time, and what it downloads is the release last    *)
(* seen, which is as new as any kept before.  As NeverBack says, not once a *)
(* check was answered after a later one, or two handlers were let go at once.*)
THEOREM NoOlderTranslations == TagSpec => NeverBack
<1>1. ASSUME TagInv, [TagNext]_tagVars, loads' = loads, ~overtaken', ~crowded, ~told
      PROVE  tagMap'.label >= tagMap.label
  <2>1. tagMap.label \in Copies /\ \A n \in Copies : n \in Int /\ n >= -1
    BY <1>1, TagBoundsAssumption DEF TagInv, TagTypeOK, Copies, Undefined
  <2>2. ASSUME tagMap' = tagMap PROVE tagMap'.label >= tagMap.label
    BY <2>1, <2>2
  <2>3. CASE ReadMap
    <3>1. tagMap.label = -1
      BY <1>1, <2>3 DEF ReadMap, TagInv, StartInv, Starting, NoMap, Undefined
    <3>2. tagMap'.label \in Copies
      <4>1. TagTypeOK'
        BY <1>1, TagTypeStep DEF TagInv
      <4> QED
        BY <4>1 DEF TagTypeOK, Copies
    <3> QED
      BY <2>1, <3>1, <3>2
  <2>4. ASSUME NEW h \in Handlers, Downloaded(h) PROVE tagMap'.label >= tagMap.label
    <3>1. /\ task[h] = "download" /\ tagMap'.label = goal[h] /\ ~overtaken
      BY <1>1, <2>4 DEF Downloaded, checkVars
    <3>2. Covers(goal[h]) /\ goal[h] \in Int
      BY <1>1, <3>1 DEF TagInv, Ordered, TaskInv, TaskOK, TagTypeOK
    <3> QED
      BY <2>1, <3>1, <3>2 DEF Covers
  <2>5. CASE Reopen
    BY <1>1, <2>5, TagBoundsAssumption DEF Reopen, TagInv, TagTypeOK
  <2>6. CASE UNCHANGED tagMap
    BY <2>2, <2>6
  <2>7. \/ ReadMap \/ Reopen \/ UNCHANGED tagMap \/ \E h \in Handlers : Downloaded(h)
    BY <1>1 DEF TagNext, tagVars, pageVars, ReadInfo, ShowCopy, ReadRelease, Update, Compare, Check, Answered,
       CheckFails, DownloadFails, Preload, Publish, FiveMinutes, OtherWindow
  <2> QED
    BY <2>3, <2>4, <2>5, <2>6, <2>7
<1>2. ASSUME TagInv, [TagNext]_tagVars
      PROVE  [loads' = loads /\ ~overtaken' /\ ~crowded /\ ~told => tagMap'.label >= tagMap.label]_tagVars
  BY <1>1, <1>2
<1> QED
  BY <1>2, TagInvariant, PTL DEF NeverBack, TagSpec
=============================================================================
