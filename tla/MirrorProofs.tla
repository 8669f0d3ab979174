---------------------------- MODULE MirrorProofs ----------------------------
(***************************************************************************)
(* Proofs about the pages of the mirror, for galleries, tabs and loads of  *)
(* any number: its service worker (ServiceWorker), the viewer              *)
(* (GalleryReader), and the two walks over a gallery's pages (PageWalk).   *)
(***************************************************************************)
EXTENDS ServiceWorker, GalleryReader, PageWalk, TLAPS
-----------------------------------------------------------------------------
(***************************************************************************)
(* The service worker: the types, the set of controllers and what it means *)
(* for a navigation, and that nothing which was gone when a worker was     *)
(* activated comes into its cache.                                         *)
(***************************************************************************)

(* The requests that were made are those that have left the first stage.    *)
AskedWhenStarted == \A r \in Requests : asked[r] = NoTab <=> stage[r] = "idle"

(* What a request for an asset has received, or may receive yet, is as new  *)
(* as what the worker in charge could get when it was activated, which ended*)
(* the requests of the one before.  So is what the HTTP caches hold: a copy *)
(* that has left them does not come back.                                   *)
FreshBodies ==
  /\ \A r \in Requests :
       stage[r] \in {"network", "refresh", "saving", "storing"} => body[r] >= since
  /\ fresh # 0 => fresh >= since
-----------------------------------------------------------------------------

\* The types hold at the start.
LEMMA InitType == SWInit => SWTypeOK
BY SWBoundsAssumption DEF SWInit, SWTypeOK, Stage, Reply

\* Every step keeps the types.
LEMMA StepType ==
  ASSUME SWTypeOK, [SWNext]_swVars
  PROVE  SWTypeOK'
<1>1. ASSUME NEW r \in Requests, NEW t \in Tabs, AskImage(r, t)
      PROVE  SWTypeOK'
  BY SWBoundsAssumption, <1>1 DEF AskImage, Accept, SWTypeOK, Stage, Reply,
      Await, First, Proxy, reqVars, siteVars
<1>2. ASSUME NEW r \in Requests, NEW t \in Tabs, AskAsset(r, t)
      PROVE  SWTypeOK'
  BY SWBoundsAssumption, <1>2 DEF AskAsset, Oldest, Accept, Answer, SWTypeOK, Stage,
      Reply, Await, First, Proxy, reqVars, siteVars
<1>3. ASSUME NEW r \in Requests, ImageArrives(r)
      PROVE  SWTypeOK'
  BY SWBoundsAssumption, <1>3 DEF ImageArrives, Finish, Answer, SWTypeOK,
      Stage, Reply, Await, First, Proxy, reqVars, siteVars
<1>4. ASSUME NEW r \in Requests, ImageFails(r)
      PROVE  SWTypeOK'
  BY SWBoundsAssumption, <1>4 DEF ImageFails, ToProxy, SWTypeOK, Stage,
      Reply, Await, First, Proxy, reqVars, siteVars
<1>5. ASSUME NEW r \in Requests, ImageTimeout(r)
      PROVE  SWTypeOK'
  BY SWBoundsAssumption, <1>5 DEF ImageTimeout, ToProxy, SWTypeOK, Stage,
      Reply, Await, First, Proxy, reqVars, siteVars
<1>6. ASSUME NEW r \in Requests, ProxyAnswers(r)
      PROVE  SWTypeOK'
  BY SWBoundsAssumption, <1>6 DEF ProxyAnswers, Finish, Answer, SWTypeOK,
      Stage, Reply, Await, First, Proxy, reqVars, siteVars
<1>7. ASSUME NEW r \in Requests, AssetArrives(r)
      PROVE  SWTypeOK'
  BY SWBoundsAssumption, <1>7 DEF AssetArrives, Received, Answer, SWTypeOK,
      Stage, Reply, Await, First, Proxy, reqVars, siteVars
<1>8. ASSUME NEW r \in Requests, RefreshArrives(r)
      PROVE  SWTypeOK'
  BY SWBoundsAssumption, <1>8 DEF RefreshArrives, Received, SWTypeOK, Stage,
      Reply, Await, First, Proxy, reqVars, siteVars
<1>9. ASSUME NEW r \in Requests, AssetUnusable(r)
      PROVE  SWTypeOK'
  BY SWBoundsAssumption, <1>9 DEF AssetUnusable, Finish, Answer, SWTypeOK,
      Stage, Reply, Await, First, Proxy, reqVars, siteVars
<1>10. ASSUME NEW r \in Requests, AssetFails(r)
      PROVE  SWTypeOK'
  BY SWBoundsAssumption, <1>10 DEF AssetFails, Finish, Answer, SWTypeOK,
      Stage, Reply, Await, First, Proxy, reqVars, siteVars
<1>11. ASSUME NEW r \in Requests, Put(r)
      PROVE  SWTypeOK'
  BY SWBoundsAssumption, <1>11 DEF Put, Finish, SWTypeOK, Stage, Reply,
      Await, First, Proxy, reqVars, siteVars
<1>12. ASSUME NEW r \in Requests, PutFails(r)
      PROVE  SWTypeOK'
  BY SWBoundsAssumption, <1>12 DEF PutFails, Finish, SWTypeOK, Stage, Reply,
      Await, First, Proxy, reqVars, siteVars
<1>13. ASSUME NEW t \in Tabs, Navigate(t)
      PROVE  SWTypeOK'
  BY SWBoundsAssumption, <1>13 DEF Navigate, Release, Aborted, CodeOf,
      SWTypeOK, Stage, Reply, Await, First, Proxy, reqVars, siteVars
<1>14. ASSUME NEW t \in Tabs, NavigationEnds(t)
      PROVE  SWTypeOK'
  BY SWBoundsAssumption, <1>14 DEF NavigationEnds, SWTypeOK, Stage, Reply,
      Await, First, Proxy, reqVars, siteVars
<1>15. ASSUME NEW t \in Tabs, NavigationTimeout(t)
      PROVE  SWTypeOK'
  BY SWBoundsAssumption, <1>15 DEF NavigationTimeout, SWTypeOK, Stage,
      Reply, Await, First, Proxy, reqVars, siteVars
<1>16. CASE Deploy
  BY SWBoundsAssumption, <1>16 DEF Deploy, SWTypeOK, Stage, Reply, Await,
      First, Proxy, reqVars, siteVars
<1>17. CASE Stop
  BY SWBoundsAssumption, <1>17 DEF Stop, Drop, Unneeded, SWTypeOK, Stage,
      Reply, Await, First, Proxy, reqVars, siteVars
<1>18. CASE Activate
  BY SWBoundsAssumption, <1>18 DEF Activate, Oldest, Drop, Unneeded, SWTypeOK,
      Stage, Reply, Await, First, Proxy, reqVars, siteVars
<1>19. CASE HTTPCacheFills
  BY SWBoundsAssumption, <1>19 DEF HTTPCacheFills, SWTypeOK, Stage, Reply, Await,
      First, Proxy, reqVars, siteVars
<1>20. CASE HTTPCacheExpires
  BY SWBoundsAssumption, <1>20 DEF HTTPCacheExpires, SWTypeOK, Stage, Reply, Await,
      First, Proxy, reqVars, siteVars
<1>21. CASE UNCHANGED swVars
  BY SWBoundsAssumption, <1>21 DEF swVars, reqVars, siteVars, SWTypeOK,
      Stage, Reply, Await, First, Proxy, reqVars, siteVars
<1> QED
  BY <1>1, <1>2, <1>3, <1>4, <1>5, <1>6, <1>7, <1>8, <1>9, <1>10, <1>11,
      <1>12, <1>13, <1>14, <1>15, <1>16, <1>17, <1>18, <1>19, <1>20, <1>21
  DEF SWNext, Handle, Visit

(* Every variable keeps its type; in particular no copy of the asset is     *)
(* newer than what was deployed.                                            *)
THEOREM SWTypeCorrect == SWSpec => []SWTypeOK
<1>1. SWInit => SWTypeOK
  BY InitType
<1>2. SWTypeOK /\ [SWNext]_swVars => SWTypeOK'
  BY StepType
<1> QED
  BY <1>1, <1>2, PTL DEF SWSpec
-----------------------------------------------------------------------------

\* A request leaves its first stage when it is made, for good: a navigation
\* ends only requests that were made.
LEMMA StepAsked ==
  ASSUME SWTypeOK, AskedWhenStarted, RegisteredWhileAwaited, [SWNext]_swVars
  PROVE  AskedWhenStarted'
<1>1. ASSUME NEW r \in Requests, NEW t \in Tabs, AskImage(r, t)
      PROVE  AskedWhenStarted'
  BY TabsAssumption, <1>1 DEF AskImage, Accept, SWTypeOK, AskedWhenStarted,
      Await, reqVars, siteVars
<1>2. ASSUME NEW r \in Requests, NEW t \in Tabs, AskAsset(r, t)
      PROVE  AskedWhenStarted'
  BY TabsAssumption, <1>2 DEF AskAsset, Oldest, Accept, Answer, SWTypeOK,
      AskedWhenStarted, Await, reqVars, siteVars
<1>3. ASSUME NEW r \in Requests, ImageArrives(r)
      PROVE  AskedWhenStarted'
  BY TabsAssumption, <1>3 DEF ImageArrives, Finish, Answer, SWTypeOK,
      AskedWhenStarted, Await, reqVars, siteVars
<1>4. ASSUME NEW r \in Requests, ImageFails(r)
      PROVE  AskedWhenStarted'
  BY TabsAssumption, <1>4 DEF ImageFails, ToProxy, SWTypeOK,
      AskedWhenStarted, Await, reqVars, siteVars
<1>5. ASSUME NEW r \in Requests, ImageTimeout(r)
      PROVE  AskedWhenStarted'
  BY TabsAssumption, <1>5 DEF ImageTimeout, ToProxy, SWTypeOK,
      AskedWhenStarted, Await, reqVars, siteVars
<1>6. ASSUME NEW r \in Requests, ProxyAnswers(r)
      PROVE  AskedWhenStarted'
  BY TabsAssumption, <1>6 DEF ProxyAnswers, Finish, Answer, SWTypeOK,
      AskedWhenStarted, Await, reqVars, siteVars
<1>7. ASSUME NEW r \in Requests, AssetArrives(r)
      PROVE  AskedWhenStarted'
  BY TabsAssumption, <1>7 DEF AssetArrives, Received, Answer, SWTypeOK,
      AskedWhenStarted, Await, reqVars, siteVars
<1>8. ASSUME NEW r \in Requests, RefreshArrives(r)
      PROVE  AskedWhenStarted'
  BY TabsAssumption, <1>8 DEF RefreshArrives, Received, SWTypeOK,
      AskedWhenStarted, Await, reqVars, siteVars
<1>9. ASSUME NEW r \in Requests, AssetUnusable(r)
      PROVE  AskedWhenStarted'
  BY TabsAssumption, <1>9 DEF AssetUnusable, Finish, Answer, SWTypeOK,
      AskedWhenStarted, Await, reqVars, siteVars
<1>10. ASSUME NEW r \in Requests, AssetFails(r)
      PROVE  AskedWhenStarted'
  BY TabsAssumption, <1>10 DEF AssetFails, Finish, Answer, SWTypeOK,
      AskedWhenStarted, Await, reqVars, siteVars
<1>11. ASSUME NEW r \in Requests, Put(r)
      PROVE  AskedWhenStarted'
  BY TabsAssumption, <1>11 DEF Put, Finish, SWTypeOK, AskedWhenStarted,
      Await, reqVars, siteVars
<1>12. ASSUME NEW r \in Requests, PutFails(r)
      PROVE  AskedWhenStarted'
  BY TabsAssumption, <1>12 DEF PutFails, Finish, SWTypeOK, AskedWhenStarted,
      Await, reqVars, siteVars
<1>13. ASSUME NEW t \in Tabs, Navigate(t)
      PROVE  AskedWhenStarted'
  <2>1. \A r \in Requests : stage[r] = "idle" => r \notin Aborted
    BY DEF RegisteredWhileAwaited, Aborted, Awaited
  <2>2. \A r \in Requests : stage'[r] = "idle" <=> stage[r] = "idle"
    BY <1>13, <2>1 DEF Navigate, Release
  <2>3. asked' = asked
    BY <1>13 DEF Navigate, Release
  <2> QED
    BY <2>2, <2>3 DEF AskedWhenStarted
<1>14. ASSUME NEW t \in Tabs, NavigationEnds(t)
      PROVE  AskedWhenStarted'
  BY TabsAssumption, <1>14 DEF NavigationEnds, SWTypeOK, AskedWhenStarted,
      Await, reqVars, siteVars
<1>15. ASSUME NEW t \in Tabs, NavigationTimeout(t)
      PROVE  AskedWhenStarted'
  BY TabsAssumption, <1>15 DEF NavigationTimeout, SWTypeOK,
      AskedWhenStarted, Await, reqVars, siteVars
<1>16. CASE Deploy
  BY TabsAssumption, <1>16 DEF Deploy, SWTypeOK, AskedWhenStarted, Await,
      reqVars, siteVars
<1>17. CASE Stop
  BY TabsAssumption, <1>17 DEF Stop, Drop, Unneeded, SWTypeOK,
      AskedWhenStarted, Await, reqVars, siteVars
<1>18. CASE Activate
  BY TabsAssumption, <1>18 DEF Activate, Oldest, Drop, Unneeded, SWTypeOK,
      AskedWhenStarted, Await, reqVars, siteVars
<1>19. CASE HTTPCacheFills
  BY TabsAssumption, <1>19 DEF HTTPCacheFills, SWTypeOK, AskedWhenStarted, Await,
      reqVars, siteVars
<1>20. CASE HTTPCacheExpires
  BY TabsAssumption, <1>20 DEF HTTPCacheExpires, SWTypeOK, AskedWhenStarted, Await,
      reqVars, siteVars
<1>21. CASE UNCHANGED swVars
  BY TabsAssumption, <1>21 DEF swVars, reqVars, siteVars, SWTypeOK,
      AskedWhenStarted, Await, reqVars, siteVars
<1> QED
  BY <1>1, <1>2, <1>3, <1>4, <1>5, <1>6, <1>7, <1>8, <1>9, <1>10, <1>11,
      <1>12, <1>13, <1>14, <1>15, <1>16, <1>17, <1>18, <1>19, <1>20, <1>21
  DEF SWNext, Handle, Visit

\* No path leaves a controller behind, and none takes one out too early.
LEMMA StepRegistered ==
  ASSUME SWTypeOK, AskedWhenStarted, RegisteredWhileAwaited, [SWNext]_swVars
  PROVE  RegisteredWhileAwaited'
<1>1. ASSUME NEW r \in Requests, NEW t \in Tabs, AskImage(r, t)
      PROVE  RegisteredWhileAwaited'
  BY <1>1 DEF AskImage, Accept, SWTypeOK, AskedWhenStarted,
      RegisteredWhileAwaited, Awaited, Await, First, Proxy, reqVars,
      siteVars
<1>2. ASSUME NEW r \in Requests, NEW t \in Tabs, AskAsset(r, t)
      PROVE  RegisteredWhileAwaited'
  BY <1>2 DEF AskAsset, Oldest, Accept, Answer, SWTypeOK, AskedWhenStarted,
      RegisteredWhileAwaited, Awaited, Await, First, Proxy, reqVars,
      siteVars
<1>3. ASSUME NEW r \in Requests, ImageArrives(r)
      PROVE  RegisteredWhileAwaited'
  BY <1>3 DEF ImageArrives, Finish, Answer, SWTypeOK, AskedWhenStarted,
      RegisteredWhileAwaited, Awaited, Await, First, Proxy, reqVars,
      siteVars
<1>4. ASSUME NEW r \in Requests, ImageFails(r)
      PROVE  RegisteredWhileAwaited'
  BY <1>4 DEF ImageFails, ToProxy, SWTypeOK, AskedWhenStarted,
      RegisteredWhileAwaited, Awaited, Await, First, Proxy, reqVars,
      siteVars
<1>5. ASSUME NEW r \in Requests, ImageTimeout(r)
      PROVE  RegisteredWhileAwaited'
  BY <1>5 DEF ImageTimeout, ToProxy, SWTypeOK, AskedWhenStarted,
      RegisteredWhileAwaited, Awaited, Await, First, Proxy, reqVars,
      siteVars
<1>6. ASSUME NEW r \in Requests, ProxyAnswers(r)
      PROVE  RegisteredWhileAwaited'
  BY <1>6 DEF ProxyAnswers, Finish, Answer, SWTypeOK, AskedWhenStarted,
      RegisteredWhileAwaited, Awaited, Await, First, Proxy, reqVars,
      siteVars
<1>7. ASSUME NEW r \in Requests, AssetArrives(r)
      PROVE  RegisteredWhileAwaited'
  BY <1>7 DEF AssetArrives, Received, Answer, SWTypeOK, AskedWhenStarted,
      RegisteredWhileAwaited, Awaited, Await, First, Proxy, reqVars,
      siteVars
<1>8. ASSUME NEW r \in Requests, RefreshArrives(r)
      PROVE  RegisteredWhileAwaited'
  BY <1>8 DEF RefreshArrives, Received, SWTypeOK, AskedWhenStarted,
      RegisteredWhileAwaited, Awaited, Await, First, Proxy, reqVars,
      siteVars
<1>9. ASSUME NEW r \in Requests, AssetUnusable(r)
      PROVE  RegisteredWhileAwaited'
  BY <1>9 DEF AssetUnusable, Finish, Answer, SWTypeOK, AskedWhenStarted,
      RegisteredWhileAwaited, Awaited, Await, First, Proxy, reqVars,
      siteVars
<1>10. ASSUME NEW r \in Requests, AssetFails(r)
      PROVE  RegisteredWhileAwaited'
  BY <1>10 DEF AssetFails, Finish, Answer, SWTypeOK, AskedWhenStarted,
      RegisteredWhileAwaited, Awaited, Await, First, Proxy, reqVars,
      siteVars
<1>11. ASSUME NEW r \in Requests, Put(r)
      PROVE  RegisteredWhileAwaited'
  BY <1>11 DEF Put, Finish, SWTypeOK, AskedWhenStarted,
      RegisteredWhileAwaited, Awaited, Await, First, Proxy, reqVars,
      siteVars
<1>12. ASSUME NEW r \in Requests, PutFails(r)
      PROVE  RegisteredWhileAwaited'
  BY <1>12 DEF PutFails, Finish, SWTypeOK, AskedWhenStarted,
      RegisteredWhileAwaited, Awaited, Await, First, Proxy, reqVars,
      siteVars
<1>13. ASSUME NEW t \in Tabs, Navigate(t)
      PROVE  RegisteredWhileAwaited'
  <2>1. \A r \in Requests : r \notin Aborted => stage[r] \notin Awaited
    BY DEF RegisteredWhileAwaited, Aborted, Awaited
  <2>2. \A r \in Requests : stage'[r] \notin Awaited
    BY <1>13, <2>1 DEF Navigate, Release, Awaited
  <2>3. controllers' = {}
    BY <1>13 DEF Navigate, Release
  <2> QED
    BY <2>2, <2>3 DEF RegisteredWhileAwaited, Awaited
<1>14. ASSUME NEW t \in Tabs, NavigationEnds(t)
      PROVE  RegisteredWhileAwaited'
  BY <1>14 DEF NavigationEnds, SWTypeOK, AskedWhenStarted,
      RegisteredWhileAwaited, Awaited, Await, First, Proxy, reqVars,
      siteVars
<1>15. ASSUME NEW t \in Tabs, NavigationTimeout(t)
      PROVE  RegisteredWhileAwaited'
  BY <1>15 DEF NavigationTimeout, SWTypeOK, AskedWhenStarted,
      RegisteredWhileAwaited, Awaited, Await, First, Proxy, reqVars,
      siteVars
<1>16. CASE Deploy
  BY <1>16 DEF Deploy, SWTypeOK, AskedWhenStarted, RegisteredWhileAwaited,
      Awaited, Await, First, Proxy, reqVars, siteVars
<1>17. CASE Stop
  BY <1>17 DEF Stop, Drop, Unneeded, SWTypeOK, AskedWhenStarted,
      RegisteredWhileAwaited, Awaited, Await, First, Proxy, reqVars,
      siteVars
<1>18. CASE Activate
  BY <1>18 DEF Activate, Oldest, Drop, Unneeded, SWTypeOK, AskedWhenStarted,
      RegisteredWhileAwaited, Awaited, Await, First, Proxy, reqVars,
      siteVars
<1>19. CASE HTTPCacheFills
  BY <1>19 DEF HTTPCacheFills, SWTypeOK, AskedWhenStarted, RegisteredWhileAwaited,
      Awaited, Await, First, Proxy, reqVars, siteVars
<1>20. CASE HTTPCacheExpires
  BY <1>20 DEF HTTPCacheExpires, SWTypeOK, AskedWhenStarted, RegisteredWhileAwaited,
      Awaited, Await, First, Proxy, reqVars, siteVars
<1>21. CASE UNCHANGED swVars
  BY <1>21 DEF swVars, reqVars, siteVars, SWTypeOK, AskedWhenStarted,
      RegisteredWhileAwaited, Awaited, Await, First, Proxy, reqVars,
      siteVars
<1> QED
  BY <1>1, <1>2, <1>3, <1>4, <1>5, <1>6, <1>7, <1>8, <1>9, <1>10, <1>11,
      <1>12, <1>13, <1>14, <1>15, <1>16, <1>17, <1>18, <1>19, <1>20, <1>21
  DEF SWNext, Handle, Visit

\* The controllers are those of the requests whose handlers wait in their try.
LEMMA ControllersExact ==
  SWSpec => [](SWTypeOK /\ AskedWhenStarted /\ RegisteredWhileAwaited)
<1> DEFINE Inv == SWTypeOK /\ AskedWhenStarted /\ RegisteredWhileAwaited
<1>1. SWInit => Inv
  BY InitType DEF SWInit, AskedWhenStarted, RegisteredWhileAwaited, Awaited
<1>2. Inv /\ [SWNext]_swVars => Inv'
  BY StepType, StepAsked, StepRegistered
<1> QED
  BY <1>1, <1>2, PTL DEF SWSpec

(* A navigation ends whatever a handler still waits for, in every tab and by*)
(* whichever path it came to wait.  Of the requests already made only those *)
(* stay that are over, or whose copy from the network is being stored: that *)
(* put is awaited by nobody, and its controller is gone.                    *)
THEOREM NavigationReleases ==
  SWSpec => [][\A t \in Tabs : Navigate(t) =>
                 \A r \in Requests : stage'[r] \in {"idle", "storing", "over"}]_swVars
<1> DEFINE Inv == SWTypeOK /\ AskedWhenStarted /\ RegisteredWhileAwaited
<1>1. ASSUME Inv, NEW t \in Tabs, Navigate(t), NEW r \in Requests
      PROVE  stage'[r] \in {"idle", "storing", "over"}
  <2>1. stage'[r] = IF r \in Aborted THEN "over" ELSE stage[r]
    BY <1>1 DEF Navigate, Release
  <2>2. r \notin Aborted => stage[r] \notin Awaited
    BY <1>1 DEF RegisteredWhileAwaited, Aborted
  <2>3. stage[r] \in Stage
    BY <1>1 DEF SWTypeOK
  <2> QED
    BY <2>1, <2>2, <2>3 DEF Stage, Awaited
<1>2. Inv /\ [SWNext]_swVars =>
        [\A t \in Tabs : Navigate(t) =>
           \A r \in Requests : stage'[r] \in {"idle", "storing", "over"}]_swVars
  BY <1>1
<1> QED
  BY <1>2, ControllersExact, PTL DEF SWSpec
-----------------------------------------------------------------------------

\* A copy that is put, or kept by a cache on its way, was got after the activation.
LEMMA StepFresh ==
  ASSUME SWTypeOK, AskedWhenStarted, FreshBodies, NothingFromBefore, [SWNext]_swVars
  PROVE  (FreshBodies /\ NothingFromBefore)'
<1>1. ASSUME NEW r \in Requests, NEW t \in Tabs, AskImage(r, t)
      PROVE  (FreshBodies /\ NothingFromBefore)'
  BY <1>1 DEF AskImage, Accept, SWTypeOK, AskedWhenStarted, FreshBodies,
      NothingFromBefore, Await, reqVars, siteVars
<1>2. ASSUME NEW r \in Requests, NEW t \in Tabs, AskAsset(r, t)
      PROVE  (FreshBodies /\ NothingFromBefore)'
  BY <1>2 DEF AskAsset, Oldest, Accept, Answer, SWTypeOK, AskedWhenStarted,
      FreshBodies, NothingFromBefore, Await, reqVars, siteVars
<1>3. ASSUME NEW r \in Requests, ImageArrives(r)
      PROVE  (FreshBodies /\ NothingFromBefore)'
  BY <1>3 DEF ImageArrives, Finish, Answer, SWTypeOK, AskedWhenStarted,
      FreshBodies, NothingFromBefore, Await, reqVars, siteVars
<1>4. ASSUME NEW r \in Requests, ImageFails(r)
      PROVE  (FreshBodies /\ NothingFromBefore)'
  BY <1>4 DEF ImageFails, ToProxy, SWTypeOK, AskedWhenStarted, FreshBodies,
      NothingFromBefore, Await, reqVars, siteVars
<1>5. ASSUME NEW r \in Requests, ImageTimeout(r)
      PROVE  (FreshBodies /\ NothingFromBefore)'
  BY <1>5 DEF ImageTimeout, ToProxy, SWTypeOK, AskedWhenStarted,
      FreshBodies, NothingFromBefore, Await, reqVars, siteVars
<1>6. ASSUME NEW r \in Requests, ProxyAnswers(r)
      PROVE  (FreshBodies /\ NothingFromBefore)'
  BY <1>6 DEF ProxyAnswers, Finish, Answer, SWTypeOK, AskedWhenStarted,
      FreshBodies, NothingFromBefore, Await, reqVars, siteVars
<1>7. ASSUME NEW r \in Requests, AssetArrives(r)
      PROVE  (FreshBodies /\ NothingFromBefore)'
  BY <1>7 DEF AssetArrives, Received, Answer, SWTypeOK, AskedWhenStarted,
      FreshBodies, NothingFromBefore, Await, reqVars, siteVars
<1>8. ASSUME NEW r \in Requests, RefreshArrives(r)
      PROVE  (FreshBodies /\ NothingFromBefore)'
  BY <1>8 DEF RefreshArrives, Received, SWTypeOK, AskedWhenStarted,
      FreshBodies, NothingFromBefore, Await, reqVars, siteVars
<1>9. ASSUME NEW r \in Requests, AssetUnusable(r)
      PROVE  (FreshBodies /\ NothingFromBefore)'
  BY <1>9 DEF AssetUnusable, Finish, Answer, SWTypeOK, AskedWhenStarted,
      FreshBodies, NothingFromBefore, Await, reqVars, siteVars
<1>10. ASSUME NEW r \in Requests, AssetFails(r)
      PROVE  (FreshBodies /\ NothingFromBefore)'
  BY <1>10 DEF AssetFails, Finish, Answer, SWTypeOK, AskedWhenStarted,
      FreshBodies, NothingFromBefore, Await, reqVars, siteVars
<1>11. ASSUME NEW r \in Requests, Put(r)
      PROVE  (FreshBodies /\ NothingFromBefore)'
  BY <1>11 DEF Put, Finish, SWTypeOK, AskedWhenStarted, FreshBodies,
      NothingFromBefore, Await, reqVars, siteVars
<1>12. ASSUME NEW r \in Requests, PutFails(r)
      PROVE  (FreshBodies /\ NothingFromBefore)'
  BY <1>12 DEF PutFails, Finish, SWTypeOK, AskedWhenStarted, FreshBodies,
      NothingFromBefore, Await, reqVars, siteVars
<1>13. ASSUME NEW t \in Tabs, Navigate(t)
      PROVE  (FreshBodies /\ NothingFromBefore)'
  BY <1>13 DEF Navigate, Release, Aborted, CodeOf, SWTypeOK,
      AskedWhenStarted, FreshBodies, NothingFromBefore, Await, reqVars,
      siteVars
<1>14. ASSUME NEW t \in Tabs, NavigationEnds(t)
      PROVE  (FreshBodies /\ NothingFromBefore)'
  BY <1>14 DEF NavigationEnds, SWTypeOK, AskedWhenStarted, FreshBodies,
      NothingFromBefore, Await, reqVars, siteVars
<1>15. ASSUME NEW t \in Tabs, NavigationTimeout(t)
      PROVE  (FreshBodies /\ NothingFromBefore)'
  BY <1>15 DEF NavigationTimeout, SWTypeOK, AskedWhenStarted, FreshBodies,
      NothingFromBefore, Await, reqVars, siteVars
<1>16. CASE Deploy
  BY <1>16 DEF Deploy, SWTypeOK, AskedWhenStarted, FreshBodies,
      NothingFromBefore, Await, reqVars, siteVars
<1>17. CASE Stop
  BY <1>17 DEF Stop, Drop, Unneeded, SWTypeOK, AskedWhenStarted,
      FreshBodies, NothingFromBefore, Await, reqVars, siteVars
<1>18. CASE Activate
  BY <1>18 DEF Activate, Oldest, Drop, Unneeded, SWTypeOK, AskedWhenStarted,
      FreshBodies, NothingFromBefore, Await, reqVars, siteVars
<1>19. CASE HTTPCacheFills
  BY <1>19 DEF HTTPCacheFills, SWTypeOK, AskedWhenStarted, FreshBodies,
      NothingFromBefore, Await, reqVars, siteVars
<1>20. CASE HTTPCacheExpires
  BY <1>20 DEF HTTPCacheExpires, SWTypeOK, AskedWhenStarted, FreshBodies,
      NothingFromBefore, Await, reqVars, siteVars
<1>21. CASE UNCHANGED swVars
  BY <1>21 DEF swVars, reqVars, siteVars, SWTypeOK, AskedWhenStarted,
      FreshBodies, NothingFromBefore, Await, reqVars, siteVars
<1> QED
  BY <1>1, <1>2, <1>3, <1>4, <1>5, <1>6, <1>7, <1>8, <1>9, <1>10, <1>11,
      <1>12, <1>13, <1>14, <1>15, <1>16, <1>17, <1>18, <1>19, <1>20, <1>21
  DEF SWNext, Handle, Visit

(* Whatever is refreshed late or out of order, and whatever the HTTP caches *)
(* answer, the cache of the worker in charge holds nothing older than what  *)
(* they and the server had when it was activated.                           *)
THEOREM CacheIsRecent == SWSpec => []NothingFromBefore
<1> DEFINE Inv == SWTypeOK /\ AskedWhenStarted /\ RegisteredWhileAwaited
              /\ FreshBodies /\ NothingFromBefore
<1>1. SWInit => Inv
  BY InitType DEF SWInit, AskedWhenStarted, RegisteredWhileAwaited, Awaited,
      FreshBodies, NothingFromBefore
<1>2. Inv /\ [SWNext]_swVars => Inv'
  BY StepType, StepAsked, StepRegistered, StepFresh
<1>3. Inv => NothingFromBefore
  OBVIOUS
<1> QED
  BY <1>1, <1>2, <1>3, PTL DEF SWSpec
-----------------------------------------------------------------------------
(***************************************************************************)
(* The viewer shows the picture of the page on view, for galleries of any  *)
(* size and any number of lookups ahead.                                   *)
(***************************************************************************)

Link == [img : Nat, nl : Nat]

(* As much of the types as the argument needs.                              *)
Typed ==
  /\ mode \in {"loading", "ready", "open"}
  /\ box \in Seq(Nat) /\ urls \in Seq(Link)
  /\ found \in [Index -> Link \cup {NoSource}]
  /\ reqs \in [Index -> Nat] /\ keyOf \in [Index -> Nat]
  /\ made \in [Index -> Nat]
  /\ index \in Index /\ merging \in Int
  /\ src \in Link \cup {NoSource}
  /\ \A f \in flights : f.at \in Nat /\ f.link \in Link

(* s is what the list has at i.                                             *)
Agrees(i, s) == s.img = urls[i + 1].img

(* Before the viewer is opened: nothing is looked up until the list is      *)
(* there, and then nothing but what it has; an index that is being looked   *)
(* up has its entry in REQS.                                                *)
BeforeOpen ==
  /\ mode = "loading" => /\ flights = {}
                         /\ \A i \in Index : found[i] = NoSource /\ reqs[i] = 0
  /\ mode = "ready" =>
       /\ \A i \in Index : found[i] # NoSource => Agrees(i, found[i])
       /\ \A f \in flights : f.at \in Index => reqs[f.at] # 0 /\ Agrees(f.at, f.link)
       /\ \A f, g \in flights : f.at = g.at => f = g
  /\ mode # "open" => reloading = {} /\ wanted = NoFlight

(* In the viewer: what is known and what is under way agree with the list.  *)
LookupsAgree ==
  mode = "open" /\ ~moved =>
    /\ \A i \in Index : i < Len(urls) /\ found[i] # NoSource => Agrees(i, found[i])
    /\ \A f \in flights : f.at \in Index /\ f.at < Len(urls) => Agrees(f.at, f.link)

(* The page on view is in the list, and no fetch that is to be shown is of  *)
(* another page.                                                            *)
WaitsForPageOnView ==
  mode = "open" =>
    /\ index < Len(urls)
    /\ wanted = NoFlight \/ wanted[1] = index
    /\ ~strayed => \A n \in reloading : n[1] = index

ReaderInv ==
  Typed /\ BeforeOpen /\ LookupsAgree /\ WaitsForPageOnView /\ ShowsPageOnView
-----------------------------------------------------------------------------
\* The links of a page are numbers.
LEMMA PageLinksType == \A p \in Nat : PageLinks(p) \in Seq(Nat)
<1> SUFFICES ASSUME NEW p \in Nat PROVE PageLinks(p) \in Seq(Nat)
  OBVIOUS
<1>1. PerPage \in Nat
  BY GalleryAssumption
<1>2. \A k \in 1 .. PerPage : p * PerPage + k - 1 \in Nat
  BY <1>1
<1> QED
  BY <1>1, <1>2 DEF PageLinks

\* A list of links is as long as the list of pictures, in the same order.
LEMMA LinksType ==
  ASSUME NEW p \in Seq(Nat)
  PROVE  /\ Links(p) \in Seq(Link) /\ Len(Links(p)) = Len(p)
         /\ \A i \in Nat : i < Len(p) => Links(p)[i + 1] = [img |-> p[i + 1], nl |-> 0]
<1>1. DOMAIN p = 1 .. Len(p) /\ Len(p) \in Nat
  OBVIOUS
<1>2. \A k \in 1 .. Len(p) : [img |-> p[k], nl |-> 0] \in Link
  BY DEF Link
<1>3. Links(p) = [k \in 1 .. Len(p) |-> [img |-> p[k], nl |-> 0]]
  BY <1>1 DEF Links
<1>4. Links(p) \in [1 .. Len(p) -> Link]
  BY <1>2, <1>3
<1>5. Links(p) \in Seq(Link) /\ Len(Links(p)) = Len(p)
  BY <1>1, <1>4
<1>6. \A i \in Nat : i < Len(p) => i + 1 \in 1 .. Len(p)
  BY <1>1
<1> QED
  BY <1>3, <1>5, <1>6

\* There is a first picture.
LEMMA FirstIndex == 0 \in Index
BY GalleryAssumption DEF Index

\* The invariant holds at the start.
LEMMA InitReader == ReaderInit => ReaderInv
<1> SUFFICES ASSUME ReaderInit PROVE ReaderInv
  OBVIOUS
<1>1. box \in Seq(Nat)
  BY PageLinksType, GalleryAssumption DEF ReaderInit
<1>2. Typed
  BY <1>1, FirstIndex DEF ReaderInit, Typed, Idle
<1>3. BeforeOpen
  BY DEF ReaderInit, BeforeOpen
<1> QED
  BY <1>2, <1>3 DEF ReaderInit, ReaderInv, LookupsAgree, WaitsForPageOnView,
      ShowsPageOnView
-----------------------------------------------------------------------------
\* gscript's steps change the container, and nothing the reader has read.
LEMMA StepMerge ==
  ASSUME ReaderInv, Rebuild \/ PageMerged \/ PageSkipped
  PROVE  ReaderInv'
<1>1. box' \in Seq(Nat) /\ merging' \in Int
  <2>1. CASE Rebuild
    BY <2>1 DEF Rebuild
  <2>2. CASE PageMerged
    <3>1. merging \in Nat /\ PageLinks(merging) \in Seq(Nat)
      BY <2>2, PageLinksType DEF PageMerged
    <3> QED
      BY <2>2, <3>1 DEF PageMerged, ReaderInv, Typed
  <2>3. CASE PageSkipped
    BY <2>3 DEF PageSkipped, ReaderInv, Typed
  <2> QED
    BY <2>1, <2>2, <2>3
<1>2. UNCHANGED <<mode, urls, lookupVars, viewVars, moved, strayed>>
  BY DEF Rebuild, PageMerged, PageSkipped
<1> QED
  BY <1>1, <1>2 DEF ReaderInv, Typed, BeforeOpen, LookupsAgree, Agrees,
      WaitsForPageOnView, ShowsPageOnView, lookupVars, viewVars

\* What Fetch keeps: the types of the variables it changes.
LEMMA FetchTypes ==
  ASSUME Typed, NEW S \in SUBSET Nat, NEW list \in Seq(Link),
         \A i \in S : i < Len(list),
         NEW q \in [Index -> Nat], Fetch(S, list, q)
  PROVE  /\ reqs' \in [Index -> Nat] /\ made' \in [Index -> Nat]
         /\ \A f \in flights' : f.at \in Nat /\ f.link \in Link
         /\ \A f \in flights' : f \in flights \/ f.link = list[f.at + 1]
<1>1. \A i \in Index : made[i] + 1 \in Nat /\ made[i] \in Nat /\ q[i] \in Nat
  BY DEF Typed
<1>2. reqs' \in [Index -> Nat] /\ made' \in [Index -> Nat]
  BY <1>1 DEF Fetch
<1>3. \A i \in S : list[i + 1] \in Link
  <2> SUFFICES ASSUME NEW i \in S PROVE list[i + 1] \in Link
    OBVIOUS
  <2>1. i + 1 \in 1 .. Len(list)
    OBVIOUS
  <2> QED
    BY <2>1
<1>4. \A f \in flights' : \/ f \in flights
                          \/ \E i \in S : f.at = i /\ f.link = list[i + 1]
  BY DEF Fetch
<1> QED
  BY <1>2, <1>3, <1>4 DEF Typed

\* The first list is read, and the first lookups are made from it.
LEMMA StepBoot == ASSUME ReaderInv, Boot PROVE ReaderInv'
<1> DEFINE list == Links(box)
           S == Missing({i \in 1 .. Ahead : i < Len(box)})
<1>1. list \in Seq(Link) /\ Len(list) = Len(box)
  BY LinksType DEF ReaderInv, Typed
<1>2. S \in SUBSET Nat /\ \A i \in S : i < Len(list)
  BY <1>1, AheadAssumption DEF Missing
<1>3. Fetch(S, list, reqs) /\ urls' = list /\ mode' = "ready" /\ mode = "loading"
      /\ UNCHANGED <<mergeVars, found, keyOf, viewVars, moved, strayed>>
  BY DEF Boot
<1>4. Typed'
  BY <1>1, <1>2, <1>3, FetchTypes DEF ReaderInv, Typed, mergeVars, viewVars
<1>5. \A f \in flights' : \E i \in S : f = [at |-> i, no |-> made[i] + 1, link |-> list[i + 1]]
  BY <1>3 DEF Fetch, ReaderInv, BeforeOpen
<1>6. \A f \in flights' : f.at \in Index => reqs'[f.at] # 0 /\ f.link.img = list[f.at + 1].img
  <2> SUFFICES ASSUME NEW f \in flights', f.at \in Index
               PROVE  reqs'[f.at] # 0 /\ f.link.img = list[f.at + 1].img
    OBVIOUS
  <2>1. f.at \in S /\ f.link = list[f.at + 1]
    BY <1>5
  <2>2. reqs'[f.at] = made[f.at] + 1
    BY <1>3, <2>1 DEF Fetch
  <2>3. made[f.at] \in Nat
    BY DEF ReaderInv, Typed
  <2> QED
    BY <2>1, <2>2, <2>3
<1>7. BeforeOpen'
  BY <1>3, <1>5, <1>6 DEF ReaderInv, BeforeOpen, Agrees, viewVars
<1> QED
  BY <1>3, <1>4, <1>7 DEF ReaderInv, LookupsAgree, WaitsForPageOnView,
      ShowsPageOnView
-----------------------------------------------------------------------------
\* A page comes into view: its picture if it is known, or the wait for it.
LEMMA ViewShows ==
  ASSUME Typed, NEW list \in Seq(Link), NEW i \in Index, i < Len(list),
         View(i, list)
  PROVE  /\ reqs' \in [Index -> Nat] /\ made' \in [Index -> Nat]
         /\ \A f \in flights' : f.at \in Nat /\ f.link \in Link
         /\ \A f \in flights' : \/ f \in flights
                                \/ f.link = list[f.at + 1]
         /\ index' = i /\ src' = found[i]
         /\ wanted' = NoFlight \/ wanted'[1] = i
<1> DEFINE S == Missing({j \in i .. i + Ahead : j < Len(list)})
<1>1. S \in SUBSET Nat /\ \A j \in S : j < Len(list)
  BY AheadAssumption DEF Missing, Index
<1>2. Fetch(S, list, reqs) /\ index' = i /\ src' = found[i]
  BY DEF View
<1>3. reqs \in [Index -> Nat]
  BY DEF Typed
<1>4. /\ reqs' \in [Index -> Nat] /\ made' \in [Index -> Nat]
      /\ \A f \in flights' : f.at \in Nat /\ f.link \in Link
      /\ \A f \in flights' : f \in flights \/ f.link = list[f.at + 1]
  BY <1>1, <1>2, <1>3, FetchTypes
<1>6. wanted' = NoFlight \/ wanted'[1] = i
  BY DEF View
<1> QED
  BY <1>2, <1>4, <1>6

\* The viewer is opened on the links that are there now.
LEMMA StepOpen == ASSUME ReaderInv, Open PROVE ReaderInv'
<1> DEFINE list == Links(box)
<1>1. /\ list \in Seq(Link) /\ Len(list) = Len(box)
      /\ \A i \in Nat : i < Len(box) => list[i + 1] = [img |-> box[i + 1], nl |-> 0]
  BY LinksType DEF ReaderInv, Typed
<1>2. 0 < Len(list)
  BY <1>1 DEF Open, ReaderInv, Typed
<1>3. /\ View(0, list) /\ urls' = list /\ mode' = "open" /\ mode = "ready"
      /\ UNCHANGED <<mergeVars, found, keyOf, reloading, strayed>>
  BY DEF Open
<1>4. /\ reqs' \in [Index -> Nat] /\ made' \in [Index -> Nat]
      /\ \A f \in flights' : f.at \in Nat /\ f.link \in Link
      /\ \A f \in flights' : f \in flights \/ f.link = list[f.at + 1]
      /\ index' = 0 /\ src' = found[0]
      /\ wanted' = NoFlight \/ wanted'[1] = 0
  BY <1>1, <1>2, <1>3, FirstIndex, ViewShows DEF ReaderInv
<1>5. Typed'
  BY <1>1, <1>3, <1>4, FirstIndex DEF ReaderInv, Typed, mergeVars
<1>6. BeforeOpen' /\ WaitsForPageOnView'
  BY <1>2, <1>3, <1>4 DEF ReaderInv, BeforeOpen, WaitsForPageOnView
<1>7. ~moved' => \A i \in Index :
        (found[i] # NoSource \/ reqs[i] # 0) /\ i < Len(list) => urls[i + 1].img = list[i + 1].img
  <2> SUFFICES ASSUME ~moved', NEW i \in Index,
                      found[i] # NoSource \/ reqs[i] # 0, i < Len(list)
               PROVE  urls[i + 1].img = list[i + 1].img
    OBVIOUS
  <2>1. ~(\E j \in Index : /\ found[j] # NoSource \/ reqs[j] # 0
                           /\ j < Len(box) /\ urls[j + 1].img # box[j + 1])
    BY ZenonT(30) DEF Open
  <2>2. urls[i + 1].img = box[i + 1]
    BY <1>1, <2>1
  <2>3. i \in Nat /\ i < Len(box)
    BY <1>1 DEF Index
  <2>4. list[i + 1] = [img |-> box[i + 1], nl |-> 0]
    BY <1>1, <2>3
  <2> HIDE DEF list
  <2> QED
    BY <2>2, <2>4
<1>8. LookupsAgree'
  <2> SUFFICES ASSUME ~moved' PROVE LookupsAgree'
    BY DEF LookupsAgree
  <2>1. \A i \in Index : i < Len(list) /\ found[i] # NoSource => found[i].img = list[i + 1].img
    BY <1>3, <1>7 DEF ReaderInv, BeforeOpen, Agrees
  <2>2. \A f \in flights : f.at \in Index /\ f.at < Len(list) => f.link.img = list[f.at + 1].img
    BY <1>3, <1>7 DEF ReaderInv, BeforeOpen, Agrees
  <2> QED
    BY <1>3, <1>4, <2>1, <2>2 DEF LookupsAgree, Agrees
<1>9. ShowsPageOnView'
  BY <1>2, <1>3, <1>4, <1>8, FirstIndex DEF LookupsAgree, Agrees, ShowsPageOnView
<1> QED
  BY <1>5, <1>6, <1>8, <1>9 DEF ReaderInv

\* The page is turned; a reload that is under way makes it stray.
LEMMA StepTurn == ASSUME ReaderInv, NEW i \in Index, Turn(i) PROVE ReaderInv'
<1>1. /\ View(i, urls) /\ i < Len(urls) /\ mode = "open"
      /\ strayed' = (strayed \/ reloading # {})
      /\ UNCHANGED <<mergeVars, mode, urls, found, keyOf, reloading, moved>>
  BY DEF Turn, ReaderInv, Typed
<1>2. /\ reqs' \in [Index -> Nat] /\ made' \in [Index -> Nat]
      /\ \A f \in flights' : f.at \in Nat /\ f.link \in Link
      /\ \A f \in flights' : f \in flights \/ f.link = urls[f.at + 1]
      /\ index' = i /\ src' = found[i]
      /\ wanted' = NoFlight \/ wanted'[1] = i
  BY <1>1, ViewShows DEF ReaderInv, Typed
<1>3. Typed'
  BY <1>1, <1>2 DEF ReaderInv, Typed, mergeVars
<1>4. BeforeOpen' /\ WaitsForPageOnView'
  BY <1>1, <1>2 DEF ReaderInv, BeforeOpen, WaitsForPageOnView
<1>5. LookupsAgree'
  BY <1>1, <1>2 DEF ReaderInv, LookupsAgree, Agrees
<1>6. ShowsPageOnView'
  BY <1>1, <1>2, <1>5 DEF LookupsAgree, Agrees, ShowsPageOnView
<1> QED
  BY <1>3, <1>4, <1>5, <1>6 DEF ReaderInv

\* A lookup is answered, with the picture of its link or without one.
LEMMA StepArrives ==
  ASSUME ReaderInv, NEW f \in flights, NEW s \in {f.link, NoSource},
         NEW key \in Nat, Arrives(f, s, key)
  PROVE  ReaderInv'
<1>1. f.at \in Nat /\ f.link \in Link /\ s \in Link \cup {NoSource}
  BY DEF ReaderInv, Typed
<1>2. /\ found' = IF s = NoSource THEN found ELSE [found EXCEPT ![f.at] = s]
      /\ reqs' = [reqs EXCEPT ![f.at] = 0]
      /\ flights' = flights \ {f}
      /\ reloading' = reloading \ {Name(f)}
      /\ wanted' = IF wanted = Name(f) THEN NoFlight ELSE wanted
      /\ src' = IF Name(f) \in reloading \cup {wanted} THEN s ELSE src
      /\ UNCHANGED <<mergeVars, mode, urls, made, index, moved, strayed>>
  BY DEF Arrives
<1>3. keyOf' \in [Index -> Nat]
  BY DEF Arrives, ReaderInv, Typed
<1>4. found' \in [Index -> Link \cup {NoSource}] /\ reqs' \in [Index -> Nat]
  BY <1>1, <1>2 DEF ReaderInv, Typed
<1>5. Typed'
  BY <1>1, <1>2, <1>3, <1>4 DEF ReaderInv, Typed, mergeVars
<1>6. \A i \in Index : found'[i] = found[i] \/ (i = f.at /\ found'[i] = f.link)
  BY <1>2 DEF ReaderInv, Typed
<1>7. BeforeOpen'
  <2>1. CASE mode = "loading"
    BY <2>1 DEF ReaderInv, BeforeOpen
  <2>2. CASE mode = "ready"
    <3>1. \A g \in flights' : g \in flights /\ g.at # f.at
      BY <1>2, <2>2 DEF ReaderInv, BeforeOpen
    <3>2. \A g \in flights' : g.at \in Index => reqs'[g.at] # 0
      BY <1>2, <2>2, <3>1 DEF ReaderInv, Typed, BeforeOpen
    <3>3. \A i \in Index : found'[i] # NoSource => found'[i].img = urls[i + 1].img
      BY <1>6, <2>2 DEF ReaderInv, BeforeOpen, Agrees
    <3>4. reloading' = {} /\ wanted' = NoFlight
      BY <1>2, <2>2 DEF ReaderInv, BeforeOpen
    <3> QED
      BY <1>2, <2>2, <3>1, <3>2, <3>3, <3>4 DEF ReaderInv, BeforeOpen, Agrees
  <2>3. CASE mode = "open"
    BY <1>2, <2>3 DEF BeforeOpen
  <2> QED
    BY <2>1, <2>2, <2>3 DEF ReaderInv, Typed
<1>8. LookupsAgree'
  BY <1>1, <1>2, <1>6 DEF ReaderInv, LookupsAgree, Agrees
<1>9. WaitsForPageOnView'
  BY <1>2 DEF ReaderInv, WaitsForPageOnView
<1>10. ShowsPageOnView'
  <2> SUFFICES ASSUME mode = "open", src' # NoSource, ~moved, ~strayed
               PROVE  src'.img = urls[index + 1].img
    BY <1>2 DEF ShowsPageOnView
  <2>1. CASE Name(f) \in reloading \cup {wanted}
    <3>1. Name(f)[1] = f.at /\ Name(f) # NoFlight
      BY <1>1 DEF Name, NoFlight
    <3>2. f.at = index /\ index < Len(urls)
      BY <2>1, <3>1 DEF ReaderInv, WaitsForPageOnView
    <3>3. src' = f.link
      BY <1>2, <2>1
    <3> QED
      BY <3>2, <3>3 DEF ReaderInv, Typed, LookupsAgree, Agrees
  <2>2. CASE Name(f) \notin reloading \cup {wanted}
    BY <1>2, <2>2 DEF ReaderInv, ShowsPageOnView
  <2> QED
    BY <2>1, <2>2
<1> QED
  BY <1>5, <1>7, <1>8, <1>9, <1>10 DEF ReaderInv

\* A reload changes the address at the page on view, not its picture.
LEMMA StepReload == ASSUME ReaderInv, Reload PROVE ReaderInv'
<1> DEFINE q == [reqs EXCEPT ![index] = 0]
<1>1. /\ mode = "open" /\ Fetch({index}, urls', q)
      /\ urls' = [urls EXCEPT ![index + 1].nl = keyOf[index]]
      /\ found' = [found EXCEPT ![index] = NoSource]
      /\ reloading' = reloading \cup {<<index, made[index] + 1>>}
      /\ src' = NoSource
      /\ UNCHANGED <<mergeVars, mode, keyOf, index, wanted, moved, strayed>>
  BY DEF Reload
<1>2. index \in Nat /\ index < Len(urls) /\ keyOf[index] \in Nat
  BY <1>1 DEF ReaderInv, Typed, WaitsForPageOnView, Index
<1>3. /\ urls' \in Seq(Link) /\ Len(urls') = Len(urls)
      /\ \A i \in Nat : i < Len(urls) => urls'[i + 1].img = urls[i + 1].img
  <2>1. urls \in Seq(Link) /\ index + 1 \in 1 .. Len(urls)
    BY <1>2 DEF ReaderInv, Typed
  <2>2. urls[index + 1] \in Link
    BY <2>1
  <2>3. urls' = [urls EXCEPT ![index + 1] = [urls[index + 1] EXCEPT !.nl = keyOf[index]]]
    BY <1>1
  <2>4. [urls[index + 1] EXCEPT !.nl = keyOf[index]]
          = [img |-> urls[index + 1].img, nl |-> keyOf[index]]
    BY <2>2 DEF Link
  <2>5. [img |-> urls[index + 1].img, nl |-> keyOf[index]] \in Link
    BY <1>2, <2>2 DEF Link
  <2>6. urls' \in Seq(Link) /\ Len(urls') = Len(urls)
    BY <2>1, <2>3, <2>4, <2>5
  <2>7. \A i \in Nat : i < Len(urls) => urls'[i + 1].img = urls[i + 1].img
    BY <2>1, <2>3, <2>4
  <2> QED
    BY <2>6, <2>7
<1>4. q \in [Index -> Nat] /\ found' \in [Index -> Link \cup {NoSource}]
  BY <1>1 DEF ReaderInv, Typed
<1>5. /\ reqs' \in [Index -> Nat] /\ made' \in [Index -> Nat]
      /\ \A f \in flights' : f.at \in Nat /\ f.link \in Link
  <2>1. {index} \in SUBSET Nat /\ \A i \in {index} : i < Len(urls')
    BY <1>2, <1>3
  <2> QED
    BY <1>1, <1>3, <1>4, <2>1, FetchTypes DEF ReaderInv
<1>6. Typed'
  BY <1>1, <1>3, <1>4, <1>5 DEF ReaderInv, Typed, mergeVars
<1>7. \A f \in flights' : f \in flights \/ f.link = urls'[f.at + 1]
  BY <1>1 DEF Fetch
<1>8. BeforeOpen' /\ WaitsForPageOnView'
  BY <1>1, <1>3 DEF ReaderInv, BeforeOpen, WaitsForPageOnView
<1>9. \A i \in Index : found'[i] # NoSource => found'[i] = found[i]
  BY <1>1 DEF ReaderInv, Typed
<1>10. LookupsAgree'
  <2> SUFFICES ASSUME ~moved PROVE LookupsAgree'
    BY <1>1 DEF LookupsAgree
  <2>1. \A i \in Index : i < Len(urls) /\ found'[i] # NoSource => found'[i].img = urls'[i + 1].img
    BY <1>1, <1>3, <1>9 DEF ReaderInv, LookupsAgree, Agrees, Index
  <2>2. \A f \in flights' : f.at \in Index /\ f.at < Len(urls) => f.link.img = urls'[f.at + 1].img
    BY <1>1, <1>3, <1>5, <1>7 DEF ReaderInv, LookupsAgree, Agrees
  <2> QED
    BY <1>3, <2>1, <2>2 DEF LookupsAgree, Agrees
<1> QED
  BY <1>1, <1>6, <1>8, <1>10 DEF ReaderInv, ShowsPageOnView
-----------------------------------------------------------------------------
(* What the viewer shows is the picture its list has at the page on view,   *)
(* however late a lookup of another page is answered, unless the list was   *)
(* another one when the lookups were made, or a page was turned while a     *)
(* reload was under way.                                                    *)
THEOREM ViewerShowsItsPage == ReaderSpec => []ShowsPageOnView
<1>1. ReaderInit => ReaderInv
  BY InitReader
<1>2. ReaderInv /\ [ReaderNext]_readerVars => ReaderInv'
  <2> SUFFICES ASSUME ReaderInv, [ReaderNext]_readerVars PROVE ReaderInv'
    OBVIOUS
  <2>1. CASE Rebuild \/ PageMerged \/ PageSkipped
    BY <2>1, StepMerge
  <2>2. CASE Boot
    BY <2>2, StepBoot
  <2>3. CASE Open
    BY <2>3, StepOpen
  <2>4. CASE PictureFails
    BY <2>4 DEF PictureFails, ReaderInv, Typed, BeforeOpen, LookupsAgree,
        Agrees, WaitsForPageOnView, ShowsPageOnView, mergeVars, lookupVars
  <2>5. CASE Reload
    BY <2>5, StepReload
  <2>6. ASSUME NEW i \in Index, Turn(i) PROVE ReaderInv'
    BY <2>6, StepTurn
  <2>7. ASSUME NEW f \in flights, FetchOk(f) \/ NoPicture(f) \/ FetchFails(f)
        PROVE  ReaderInv'
    <3>1. f.link.nl + 1 \in Nat
      BY DEF ReaderInv, Typed, Link
    <3> QED
      BY <2>7, <3>1, StepArrives DEF FetchOk, NoPicture, FetchFails
  <2>8. CASE UNCHANGED readerVars
    BY <2>8 DEF readerVars, mergeVars, lookupVars, viewVars, userVars, ReaderInv,
        Typed, BeforeOpen, LookupsAgree, Agrees, WaitsForPageOnView, ShowsPageOnView
  <2> QED
    BY <2>1, <2>2, <2>3, <2>4, <2>5, <2>6, <2>7, <2>8 DEF ReaderNext
<1>3. ReaderInv => ShowsPageOnView
  BY DEF ReaderInv
<1> QED
  BY <1>1, <1>2, <1>3, PTL DEF ReaderSpec
-----------------------------------------------------------------------------
(***************************************************************************)
(* The reader's variables keep their types.  That every index it looks up  *)
(* is one of the gallery's, and that no key asks for more attempts than    *)
(* were made, needs bounds on what gscript and the reloads produce; that   *)
(* the page on view waits for a fetch which is under way needs the same of *)
(* every fetch that REQS shares.                                           *)
(***************************************************************************)

Size == Pages * PerPage
(* n names one of the fetches fs.                                           *)
UnderWay(n, fs) == \E f \in fs : Name(f) = n

(* gscript has appended no more links than the pages it has merged hold.    *)
ListsFit ==
  /\ merging = Idle => Len(box) <= PerPage
  /\ merging # Idle => Len(box) <= merging * PerPage
  /\ Len(urls) <= Size
  /\ mode = "open" => index < Len(urls)

(* No address and no key is of a later attempt than the reloads allow.      *)
AttemptsCounted ==
  /\ reloads \in 0 .. MaxReloads
  /\ \A k \in 1 .. Len(urls) : urls[k].nl <= reloads
  /\ \A f \in flights : f.link.nl <= reloads
  /\ \A i \in Index : keyOf[i] <= reloads + 1

(* Whoever finds an entry in REQS shares a fetch that is under way.         *)
SharedUnderWay == \A i \in Index : reqs[i] # 0 => UnderWay(<<i, reqs[i]>>, flights)

ShapeInv == ReaderTypeOK /\ ListsFit /\ AttemptsCounted /\ SharedUnderWay

\* The sizes, and that a page holds no more links than fit.
LEMMA Sizes ==
  /\ Pages \in Nat /\ PerPage \in Nat /\ Size \in Nat
  /\ Index = 0 .. Size - 1 /\ PerPage <= Size
  /\ \A m \in 0 .. Pages - 1 : /\ m * PerPage \in Nat /\ m * PerPage + PerPage <= Size
                               /\ (m + 1) * PerPage = m * PerPage + PerPage
<1>1. Pages \in Nat /\ PerPage \in Nat /\ Pages >= 1
  BY GalleryAssumption
<1>2. ASSUME NEW a \in Nat, NEW b \in Nat, NEW m \in Nat, m < a
      PROVE  /\ m * b \in Nat /\ a * b \in Nat
             /\ (m + 1) * b = m * b + b /\ m * b + b <= a * b
  BY <1>2
<1>3. \A m \in 0 .. Pages - 1 : /\ m * PerPage \in Nat /\ m * PerPage + PerPage <= Size
                                /\ (m + 1) * PerPage = m * PerPage + PerPage
  BY <1>1, <1>2 DEF Size
<1>4. Size \in Nat /\ PerPage <= Size
  BY <1>1, <1>2 DEF Size
<1> QED
  BY <1>1, <1>3, <1>4 DEF Size, Index

\* A page of links: PerPage pictures of the gallery.
LEMMA PageFits ==
  ASSUME NEW m \in 0 .. Pages - 1
  PROVE  PageLinks(m) \in Seq(Index) /\ Len(PageLinks(m)) = PerPage
<1>1. \A k \in 1 .. PerPage : m * PerPage + k - 1 \in Index
  BY Sizes
<1>2. PageLinks(m) \in [1 .. PerPage -> Index]
  BY <1>1 DEF PageLinks
<1> QED
  BY <1>2, Sizes

\* Two sequences put together.
LEMMA Joined ==
  ASSUME NEW S, NEW s \in Seq(S), NEW t \in Seq(S)
  PROVE  s \o t \in Seq(S) /\ Len(s \o t) = Len(s) + Len(t)
OBVIOUS

\* The list the reader takes from the container.
LEMMA ListFits ==
  ASSUME ReaderTypeOK, ListsFit
  PROVE  /\ Links(box) \in Seq(Source) /\ Len(Links(box)) = Len(box)
         /\ Len(box) <= Size
         /\ \A k \in 1 .. Len(box) : Links(box)[k].nl = 0
<1>1. DOMAIN box = 1 .. Len(box) /\ Len(box) \in Nat
  BY DEF ReaderTypeOK
<1>2. \A k \in 1 .. Len(box) : [img |-> box[k], nl |-> 0] \in Source
  BY AheadAssumption DEF ReaderTypeOK, Source
<1>3. Links(box) = [k \in 1 .. Len(box) |-> [img |-> box[k], nl |-> 0]]
  BY <1>1 DEF Links
<1>4. Links(box) \in [1 .. Len(box) -> Source]
  BY <1>2, <1>3
<1>5. Len(box) <= Size
  <2>1. CASE merging = Idle
    BY <1>1, <2>1, Sizes DEF ListsFit
  <2>2. CASE merging # Idle
    <3>1. merging \in 0 .. Pages /\ Len(box) <= merging * PerPage
      BY <2>2 DEF ReaderTypeOK, ListsFit, Idle
    <3>2. merging * PerPage <= Size
      <4>1. CASE merging = Pages
        BY <4>1, Sizes DEF Size
      <4>2. CASE merging # Pages
        <5>1. merging \in 0 .. Pages - 1
          BY <3>1, <4>2, Sizes
        <5> QED
          BY <5>1, Sizes
      <4> QED
        BY <4>1, <4>2
    <3>3. merging * PerPage \in Int
      BY <3>1, Sizes
    <3> QED
      BY <1>1, <3>1, <3>2, <3>3, Sizes
  <2> QED
    BY <2>1, <2>2
<1>6. \A k \in 1 .. Len(box) : Links(box)[k].nl = 0
  BY <1>3
<1> QED
  BY <1>1, <1>4, <1>5, <1>6

\* The invariant holds at the start.
LEMMA InitShape == ReaderInit => ShapeInv
<1> SUFFICES ASSUME ReaderInit PROVE ShapeInv
  OBVIOUS
<1>1. PICK p \in 0 .. Pages - 1 : box = PageLinks(p)
  BY DEF ReaderInit
<1>2. box \in Seq(Index) /\ Len(box) = PerPage
  BY <1>1, PageFits
<1>3. ReaderTypeOK
  BY <1>2, FirstIndex, Sizes DEF ReaderInit, ReaderTypeOK, Idle
<1>4. ListsFit
  BY <1>2, Sizes DEF ReaderInit, ListsFit
<1>5. AttemptsCounted
  BY AheadAssumption DEF ReaderInit, AttemptsCounted
<1>6. SharedUnderWay
  BY DEF ReaderInit, SharedUnderWay
<1> QED
  BY <1>3, <1>4, <1>5, <1>6 DEF ShapeInv

\* gscript's steps: the container grows by a page at a time.
LEMMA ShapeMerge ==
  ASSUME ShapeInv, Rebuild \/ PageMerged \/ PageSkipped
  PROVE  ShapeInv'
<1>1. /\ merging' \in Idle .. Pages /\ box' \in Seq(Index)
      /\ merging' # Idle /\ Len(box') <= merging' * PerPage
  <2>1. CASE Rebuild
    <3>1. merging' = 0 /\ box' = <<>>
      BY <2>1 DEF Rebuild
    <3> QED
      BY <3>1, Sizes DEF Idle
  <2>2. ASSUME PageMerged \/ PageSkipped
        PROVE  /\ merging \in 0 .. Pages - 1 /\ merging' = merging + 1
               /\ box \in Seq(Index) /\ Len(box) <= merging * PerPage
               /\ box' = box \/ box' = box \o PageLinks(merging)
    BY <2>2 DEF PageMerged, PageSkipped, ShapeInv, ReaderTypeOK, ListsFit, Idle
  <2>3. CASE PageMerged \/ PageSkipped
    <3>1. box' \in Seq(Index) /\ Len(box') <= Len(box) + PerPage
          /\ Len(box) \in Nat /\ Len(box') \in Nat
      <4>1. /\ box \in Seq(Index) /\ PageLinks(merging) \in Seq(Index)
            /\ Len(PageLinks(merging)) = PerPage /\ PerPage \in Nat
        BY <2>2, <2>3, PageFits, Sizes
      <4>2. box' = box \/ box' = box \o PageLinks(merging)
        BY <2>2, <2>3
      <4>3. Len(box) \in Nat /\ box \o PageLinks(merging) \in Seq(Index)
            /\ Len(box \o PageLinks(merging)) = Len(box) + PerPage
        BY <4>1, Joined
      <4>4. CASE box' = box
        BY <4>1, <4>3, <4>4
      <4>5. CASE box' = box \o PageLinks(merging)
        BY <4>1, <4>3, <4>5
      <4> QED
        BY <4>2, <4>4, <4>5
    <3>2. merging' * PerPage = merging * PerPage + PerPage /\ merging * PerPage \in Nat
      BY <2>2, <2>3, Sizes
    <3>3. Len(box') <= merging' * PerPage
      BY <2>2, <2>3, <3>1, <3>2, Sizes
    <3> QED
      BY <2>2, <2>3, <3>1, <3>3, Sizes DEF Idle
  <2> QED
    BY <2>1, <2>3
<1>2. UNCHANGED <<mode, urls, lookupVars, viewVars, userVars, moved, strayed>>
  BY DEF Rebuild, PageMerged, PageSkipped
<1>3. ReaderTypeOK'
  BY <1>1, <1>2 DEF ShapeInv, ReaderTypeOK, lookupVars, viewVars
<1> QED
  BY <1>1, <1>2, <1>3 DEF ShapeInv, ListsFit, AttemptsCounted, SharedUnderWay,
      UnderWay, lookupVars, viewVars, userVars

\* What looking up the pictures of S in list keeps, and what it adds.
LEMMA FetchShape ==
  ASSUME ReaderTypeOK, NEW S \in SUBSET Index, NEW list \in Seq(Source),
         \A i \in S : i < Len(list),
         NEW q \in [Index -> Nat],
         \A i \in Index \ S : q[i] # 0 => UnderWay(<<i, q[i]>>, flights),
         Fetch(S, list, q)
  PROVE  /\ reqs' \in [Index -> Nat] /\ made' \in [Index -> Nat]
         /\ flights \subseteq flights'
         /\ \A f \in flights' : f.at \in Index /\ f.no \in 1 .. made'[f.at] /\ f.link \in Source
         /\ \A f \in flights' : f \in flights \/ \E k \in 1 .. Len(list) : f.link = list[k]
         /\ SharedUnderWay'
         /\ \A i \in S : UnderWay(<<i, made[i] + 1>>, flights')
<1>1. \A i \in Index : made[i] \in Nat
  BY DEF ReaderTypeOK
<1>2. /\ reqs' = [i \in Index |-> IF i \in S THEN made[i] + 1 ELSE q[i]]
      /\ made' = [i \in Index |-> IF i \in S THEN made[i] + 1 ELSE made[i]]
      /\ flights' = flights \cup {[at |-> i, no |-> made[i] + 1, link |-> list[i + 1]] : i \in S}
  BY DEF Fetch
<1>3. reqs' \in [Index -> Nat] /\ made' \in [Index -> Nat]
  BY <1>1, <1>2
<1>4. \A i \in S : i + 1 \in 1 .. Len(list) /\ list[i + 1] \in Source
  <2> SUFFICES ASSUME NEW i \in S PROVE i + 1 \in 1 .. Len(list) /\ list[i + 1] \in Source
    OBVIOUS
  <2>1. i \in Nat /\ Len(list) \in Nat
    BY Sizes
  <2>2. i + 1 \in 1 .. Len(list)
    BY <2>1
  <2> QED
    BY <2>2
<1>5. ASSUME NEW f \in flights'
      PROVE  /\ f.at \in Index /\ f.no \in 1 .. made'[f.at] /\ f.link \in Source
             /\ f \in flights \/ \E k \in 1 .. Len(list) : f.link = list[k]
  <2>1. CASE f \in flights
    BY <1>1, <1>2, <2>1 DEF ReaderTypeOK
  <2>2. CASE f \notin flights
    <3>1. PICK i \in S : f = [at |-> i, no |-> made[i] + 1, link |-> list[i + 1]]
      BY <1>2, <2>2
    <3>2. made'[i] = made[i] + 1 /\ made[i] \in Nat
      BY <1>1, <1>2
    <3> QED
      BY <1>4, <3>1, <3>2
  <2> QED
    BY <2>1, <2>2
<1>6. \A i \in S : UnderWay(<<i, made[i] + 1>>, flights')
  <2> SUFFICES ASSUME NEW i \in S
               PROVE  \E f \in flights' : <<f.at, f.no>> = <<i, made[i] + 1>>
    BY DEF UnderWay, Name
  <2> DEFINE g == [at |-> i, no |-> made[i] + 1, link |-> list[i + 1]]
  <2>1. g \in flights'
    BY <1>2
  <2> QED
    BY <2>1
<1>7. SharedUnderWay'
  <2> SUFFICES ASSUME NEW i \in Index, reqs'[i] # 0
               PROVE  UnderWay(<<i, reqs'[i]>>, flights')
    BY DEF SharedUnderWay
  <2>1. CASE i \in S
    BY <1>2, <1>6, <2>1
  <2>2. CASE i \notin S
    <3>1. reqs'[i] = q[i] /\ UnderWay(<<i, q[i]>>, flights)
      BY <1>2, <2>2
    <3> QED
      BY <1>2, <3>1 DEF UnderWay, Name
  <2> QED
    BY <2>1, <2>2
<1> QED
  BY <1>2, <1>3, <1>5, <1>6, <1>7

\* The list is read, and the first pictures are looked up.
LEMMA ShapeBoot == ASSUME ShapeInv, Boot PROVE ShapeInv'
<1> DEFINE list == Links(box)
           S == Missing({i \in 1 .. Ahead : i < Len(box)})
<1>1. /\ list \in Seq(Source) /\ Len(list) = Len(box) /\ Len(box) <= Size
      /\ \A k \in 1 .. Len(list) : list[k].nl = 0
  BY ListFits DEF ShapeInv
<1>2. S \in SUBSET Index /\ \A i \in S : i < Len(list)
  BY <1>1, AheadAssumption, Sizes DEF Missing
<1>3. Fetch(S, list, reqs) /\ urls' = list /\ mode' = "ready"
      /\ UNCHANGED <<mergeVars, found, keyOf, viewVars, userVars, moved, strayed>>
  BY DEF Boot
<1>4. /\ reqs' \in [Index -> Nat] /\ made' \in [Index -> Nat]
      /\ flights \subseteq flights'
      /\ \A f \in flights' : f.at \in Index /\ f.no \in 1 .. made'[f.at] /\ f.link \in Source
      /\ \A f \in flights' : f \in flights \/ \E k \in 1 .. Len(list) : f.link = list[k]
      /\ SharedUnderWay'
  <2>1. reqs \in [Index -> Nat] /\ \A i \in Index \ S : reqs[i] # 0 => UnderWay(<<i, reqs[i]>>, flights)
    BY DEF ShapeInv, ReaderTypeOK, SharedUnderWay
  <2> QED
    BY <1>1, <1>2, <1>3, <2>1, FetchShape DEF ShapeInv
<1> HIDE DEF list, S
<1>5. ReaderTypeOK'
  BY <1>1, <1>3, <1>4 DEF ShapeInv, ReaderTypeOK, mergeVars, viewVars
<1>6. ListsFit'
  BY <1>1, <1>3 DEF ShapeInv, ListsFit, mergeVars
<1>7. AttemptsCounted'
  BY SMTT(30), <1>1, <1>3, <1>4 DEF ShapeInv, AttemptsCounted, userVars
<1> QED
  BY <1>4, <1>5, <1>6, <1>7 DEF ShapeInv

\* A page comes into view: the fetch it waits for is under way.
LEMMA ViewShape ==
  ASSUME ReaderTypeOK, SharedUnderWay, NEW list \in Seq(Source),
         NEW i \in Index, i < Len(list), Len(list) <= Size, View(i, list)
  PROVE  /\ reqs' \in [Index -> Nat] /\ made' \in [Index -> Nat]
         /\ flights \subseteq flights'
         /\ \A f \in flights' : f.at \in Index /\ f.no \in 1 .. made'[f.at] /\ f.link \in Source
         /\ \A f \in flights' : f \in flights \/ \E k \in 1 .. Len(list) : f.link = list[k]
         /\ SharedUnderWay'
         /\ index' = i /\ src' = found[i] /\ failed' = FALSE
         /\ wanted' = NoFlight \/ UnderWay(wanted', flights')
<1> DEFINE S == Missing({j \in i .. i + Ahead : j < Len(list)})
<1>1. S \in SUBSET Index /\ \A j \in S : j < Len(list)
  BY AheadAssumption, Sizes DEF Missing
<1>2. /\ Fetch(S, list, reqs) /\ index' = i /\ src' = found[i] /\ failed' = FALSE
      /\ wanted' = IF found[i] # NoSource THEN NoFlight
                   ELSE <<i, IF reqs[i] # 0 THEN reqs[i] ELSE made[i] + 1>>
  BY DEF View
<1>3. reqs \in [Index -> Nat] /\ \A j \in Index \ S : reqs[j] # 0 => UnderWay(<<j, reqs[j]>>, flights)
  BY DEF ReaderTypeOK, SharedUnderWay
<1>4. found[i] = NoSource /\ reqs[i] = 0 => i \in S
  BY AheadAssumption, Sizes DEF Missing
<1> HIDE DEF S
<1>5. /\ reqs' \in [Index -> Nat] /\ made' \in [Index -> Nat]
      /\ flights \subseteq flights'
      /\ \A f \in flights' : f.at \in Index /\ f.no \in 1 .. made'[f.at] /\ f.link \in Source
      /\ \A f \in flights' : f \in flights \/ \E k \in 1 .. Len(list) : f.link = list[k]
      /\ SharedUnderWay'
      /\ \A j \in S : UnderWay(<<j, made[j] + 1>>, flights')
  BY <1>1, <1>2, <1>3, FetchShape
<1>6. wanted' = NoFlight \/ UnderWay(wanted', flights')
  <2>1. CASE found[i] = NoSource /\ reqs[i] # 0
    <3>1. wanted' = <<i, reqs[i]>> /\ UnderWay(<<i, reqs[i]>>, flights)
      BY <1>2, <2>1 DEF SharedUnderWay
    <3> QED
      BY <1>5, <3>1 DEF UnderWay, Name
  <2>2. CASE found[i] = NoSource /\ reqs[i] = 0
    <3>1. wanted' = <<i, made[i] + 1>> /\ UnderWay(<<i, made[i] + 1>>, flights')
      BY <1>2, <1>4, <1>5, <2>2
    <3> QED
      BY <3>1 DEF UnderWay
  <2> QED
    BY <1>2, <2>1, <2>2
<1> QED
  BY <1>2, <1>5, <1>6

\* The viewer opens.
LEMMA ShapeOpen == ASSUME ShapeInv, Open PROVE ShapeInv'
<1> DEFINE list == Links(box)
<1>1. /\ list \in Seq(Source) /\ Len(list) = Len(box) /\ Len(box) <= Size
      /\ \A k \in 1 .. Len(list) : list[k].nl = 0
  BY ListFits DEF ShapeInv
<1>2. 0 < Len(list)
  BY <1>1 DEF Open, ShapeInv, ReaderTypeOK
<1>3. /\ View(0, list) /\ urls' = list /\ mode' = "open" /\ moved' \in BOOLEAN
      /\ UNCHANGED <<mergeVars, found, keyOf, reloading, userVars, strayed>>
  BY DEF Open
<1> HIDE DEF list
<1>4. /\ reqs' \in [Index -> Nat] /\ made' \in [Index -> Nat]
      /\ flights \subseteq flights'
      /\ \A f \in flights' : f.at \in Index /\ f.no \in 1 .. made'[f.at] /\ f.link \in Source
      /\ \A f \in flights' : f \in flights \/ \E k \in 1 .. Len(list) : f.link = list[k]
      /\ SharedUnderWay'
      /\ index' = 0 /\ src' = found[0] /\ failed' = FALSE
      /\ wanted' = NoFlight \/ UnderWay(wanted', flights')
  BY <1>1, <1>2, <1>3, FirstIndex, ViewShape DEF ShapeInv
<1>5. \A n \in reloading' : UnderWay(n, flights')
  BY <1>3, <1>4 DEF ShapeInv, ReaderTypeOK, UnderWay, Name
<1>6. ReaderTypeOK'
  BY <1>1, <1>3, <1>4, <1>5, FirstIndex DEF ShapeInv, ReaderTypeOK, mergeVars, UnderWay
<1>7. ListsFit'
  BY <1>1, <1>2, <1>3, <1>4 DEF ShapeInv, ListsFit, mergeVars
<1>8. AttemptsCounted'
  BY <1>1, <1>3, <1>4 DEF ShapeInv, AttemptsCounted, userVars
<1> QED
  BY <1>4, <1>6, <1>7, <1>8 DEF ShapeInv

\* A page is turned.
LEMMA ShapeTurn == ASSUME ShapeInv, NEW i \in Index, Turn(i) PROVE ShapeInv'
<1>1. /\ View(i, urls) /\ i < Len(urls) /\ strayed' \in BOOLEAN
      /\ UNCHANGED <<mergeVars, mode, urls, found, keyOf, reloading, reloads, moved>>
  BY DEF Turn, ShapeInv, ReaderTypeOK
<1>2. urls \in Seq(Source) /\ Len(urls) <= Size
  BY DEF ShapeInv, ReaderTypeOK, ListsFit
<1>3. /\ reqs' \in [Index -> Nat] /\ made' \in [Index -> Nat]
      /\ flights \subseteq flights'
      /\ \A f \in flights' : f.at \in Index /\ f.no \in 1 .. made'[f.at] /\ f.link \in Source
      /\ \A f \in flights' : f \in flights \/ \E k \in 1 .. Len(urls) : f.link = urls[k]
      /\ SharedUnderWay'
      /\ index' = i /\ src' = found[i] /\ failed' = FALSE
      /\ wanted' = NoFlight \/ UnderWay(wanted', flights')
  BY <1>1, <1>2, ViewShape DEF ShapeInv
<1>4. \A n \in reloading' : UnderWay(n, flights')
  BY <1>1, <1>3 DEF ShapeInv, ReaderTypeOK, UnderWay, Name
<1>5. ReaderTypeOK'
  BY <1>1, <1>3, <1>4 DEF ShapeInv, ReaderTypeOK, mergeVars, UnderWay
<1>6. ListsFit'
  BY <1>1, <1>3 DEF ShapeInv, ListsFit, mergeVars
<1>7. AttemptsCounted'
  BY <1>1, <1>3 DEF ShapeInv, AttemptsCounted
<1> QED
  BY <1>3, <1>5, <1>6, <1>7 DEF ShapeInv

\* A lookup is answered: what waits for another fetch still does.
LEMMA ShapeArrives ==
  ASSUME ShapeInv, NEW f \in flights, NEW s \in {f.link, NoSource},
         NEW key \in {0, f.link.nl + 1}, Arrives(f, s, key)
  PROVE  ShapeInv'
<1>1. f.at \in Index /\ f.link \in Source /\ f.link.nl \in Nat /\ f.link.nl <= reloads
      /\ reloads \in Nat
  BY AheadAssumption DEF ShapeInv, ReaderTypeOK, AttemptsCounted, Source
<1>2. /\ keyOf' = IF key = 0 THEN keyOf ELSE [keyOf EXCEPT ![f.at] = key]
      /\ found' = IF s = NoSource THEN found ELSE [found EXCEPT ![f.at] = s]
      /\ reqs' = [reqs EXCEPT ![f.at] = 0]
      /\ flights' = flights \ {f}
      /\ src' = IF Name(f) \in reloading \cup {wanted} THEN s ELSE src
      /\ wanted' = IF wanted = Name(f) THEN NoFlight ELSE wanted
      /\ reloading' = reloading \ {Name(f)}
      /\ failed' \in BOOLEAN
      /\ UNCHANGED <<mergeVars, mode, urls, made, index, userVars, moved, strayed>>
  BY DEF Arrives, ShapeInv, ReaderTypeOK
<1>3. keyOf' \in [Index -> Nat] /\ \A i \in Index : keyOf'[i] <= reloads + 1
  <2>1. keyOf \in [Index -> Nat] /\ \A i \in Index : keyOf[i] <= reloads + 1
    BY DEF ShapeInv, ReaderTypeOK, AttemptsCounted
  <2>2. key \in Nat /\ key <= reloads + 1
    BY <1>1
  <2> QED
    BY <1>1, <1>2, <2>1, <2>2
<1>4. found' \in [Index -> Source \cup {NoSource}] /\ reqs' \in [Index -> Nat]
  BY <1>1, <1>2 DEF ShapeInv, ReaderTypeOK
<1>5. src' \in Source \cup {NoSource}
  BY <1>1, <1>2 DEF ShapeInv, ReaderTypeOK
<1>6. ASSUME NEW n, UnderWay(n, flights), n # Name(f) PROVE UnderWay(n, flights')
  BY <1>2, <1>6 DEF UnderWay, Name
<1>7. wanted' = NoFlight \/ UnderWay(wanted', flights')
  <2>1. wanted' = NoFlight \/ (wanted' = wanted /\ wanted # Name(f) /\ UnderWay(wanted, flights))
    BY <1>2 DEF ShapeInv, ReaderTypeOK, UnderWay
  <2> QED
    BY <1>6, <2>1 DEF UnderWay
<1>8. \A n \in reloading' : UnderWay(n, flights')
  BY <1>2, <1>6 DEF ShapeInv, ReaderTypeOK, UnderWay
<1>9. ReaderTypeOK'
  BY <1>2, <1>3, <1>4, <1>5, <1>7, <1>8 DEF ShapeInv, ReaderTypeOK, mergeVars, UnderWay
<1>10. SharedUnderWay'
  <2> SUFFICES ASSUME NEW i \in Index, reqs'[i] # 0 PROVE UnderWay(<<i, reqs'[i]>>, flights')
    BY DEF SharedUnderWay
  <2>1. i # f.at /\ reqs'[i] = reqs[i] /\ UnderWay(<<i, reqs[i]>>, flights)
    BY <1>2 DEF ShapeInv, ReaderTypeOK, SharedUnderWay
  <2>2. <<i, reqs[i]>> # Name(f)
    BY <2>1 DEF Name
  <2> QED
    BY <1>6, <2>1, <2>2 DEF UnderWay
<1>11. ListsFit' /\ AttemptsCounted'
  BY <1>2, <1>3 DEF ShapeInv, ListsFit, AttemptsCounted, mergeVars, userVars
<1> QED
  BY <1>9, <1>10, <1>11 DEF ShapeInv

\* A reload: the address is of the next attempt, and its fetch is under way.
LEMMA ShapeReload == ASSUME ShapeInv, Reload PROVE ShapeInv'
<1> DEFINE q == [reqs EXCEPT ![index] = 0]
<1>1. /\ mode = "open" /\ Fetch({index}, urls', q)
      /\ reloads < MaxReloads /\ reloads' = reloads + 1
      /\ urls' = [urls EXCEPT ![index + 1].nl = keyOf[index]]
      /\ found' = [found EXCEPT ![index] = NoSource]
      /\ reloading' = reloading \cup {<<index, made[index] + 1>>}
      /\ src' = NoSource /\ failed' = FALSE
      /\ UNCHANGED <<mergeVars, mode, keyOf, index, wanted, moved, strayed>>
  BY DEF Reload
<1>2. /\ index \in Index /\ index < Len(urls) /\ index + 1 \in 1 .. Len(urls)
      /\ keyOf[index] \in 0 .. MaxReloads /\ keyOf[index] <= reloads'
      /\ reloads \in Nat /\ reloads' \in 0 .. MaxReloads
  BY SMTT(30), <1>1, AheadAssumption, Sizes DEF ShapeInv, ReaderTypeOK, ListsFit, AttemptsCounted
<1>3. /\ urls' \in Seq(Source) /\ Len(urls') = Len(urls)
      /\ \A k \in 1 .. Len(urls) : urls'[k].nl <= reloads'
  <2>1. urls \in Seq(Source) /\ urls[index + 1] \in Source
    BY <1>2 DEF ShapeInv, ReaderTypeOK
  <2>2. urls' = [urls EXCEPT ![index + 1] = [urls[index + 1] EXCEPT !.nl = keyOf[index]]]
    BY <1>1
  <2>3. [urls[index + 1] EXCEPT !.nl = keyOf[index]]
          = [img |-> urls[index + 1].img, nl |-> keyOf[index]]
    BY <2>1 DEF Source
  <2>4. [img |-> urls[index + 1].img, nl |-> keyOf[index]] \in Source
    BY <1>2, <2>1 DEF Source
  <2>5. urls' \in Seq(Source) /\ Len(urls') = Len(urls)
    BY <1>2, <2>1, <2>2, <2>3, <2>4
  <2>6. ASSUME NEW k \in 1 .. Len(urls) PROVE urls'[k].nl <= reloads'
    <3>1. urls[k].nl \in Nat /\ urls[k].nl <= reloads
      <4>1. urls[k] \in Source /\ urls[k].nl <= reloads
        BY <2>1 DEF ShapeInv, AttemptsCounted
      <4> QED
        BY <4>1, AheadAssumption DEF Source
    <3>2. urls'[k].nl = IF k = index + 1 THEN keyOf[index] ELSE urls[k].nl
      BY <1>2, <2>1, <2>2, <2>3
    <3> QED
      BY <1>1, <1>2, <3>1, <3>2
  <2> QED
    BY <2>5, <2>6
<1>4. /\ q \in [Index -> Nat] /\ found' \in [Index -> Source \cup {NoSource}]
      /\ \A i \in Index \ {index} : q[i] # 0 => UnderWay(<<i, q[i]>>, flights)
  BY <1>1, <1>2 DEF ShapeInv, ReaderTypeOK, SharedUnderWay
<1> HIDE DEF q
<1>5. /\ reqs' \in [Index -> Nat] /\ made' \in [Index -> Nat]
      /\ flights \subseteq flights'
      /\ \A f \in flights' : f.at \in Index /\ f.no \in 1 .. made'[f.at] /\ f.link \in Source
      /\ \A f \in flights' : f \in flights \/ \E k \in 1 .. Len(urls') : f.link = urls'[k]
      /\ SharedUnderWay'
      /\ UnderWay(<<index, made[index] + 1>>, flights')
  <2>1. {index} \in SUBSET Index /\ \A i \in {index} : i < Len(urls')
    BY <1>2, <1>3
  <2> QED
    BY <1>1, <1>3, <1>4, <2>1, FetchShape DEF ShapeInv
<1>6. wanted' = NoFlight \/ UnderWay(wanted', flights')
  BY <1>1, <1>5 DEF ShapeInv, ReaderTypeOK, UnderWay, Name
<1>7. \A n \in reloading' : UnderWay(n, flights')
  BY <1>1, <1>5 DEF ShapeInv, ReaderTypeOK, UnderWay, Name
<1>8. ReaderTypeOK'
  BY <1>1, <1>3, <1>4, <1>5, <1>6, <1>7 DEF ShapeInv, ReaderTypeOK, mergeVars, UnderWay
<1>9. ListsFit'
  BY <1>1, <1>3 DEF ShapeInv, ListsFit, mergeVars
<1>10. AttemptsCounted'
  <2>1. \A f \in flights' : f.link.nl <= reloads'
    <3> SUFFICES ASSUME NEW f \in flights' PROVE f.link.nl <= reloads'
      OBVIOUS
    <3>1. f.link.nl \in Nat
      BY <1>5, AheadAssumption DEF Source
    <3>2. CASE f \in flights
      <4>1. f.link.nl <= reloads
        BY <3>2 DEF ShapeInv, AttemptsCounted
      <4> QED
        BY <1>1, <1>2, <3>1, <4>1
    <3>3. CASE \E k \in 1 .. Len(urls') : f.link = urls'[k]
      BY <1>3, <3>3
    <3> QED
      BY <1>5, <3>2, <3>3
  <2>2. \A i \in Index : keyOf'[i] <= reloads' + 1
    BY <1>1, <1>2 DEF ShapeInv, ReaderTypeOK, AttemptsCounted
  <2> QED
    BY <1>2, <1>3, <2>1, <2>2 DEF AttemptsCounted
<1> QED
  BY <1>5, <1>8, <1>9, <1>10 DEF ShapeInv

(* The reader's variables keep their types; above all, what the page on     *)
(* view or a reload waits for is a fetch that is under way, and every index *)
(* looked up is one of the gallery.                                         *)
THEOREM ReaderTypeCorrect == ReaderSpec => []ReaderTypeOK
<1>1. ReaderInit => ShapeInv
  BY InitShape
<1>2. ShapeInv /\ [ReaderNext]_readerVars => ShapeInv'
  <2> SUFFICES ASSUME ShapeInv, [ReaderNext]_readerVars PROVE ShapeInv'
    OBVIOUS
  <2>1. CASE Rebuild \/ PageMerged \/ PageSkipped
    BY <2>1, ShapeMerge
  <2>2. CASE Boot
    BY <2>2, ShapeBoot
  <2>3. CASE Open
    BY <2>3, ShapeOpen
  <2>4. CASE PictureFails
    BY <2>4 DEF PictureFails, ShapeInv, ReaderTypeOK, ListsFit, AttemptsCounted,
        SharedUnderWay, UnderWay, mergeVars, lookupVars, userVars
  <2>5. CASE Reload
    BY <2>5, ShapeReload
  <2>6. ASSUME NEW i \in Index, Turn(i) PROVE ShapeInv'
    BY <2>6, ShapeTurn
  <2>7. ASSUME NEW f \in flights, FetchOk(f) \/ NoPicture(f) \/ FetchFails(f)
        PROVE  ShapeInv'
    BY <2>7, ShapeArrives DEF FetchOk, NoPicture, FetchFails
  <2>8. CASE UNCHANGED readerVars
    BY <2>8 DEF readerVars, mergeVars, lookupVars, viewVars, userVars, ShapeInv,
        ReaderTypeOK, ListsFit, AttemptsCounted, SharedUnderWay, UnderWay
  <2> QED
    BY <2>1, <2>2, <2>3, <2>4, <2>5, <2>6, <2>7, <2>8 DEF ReaderNext
<1>3. ShapeInv => ReaderTypeOK
  BY DEF ShapeInv
<1> QED
  BY <1>1, <1>2, <1>3, PTL DEF ReaderSpec
-----------------------------------------------------------------------------
(***************************************************************************)
(* Both walks hand over their pictures in order, none twice and none left  *)
(* out, for galleries and sheets of any size.                              *)
(***************************************************************************)

(* The waterfall on a last page that was opened at an address of its own.   *)
Unaware == ~plain /\ opened = Final

(* The next address is that after the last picture appended, and the one    *)
(* before it, where it is known, the last picture's.                        *)
StripInOrder ==
  /\ walk = "idle" => strip = <<>>
  /\ Unaware => /\ strip \in {<<>>, <<Final>>}
                /\ walk = "reading" => strip = <<>> /\ hn = Final
  /\ ~Unaware =>
       /\ \A k \in DOMAIN strip : strip[k] = opened + k
       /\ walk = "reading" => /\ hn = opened + Len(strip) + 1 /\ hn # ln
       /\ walk = "done" => opened + Len(strip) = Final

(* The sheets before the one it asks for have been handed over.             *)
SheetsInOrder ==
  /\ \A k \in DOMAIN thumbnails : thumbnails[k] = k - 1
  /\ ask # NoMore => Len(thumbnails) = ask * PerSheet
  /\ ask = NoMore => Len(thumbnails) = Pictures

WalkInv == WalkTypeOK /\ StripInOrder /\ SheetsInOrder
-----------------------------------------------------------------------------
\* What the division in venera.js gives: the last sheet holds the last picture.
LEMMA LastSheet ==
  /\ MaxPage \in Nat
  /\ MaxPage * PerSheet < Pictures /\ Pictures <= MaxPage * PerSheet + PerSheet
<1>1. Pictures \in Nat /\ PerSheet \in Nat /\ PerSheet > 0 /\ Pictures - 1 \in Nat
  BY WalkAssumption
<1>2. ASSUME NEW n \in Nat, NEW d \in Nat, d > 0
      PROVE  /\ n \div d \in Nat
             /\ (n \div d) * d <= n /\ n < (n \div d) * d + d
  BY <1>2, SMTT(30)
<1>3. /\ (Pictures - 1) \div PerSheet \in Nat
      /\ ((Pictures - 1) \div PerSheet) * PerSheet <= Pictures - 1
      /\ Pictures - 1 < ((Pictures - 1) \div PerSheet) * PerSheet + PerSheet
  BY <1>1, <1>2
<1> QED
  BY <1>1, <1>3 DEF MaxPage

\* A product does not decrease with its first factor.
LEMMA TimesMonotone ==
  ASSUME NEW a \in Nat, NEW b \in Nat, NEW d \in Nat, a <= b
  PROVE  a * d <= b * d
<1>1. b * d = a * d + (b - a) * d
  OBVIOUS
<1>2. (b - a) \in Nat /\ (b - a) * d \in Nat
  OBVIOUS
<1> QED
  BY <1>1, <1>2

\* Sequences of T put together, or with one more, are sequences of T.
LEMMA SeqGrows ==
  ASSUME NEW T, NEW s \in Seq(T)
  PROVE  /\ \A e \in T : Append(s, e) \in Seq(T)
         /\ \A u \in Seq(T) : s \o u \in Seq(T) /\ Len(s \o u) = Len(s) + Len(u)
OBVIOUS
\* A function on 1 .. n is a sequence of length n.
LEMMA SeqOfFunction ==
  ASSUME NEW T, NEW n \in Nat, NEW f \in [1 .. n -> T]
  PROVE  f \in Seq(T) /\ Len(f) = n
OBVIOUS

(* A sheet that is asked for holds the pictures that come next: PerSheet of *)
(* them, or what is left of the gallery.                                    *)
LEMMA SheetHolds ==
  ASSUME NEW p \in 0 .. MaxPage
  PROVE  /\ Sheet(p) \in Seq(0 .. Final)
         /\ \A k \in 1 .. Len(Sheet(p)) : Sheet(p)[k] = p * PerSheet + k - 1
         /\ p < MaxPage => Len(Sheet(p)) = PerSheet
         /\ p = MaxPage => Len(Sheet(p)) = Pictures - p * PerSheet
<1> DEFINE n == IF p < MaxPage THEN PerSheet ELSE Pictures - p * PerSheet
<1>1. /\ MaxPage \in Nat /\ p \in Nat /\ PerSheet \in Nat /\ Pictures \in Nat
      /\ p * PerSheet \in Nat
  BY LastSheet, WalkAssumption
<1>2. n \in Nat /\ p * PerSheet + n <= Pictures
  <2>1. CASE p < MaxPage
    <3>1. (p + 1) * PerSheet <= MaxPage * PerSheet
      BY <1>1, <2>1, TimesMonotone
    <3>2. (p + 1) * PerSheet = p * PerSheet + PerSheet
      BY <1>1
    <3> QED
      BY <1>1, <2>1, <3>1, <3>2, LastSheet
  <2>2. CASE ~(p < MaxPage)
    <3>1. p = MaxPage
      BY <1>1, <2>2
    <3> QED
      BY <1>1, <2>2, <3>1, LastSheet
  <2> QED
    BY <2>1, <2>2
<1>3. Sheet(p) = [k \in 1 .. n |-> p * PerSheet + k - 1]
  BY DEF Sheet
<1> HIDE DEF n
<1>4. \A k \in 1 .. n : p * PerSheet + k - 1 \in 0 .. Final
  BY <1>1, <1>2 DEF Final
<1>5. Sheet(p) \in [1 .. n -> 0 .. Final]
  BY <1>3, <1>4
<1>6. Sheet(p) \in Seq(0 .. Final) /\ Len(Sheet(p)) = n
  BY <1>2, <1>5, SeqOfFunction
<1>7. \A k \in 1 .. n : Sheet(p)[k] = p * PerSheet + k - 1
  BY <1>3
<1>8. (p < MaxPage => n = PerSheet) /\ (p = MaxPage => n = Pictures - p * PerSheet)
  BY <1>1 DEF n
<1> QED
  BY <1>6, <1>7, <1>8
-----------------------------------------------------------------------------
\* The invariant holds at the start.
LEMMA InitWalk == WalkInit => WalkInv
<1> SUFFICES ASSUME WalkInit PROVE WalkInv
  OBVIOUS
<1>1. MaxPage \in Nat /\ Final \in Nat /\ PerSheet \in Nat
  BY LastSheet, WalkAssumption DEF Final
<1>2. WalkTypeOK
  BY <1>1 DEF WalkInit, WalkTypeOK, Elsewhere, NoMore
<1>3. 0 * PerSheet = 0
  BY <1>1
<1> QED
  BY <1>2, <1>3 DEF WalkInit, WalkInv, StripInOrder, SheetsInOrder, NoMore

\* The button: the second address is known, unless the page is the last.
LEMMA StepClick == ASSUME WalkInv, Click PROVE WalkInv'
<1>1. Final \in Nat /\ opened \in 0 .. Final /\ strip = <<>>
  BY WalkAssumption DEF Click, WalkInv, WalkTypeOK, StripInOrder, Final
<1>2. WalkTypeOK'
  BY <1>1 DEF Click, WalkInv, WalkTypeOK, Following, Elsewhere, sheetVars
<1>3. StripInOrder'
  BY <1>1 DEF Click, StripInOrder, Unaware, Following, Elsewhere
<1>4. SheetsInOrder'
  BY DEF Click, WalkInv, SheetsInOrder, sheetVars
<1> QED
  BY <1>2, <1>3, <1>4 DEF WalkInv

\* One more picture, and the link of its page.
LEMMA StepPicture == ASSUME WalkInv, AppendPicture PROVE WalkInv'
<1>1. /\ Final \in Nat /\ opened \in 0 .. Final /\ hn \in Int
      /\ strip \in Seq(0 .. Final) /\ walk = "reading"
  BY WalkAssumption DEF AppendPicture, WalkInv, WalkTypeOK, Final, Elsewhere
<1>2. hn \in 0 .. Final
  BY <1>1 DEF WalkInv, WalkTypeOK, StripInOrder, Elsewhere
<1>3. WalkTypeOK'
  BY <1>1, <1>2, SeqGrows DEF AppendPicture, WalkInv, WalkTypeOK, Following, Elsewhere, sheetVars
<1>4. StripInOrder'
  <2>1. CASE Unaware
    <3>1. strip' = <<Final>> /\ walk' = "done"
      BY <1>1, <2>1 DEF AppendPicture, WalkInv, StripInOrder, Unaware, Following
    <3> QED
      BY <2>1, <3>1 DEF AppendPicture, StripInOrder, Unaware
  <2>2. CASE ~Unaware
    <3>1. hn = opened + Len(strip) + 1 /\ \A k \in DOMAIN strip : strip[k] = opened + k
      BY <1>1, <2>2 DEF WalkInv, StripInOrder
    <3>2. /\ strip' = Append(strip, hn) /\ Len(strip') = Len(strip) + 1
          /\ \A k \in DOMAIN strip' : strip'[k] = opened + k
      BY <1>1, <3>1 DEF AppendPicture
    <3>3. /\ walk' = "reading" => hn' = opened + Len(strip') + 1 /\ hn' # ln'
          /\ walk' = "done" => opened + Len(strip') = Final
      BY <1>1, <1>2, <3>1, <3>2 DEF AppendPicture, Following
    <3>4. walk' \in {"reading", "done"} /\ UNCHANGED <<opened, plain>>
      BY DEF AppendPicture
    <3> QED
      BY <2>2, <3>2, <3>3, <3>4 DEF StripInOrder, Unaware
  <2> QED
    BY <2>1, <2>2
<1>5. SheetsInOrder'
  BY DEF AppendPicture, WalkInv, SheetsInOrder, sheetVars
<1> QED
  BY <1>3, <1>4, <1>5 DEF WalkInv

\* A page without a link, or no page: the walk is cut short.
LEMMA StepCut == ASSUME WalkInv, AppendUnlinked \/ NoPage PROVE WalkInv'
<1>1. /\ Final \in Nat /\ opened \in 0 .. Final /\ hn \in Int
      /\ strip \in Seq(0 .. Final) /\ walk = "reading"
  BY WalkAssumption DEF AppendUnlinked, NoPage, WalkInv, WalkTypeOK, Final, Elsewhere
<1>2. hn \in 0 .. Final
  BY <1>1 DEF WalkInv, WalkTypeOK, StripInOrder, Elsewhere
<1>3. WalkTypeOK'
  BY <1>1, <1>2, SeqGrows DEF AppendUnlinked, NoPage, WalkInv, WalkTypeOK, Elsewhere, sheetVars
<1>4. StripInOrder'
  <2>1. CASE AppendUnlinked
    <3>1. CASE Unaware
      BY <1>1, <2>1, <3>1 DEF AppendUnlinked, WalkInv, StripInOrder, Unaware
    <3>2. CASE ~Unaware
      <4>1. hn = opened + Len(strip) + 1 /\ \A k \in DOMAIN strip : strip[k] = opened + k
        BY <1>1, <3>2 DEF WalkInv, StripInOrder
      <4>2. \A k \in DOMAIN strip' : strip'[k] = opened + k
        <5>1. strip' = Append(strip, hn)
          BY <2>1 DEF AppendUnlinked
        <5> QED
          BY <1>1, <4>1, <5>1
      <4> QED
        BY <2>1, <3>2, <4>2 DEF AppendUnlinked, StripInOrder, Unaware
    <3> QED
      BY <3>1, <3>2
  <2>2. CASE NoPage
    BY <2>2 DEF NoPage, WalkInv, StripInOrder, Unaware
  <2> QED
    BY <2>1, <2>2
<1>5. SheetsInOrder'
  BY DEF AppendUnlinked, NoPage, WalkInv, SheetsInOrder, sheetVars
<1> QED
  BY <1>3, <1>4, <1>5 DEF WalkInv

\* One more sheet, which begins where the one before it ended.
LEMMA StepSheet == ASSUME WalkInv, LoadThumbnails PROVE WalkInv'
<1>1. /\ ask \in 0 .. MaxPage /\ MaxPage \in Nat /\ PerSheet \in Nat /\ Pictures \in Nat
      /\ thumbnails \in Seq(0 .. Final)
      /\ Len(thumbnails) = ask * PerSheet
      /\ \A k \in DOMAIN thumbnails : thumbnails[k] = k - 1
  BY LastSheet, WalkAssumption DEF LoadThumbnails, WalkInv, WalkTypeOK,
      SheetsInOrder, NoMore
<1> DEFINE s == Sheet(ask)
<1>2. /\ s \in Seq(0 .. Final)
      /\ \A k \in 1 .. Len(s) : s[k] = ask * PerSheet + k - 1
      /\ ask < MaxPage => Len(s) = PerSheet
      /\ ask = MaxPage => Len(s) = Pictures - ask * PerSheet
  BY <1>1, SheetHolds
<1>3. thumbnails' = thumbnails \o s
  BY DEF LoadThumbnails
<1> HIDE DEF s
<1>4. thumbnails' \in Seq(0 .. Final) /\ Len(thumbnails') = Len(thumbnails) + Len(s)
  BY <1>1, <1>2, <1>3, SeqGrows
<1>5. \A k \in DOMAIN thumbnails' : thumbnails'[k] = k - 1
  <2> SUFFICES ASSUME NEW k \in DOMAIN thumbnails' PROVE thumbnails'[k] = k - 1
    OBVIOUS
  <2>1. k \in 1 .. Len(thumbnails) + Len(s) /\ ask * PerSheet \in Nat
    BY <1>1, <1>4
  <2>2. CASE k <= Len(thumbnails)
    <3>1. k \in DOMAIN thumbnails /\ thumbnails'[k] = thumbnails[k]
      BY <1>1, <1>2, <1>3, <2>1, <2>2
    <3> QED
      BY <1>1, <3>1
  <2>3. CASE k > Len(thumbnails)
    <3>1. /\ k - Len(thumbnails) \in 1 .. Len(s)
          /\ thumbnails'[k] = s[k - Len(thumbnails)]
      BY <1>1, <1>2, <1>3, <2>1, <2>3
    <3> QED
      BY <1>1, <1>2, <2>1, <3>1
  <2> QED
    BY <2>1, <2>2, <2>3, <1>1
<1>6. /\ ask' \in {NoMore} \cup 0 .. MaxPage
      /\ ask' # NoMore => Len(thumbnails') = ask' * PerSheet
      /\ ask' = NoMore => Len(thumbnails') = Pictures
  <2>1. CASE ask + 1 > MaxPage
    <3>1. ask = MaxPage /\ ask' = NoMore /\ ask * PerSheet \in Nat
      BY <1>1, <2>1 DEF LoadThumbnails
    <3> QED
      <4>1. Len(thumbnails') = ask * PerSheet + (Pictures - ask * PerSheet)
        BY <1>1, <1>2, <1>4, <3>1
      <4>2. Len(thumbnails') = Pictures
        BY <1>1, <3>1, <4>1
      <4> QED
        BY <3>1, <4>2
  <2>2. CASE ~(ask + 1 > MaxPage)
    <3>1. /\ ask < MaxPage /\ ask' = ask + 1 /\ ask' # NoMore
          /\ (ask + 1) * PerSheet = ask * PerSheet + PerSheet
      BY <1>1, <2>2 DEF LoadThumbnails, NoMore
    <3>2. ask' \in 0 .. MaxPage
      BY <1>1, <3>1
    <3>3. Len(thumbnails') = ask * PerSheet + PerSheet
      BY <1>1, <1>2, <1>4, <3>1
    <3>4. Len(thumbnails') = ask' * PerSheet
      BY <3>1, <3>3
    <3> QED
      BY <3>1, <3>2, <3>4
  <2> QED
    BY <2>1, <2>2
<1>7. SheetsInOrder'
  BY <1>5, <1>6 DEF SheetsInOrder
<1>8. WalkTypeOK' /\ StripInOrder'
  BY <1>4, <1>6 DEF LoadThumbnails, WalkInv, WalkTypeOK, StripInOrder, Unaware,
      waterfallVars
<1> QED
  BY <1>7, <1>8 DEF WalkInv
-----------------------------------------------------------------------------
\* WalkInv is an invariant.
LEMMA WalkInvariant == WalkSpec => []WalkInv
<1>1. WalkInit => WalkInv
  BY InitWalk
<1>2. WalkInv /\ [WalkNext]_walkVars => WalkInv'
  <2> SUFFICES ASSUME WalkInv, [WalkNext]_walkVars PROVE WalkInv'
    OBVIOUS
  <2>1. CASE UNCHANGED walkVars
    BY <2>1 DEF walkVars, waterfallVars, sheetVars, WalkInv, WalkTypeOK,
        StripInOrder, SheetsInOrder, Unaware
  <2> QED
    BY <2>1, StepClick, StepPicture, StepCut, StepSheet DEF WalkNext
<1> QED
  BY <1>1, <1>2, PTL DEF WalkSpec

(* Every variable keeps its type: no address leaves the gallery, and no     *)
(* sheet after the last is asked for.                                       *)
THEOREM WalkTypeCorrect == WalkSpec => []WalkTypeOK
<1>1. WalkInv => WalkTypeOK
  BY DEF WalkInv
<1> QED
  BY <1>1, WalkInvariant, PTL

(* The waterfall's pictures and venera.js's thumbnails come in the order of *)
(* the gallery, each once, and all of them where no page is at fault.       *)
THEOREM WalksCorrect == WalkSpec => []WalksInOrder
<1>1. WalkInv => WalksInOrder
  BY DEF WalkInv, StripInOrder, SheetsInOrder, WalksInOrder, Unaware
<1> QED
  BY <1>1, WalkInvariant, PTL
=============================================================================
