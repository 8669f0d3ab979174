---------------------------- MODULE ServiceWorker ----------------------------
(***************************************************************************)
(* sw.js, the service worker in front of every page of the exhentai mirror.*)
(* All open tabs share one worker.  It races each navigation against a     *)
(* timer, sends a picture that is slow or fails through a proxy, and serves*)
(* scripts and styles from a cache that it refreshes behind the page's     *)
(* back.  A navigation aborts the requests registered in activeControllers.*)
(*                                                                         *)
(* A promise callback runs before the next event, so one action goes from  *)
(* an event (request, response, timer, abort) to the handler's next await. *)
(* There is one asset, known by the number of its deployment.  The worker  *)
(* fetches it with the default cache mode, and the mirror serves it with   *)
(* "public, max-age=86400": HTTP caches on the way, the browser's own or a *)
(* shared one, may answer with a copy they still call fresh.  The browser  *)
(* (external) may stop the worker when no event waits for it, and when     *)
(* sw.js changes puts a new one in its place at such a moment, as install  *)
(* skips waiting.                                                          *)
(***************************************************************************)
EXTENDS Naturals, FiniteSets

CONSTANTS
  Tabs,
  Requests,      \* subresource requests, each made once
  MaxDeployed,   \* bound: deployments of the asset
  MaxWorker      \* bound: versions of the worker

ASSUME SWBoundsAssumption == MaxDeployed \in Nat \ {0} /\ MaxWorker \in Nat \ {0}

VARIABLES
  asked,        \* of each request: the tab that made it, NoTab before
  stage,        \* the handler's await
  timer,        \* its timeout is pending
  body,         \* oldest deployment its answer may be; then the one received
  replied,      \* what the page got
  controllers,  \* activeControllers
  visit,        \* of each tab: its navigation
  current,      \* the worker in charge
  assets,       \* the deployment in its cache, 0 for none
  fresh,        \* oldest copy that an HTTP cache still calls fresh, 0 for none
  deployed,     \* the deployment on the server
  since         \* history: oldest copy to be had when that worker was activated

reqVars  == <<asked, stage, timer, body, replied>>
siteVars == <<assets, fresh, deployed>>
swVars == <<reqVars, controllers, visit, current, siteVars, since>>

NoTab == "no tab"
ASSUME TabsAssumption == NoTab \notin Tabs

\* A request's controllers: that of the first fetch, that of the one by proxy.
First(r) == <<r, "first">>
Proxy(r) == <<r, "proxy">>
Stage == {"idle", "origin", "proxy", "network", "refresh", "saving", "storing", "over"}
Reply == {"none", "ok", "499", "503", "504"}
\* What a handler awaits within its try.  The head of an answer ends a fetch:
\* a picture's body goes to the page without the worker, and the put of a copy
\* from the network ("storing") reads its body after the handler has returned.
Awaited == {"origin", "proxy", "network", "refresh", "saving"}

(* A request ends: the finally clauses take its controllers out.            *)
Finish(r) ==
  /\ stage' = [stage EXCEPT ![r] = "over"]
  /\ timer' = [timer EXCEPT ![r] = FALSE]
  /\ controllers' = controllers \ {First(r), Proxy(r)}

Answer(r, code) == replied' = [replied EXCEPT ![r] = code]
Await(r, where) == stage' = [stage EXCEPT ![r] = where]
----------------------------------------------------------------------------
(* The fetch event of a subresource of tab t.                               *)
Accept(r, t) ==
  /\ asked[r] = NoTab
  /\ asked' = [asked EXCEPT ![r] = t]
  /\ controllers' = controllers \cup {First(r)}

\* Mutant: the picture is fetched without a timeout.
AskImageUntimed(r, t) ==
  /\ Accept(r, t)
  /\ Await(r, "origin")
  /\ UNCHANGED <<timer, body, replied, visit, current, siteVars, since>>

(* handleImageWithProxy                                                     *)
AskImage(r, t) ==
  /\ Accept(r, t)
  /\ Await(r, "origin")
  /\ timer' = [timer EXCEPT ![r] = TRUE]
  /\ UNCHANGED <<body, replied, visit, current, siteVars, since>>

ImageArrives(r) ==
  /\ stage[r] = "origin"
  /\ Finish(r) /\ Answer(r, "ok")
  /\ UNCHANGED <<asked, body, visit, current, siteVars, since>>

ToProxy(r) ==
  /\ Await(r, "proxy")
  /\ timer' = [timer EXCEPT ![r] = FALSE]
  /\ controllers' = controllers \cup {Proxy(r)}
  /\ UNCHANGED <<asked, body, replied, visit, current, siteVars, since>>

\* A bad status or a network error; the timer's abort.
ImageFails(r) == stage[r] = "origin" /\ ToProxy(r)
ImageTimeout(r) == stage[r] = "origin" /\ timer[r] /\ ToProxy(r)

\* Whatever the proxy answers is passed on; nothing limits how long it takes.
ProxyAnswers(r) ==
  /\ stage[r] = "proxy"
  /\ Finish(r)
  /\ \E code \in {"ok", "504"} : Answer(r, code)
  /\ UNCHANGED <<asked, body, visit, current, siteVars, since>>
----------------------------------------------------------------------------
(* handleAsset: from the cache, with a refresh that nothing waits for, or   *)
(* from the network.                                                        *)
Oldest == IF fresh = 0 THEN deployed ELSE fresh

AskAsset(r, t) ==
  /\ Accept(r, t)
  /\ body' = [body EXCEPT ![r] = Oldest]
  /\ IF assets = 0
       THEN Await(r, "network") /\ UNCHANGED replied
       ELSE Await(r, "refresh") /\ Answer(r, "ok")
  /\ UNCHANGED <<timer, visit, current, siteVars, since>>

\* An answer comes from the server or from a cache; a cache keeps a copy of it.
Received(r) ==
  \E v \in body[r] .. deployed :
    /\ body' = [body EXCEPT ![r] = v]
    /\ fresh' = IF fresh = 0 \/ v < fresh THEN v ELSE fresh

(* A usable response: the page has it, and the copy is being put; the       *)
(* handler has left its finally.  fetchAndCache waits for its put inside.   *)
AssetArrives(r) ==
  /\ stage[r] = "network"
  /\ Received(r) /\ Answer(r, "ok")
  /\ Await(r, "storing")
  /\ controllers' = controllers \ {First(r)}
  /\ UNCHANGED <<asked, timer, visit, current, assets, deployed, since>>

RefreshArrives(r) ==
  /\ stage[r] = "refresh"
  /\ Received(r)
  /\ Await(r, "saving")
  /\ UNCHANGED <<asked, timer, replied, controllers,
                 visit, current, assets, deployed, since>>

\* A bad status or an HTML page: passed on to a page that waits, never stored.
AssetUnusable(r) ==
  /\ stage[r] \in {"network", "refresh"}
  /\ Finish(r) /\ Answer(r, "ok")
  /\ UNCHANGED <<asked, body, visit, current, siteVars, since>>

AssetFails(r) ==
  /\ stage[r] \in {"network", "refresh", "saving"}
  /\ Finish(r)
  /\ IF stage[r] = "network" THEN Answer(r, "503") ELSE UNCHANGED replied
  /\ UNCHANGED <<asked, body, visit, current, siteVars, since>>

Put(r) ==
  /\ stage[r] \in {"saving", "storing"}
  /\ Finish(r)
  /\ assets' = body[r]
  /\ UNCHANGED <<asked, body, replied, visit, current, fresh, deployed, since>>

PutFails(r) ==
  /\ stage[r] = "storing"
  /\ Finish(r)
  /\ UNCHANGED <<asked, body, replied, visit, current, siteVars, since>>
----------------------------------------------------------------------------
(* A navigation.  One to a whitelisted address changes nothing.  Any other  *)
(* aborts what is registered with the worker, by whomever.                  *)
Aborted == {r \in Requests : {First(r), Proxy(r)} \cap controllers # {}}

CodeOf(r) ==
  IF stage[r] \in {"origin", "proxy"} THEN "499"
  ELSE IF stage[r] = "network" THEN "503"
  ELSE replied[r]

Release(t) ==
  /\ stage' = [r \in Requests |-> IF r \in Aborted THEN "over" ELSE stage[r]]
  /\ timer' = [r \in Requests |-> timer[r] /\ r \notin Aborted]
  /\ replied' = [r \in Requests |-> IF r \in Aborted THEN CodeOf(r) ELSE replied[r]]
  /\ controllers' = {}
  /\ UNCHANGED <<asked, body, current, siteVars, since>>

Navigate(t) ==
  /\ visit[t] # "fetching"
  /\ Release(t)
  /\ \E v \in {"fetching", "offline"} : visit' = [visit EXCEPT ![t] = v]

(* handleNavigation: the page, or the offline page for whatever goes wrong. *)
NavigationEnds(t) ==
  /\ visit[t] = "fetching"
  /\ \E v \in {"page", "offline"} : visit' = [visit EXCEPT ![t] = v]
  /\ UNCHANGED <<reqVars, controllers, current, siteVars, since>>

NavigationTimeout(t) ==
  /\ visit[t] = "fetching"
  /\ visit' = [visit EXCEPT ![t] = "offline"]
  /\ UNCHANGED <<reqVars, controllers, current, siteVars, since>>
----------------------------------------------------------------------------
Deploy ==
  /\ deployed < MaxDeployed
  /\ deployed' = deployed + 1
  /\ UNCHANGED <<reqVars, controllers, visit, current, assets, fresh, since>>

(* A shared cache stores what the server gave somebody else; a copy gets    *)
(* too old, or is evicted, and the next oldest or none is left.             *)
HTTPCacheFills ==
  /\ fresh = 0
  /\ fresh' = deployed
  /\ UNCHANGED <<reqVars, controllers, visit, current, assets, deployed, since>>

HTTPCacheExpires ==
  /\ fresh # 0
  /\ \E v \in {0} \cup fresh + 1 .. deployed : fresh' = v
  /\ UNCHANGED <<reqVars, controllers, visit, current, assets, deployed, since>>

(* No event waits for the worker: its last refreshes and puts are lost when *)
(* the browser stops it.                                                    *)
Unneeded ==
  /\ \A t \in Tabs : visit[t] # "fetching"
  /\ \A r \in Requests : asked[r] # NoTab => replied[r] # "none"
Drop ==
  /\ Unneeded
  /\ stage' = [r \in Requests |-> IF asked[r] # NoTab THEN "over" ELSE stage[r]]
  /\ controllers' = {}
  /\ UNCHANGED <<asked, timer, body, replied, visit>>

Stop ==
  /\ \E r \in Requests : stage[r] \notin {"idle", "over"}
  /\ Drop
  /\ UNCHANGED <<current, siteVars, since>>

\* Mutant: activation keeps what older versions stored.
ActivateKeeping ==
  /\ current < MaxWorker
  /\ Drop
  /\ current' = current + 1
  /\ since' = Oldest
  /\ UNCHANGED siteVars

(* A new sw.js is in charge: it has deleted every cache but its own.        *)
Activate ==
  /\ current < MaxWorker
  /\ Drop
  /\ current' = current + 1
  /\ assets' = 0
  /\ since' = Oldest
  /\ UNCHANGED <<fresh, deployed>>
----------------------------------------------------------------------------
SWInit ==
  /\ asked = [r \in Requests |-> NoTab]
  /\ stage = [r \in Requests |-> "idle"]
  /\ timer = [r \in Requests |-> FALSE]
  /\ body = [r \in Requests |-> 0]
  /\ replied = [r \in Requests |-> "none"]
  /\ controllers = {}
  /\ visit = [t \in Tabs |-> "page"]
  /\ current = 1
  /\ assets \in {0, 1} /\ fresh \in {0, 1}
  /\ deployed = 1
  /\ since = 1

Handle(r) ==
  \/ \E t \in Tabs : AskImage(r, t) \/ AskAsset(r, t)
  \/ ImageArrives(r) \/ ImageFails(r) \/ ImageTimeout(r) \/ ProxyAnswers(r)
  \/ AssetArrives(r) \/ RefreshArrives(r) \/ AssetUnusable(r) \/ AssetFails(r)
  \/ Put(r) \/ PutFails(r)

Visit(t) == Navigate(t) \/ NavigationEnds(t) \/ NavigationTimeout(t)

SWNext ==
  \/ \E r \in Requests : Handle(r)
  \/ \E t \in Tabs : Visit(t)
  \/ Deploy \/ HTTPCacheFills \/ HTTPCacheExpires \/ Activate \/ Stop

SWSpec == SWInit /\ [][SWNext]_swVars

(* Of time alone: timers that are set fire.  Neither origin nor proxy need  *)
(* ever answer.                                                             *)
SWFairness ==
  /\ \A r \in Requests : WF_swVars(ImageTimeout(r))
  /\ \A t \in Tabs : WF_swVars(NavigationTimeout(t))
----------------------------------------------------------------------------
SWTypeOK ==
  /\ asked \in [Requests -> Tabs \cup {NoTab}]
  /\ stage \in [Requests -> Stage]
  /\ timer \in [Requests -> BOOLEAN]
  /\ body \in [Requests -> 0 .. deployed]
  /\ replied \in [Requests -> Reply]
  /\ controllers \subseteq {First(r) : r \in Requests} \cup {Proxy(r) : r \in Requests}
  /\ visit \in [Tabs -> {"page", "fetching", "offline"}]
  /\ current \in 1 .. MaxWorker
  /\ assets \in 0 .. deployed /\ fresh \in 0 .. deployed
  /\ deployed \in 1 .. MaxDeployed
  /\ since \in 1 .. deployed

(* Raising VERSION in sw.js is how a stale cache is got rid of: although    *)
(* refreshes land late and out of order, nothing that was gone everywhere   *)
(* else when the worker in charge was activated is ever in its cache.  It   *)
(* is no newer than that: the default cache mode lets the HTTP caches fill  *)
(* the new cache with a copy older than the server's.                       *)
NothingFromBefore == assets # 0 => assets >= since

(* activeControllers holds exactly the requests whose handlers wait in their*)
(* try: no path through the nested handlers leaves a controller behind, and *)
(* none takes one out early.                                                *)
RegisteredWhileAwaited ==
  /\ \A r \in Requests : First(r) \in controllers <=> stage[r] \in Awaited
  /\ \A r \in Requests : Proxy(r) \in controllers <=> stage[r] = "proxy"

(* A navigation waits no longer than its timeout for a page to begin, and a *)
(* picture for its origin to answer, even if nobody ever does.  A timer ends*)
(* with the head of the answer: a body that stalls is the page's affair.    *)
TimeoutsEnd ==
  /\ \A t \in Tabs : visit[t] = "fetching" ~> visit[t] # "fetching"
  /\ \A r \in Requests : stage[r] = "origin" ~> stage[r] # "origin"
=============================================================================
