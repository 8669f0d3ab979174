---------------------------- MODULE GalleryReader ----------------------------
(***************************************************************************)
(* gscript.js and reader.js on the page of a gallery.  The first replaces  *)
(* the links of the page at hand by those of all pages of the gallery, one *)
(* fetch after the other; the second collects links, looks pictures up     *)
(* ahead of time, and on a click turns the page into a viewer that can be  *)
(* asked to reload a picture from another server.  ex.js injects both, and *)
(* injected scripts run in any order.                                      *)
(*                                                                         *)
(* JavaScript runs one callback at a time; an action is one callback with  *)
(* the promise callbacks it resolves.  A link is [img, nl]: the number of  *)
(* a picture and how often it was reloaded, 0 for the plain address; a     *)
(* source is the same for the picture that was found there.  The key that  *)
(* reloads a picture is the nl of the next attempt.  Pictures are numbered *)
(* in the order of the gallery; zooming and dragging are left out.         *)
(***************************************************************************)
EXTENDS Integers, Sequences, FiniteSets

CONSTANTS
  Pages,       \* pages of the gallery
  PerPage,     \* links on a page (20)
  Ahead,       \* pictures looked up ahead (5)
  MaxTurns,    \* bound: pages turned
  MaxReloads   \* bound: reloads asked for

ASSUME GalleryAssumption == Pages \in Nat \ {0} /\ PerPage \in Nat \ {0}
ASSUME AheadAssumption == Ahead \in Nat /\ MaxTurns \in Nat /\ MaxReloads \in Nat

VARIABLES
  merging,     \* gscript: the page it fetches, Idle before it starts
  box,         \* the pictures linked from #gdt, in order
  mode,        \* the reader: loading, ready (its button is there), open
  urls,        \* PAGE_URLS
  found,       \* CACHE
  reqs,        \* REQS: which fetch of the index is the one to share, 0 for none
  keyOf,       \* RELOAD_KEYS, 0 for none
  made,        \* fetches made for an index, which numbers them
  flights,     \* fetches that are under way
  index, src, failed,   \* state of the viewer: page, picture, isError
  wanted,      \* the fetch whose result the page on view waits for (m is true)
  reloading,   \* fetches whose result a reload will show
  turns, reloads,       \* how often the user did what
  moved,       \* history: the viewer was opened on a list that disagrees with
               \* the one that CACHE and REQS were filled from
  strayed      \* history: a page was turned while a reload was under way

mergeVars  == <<merging, box>>
lookupVars == <<found, reqs, keyOf, made, flights>>
viewVars   == <<index, src, failed, wanted, reloading>>
userVars   == <<turns, reloads>>
readerVars == <<mergeVars, mode, urls, lookupVars, viewVars, userVars, moved, strayed>>

Idle == -1
Index == 0 .. Pages * PerPage - 1
Source == [img : Index, nl : 0 .. MaxReloads]
NoSource == [img |-> -1, nl |-> 0]
NoFlight == <<-1, 0>>

PageLinks(p) == [k \in 1 .. PerPage |-> p * PerPage + k - 1]
Links(pictures) == [k \in DOMAIN pictures |-> [img |-> pictures[k], nl |-> 0]]
Name(f) == <<f.at, f.no>>
----------------------------------------------------------------------------
(* gscript starts: it knows the number of pages, and empties the container. *)
Rebuild ==
  /\ mode # "open" /\ merging = Idle
  /\ merging' = 0
  /\ box' = <<>>
  /\ UNCHANGED <<mode, urls, lookupVars, viewVars, userVars, moved, strayed>>

(* A page of links arrives, or fails and is skipped.  Once the viewer has   *)
(* replaced the page, what gscript still appends is nowhere to be seen.     *)
PageMerged ==
  /\ mode # "open" /\ merging \in 0 .. Pages - 1
  /\ merging' = merging + 1
  /\ box' = box \o PageLinks(merging)
  /\ UNCHANGED <<mode, urls, lookupVars, viewVars, userVars, moved, strayed>>

PageSkipped ==
  /\ mode # "open" /\ merging \in 0 .. Pages - 1
  /\ merging' = merging + 1
  /\ UNCHANGED <<box, mode, urls, lookupVars, viewVars, userVars, moved, strayed>>
----------------------------------------------------------------------------
(* getSrc of the indices in S: those neither found nor being fetched are    *)
(* fetched, from the address the list has now.  q is REQS as the caller     *)
(* left it.                                                                 *)
Missing(S) == {i \in S : found[i] = NoSource /\ reqs[i] = 0}

Fetch(S, list, q) ==
  /\ reqs' = [i \in Index |-> IF i \in S THEN made[i] + 1 ELSE q[i]]
  /\ made' = [i \in Index |-> IF i \in S THEN made[i] + 1 ELSE made[i]]
  /\ flights' = flights \cup {[at |-> i, no |-> made[i] + 1, link |-> list[i + 1]] : i \in S}

(* The reader starts: preload(0) over the links it finds.                   *)
Boot ==
  /\ mode = "loading"
  /\ mode' = "ready"
  /\ urls' = Links(box)
  /\ Fetch(Missing({i \in 1 .. Ahead : i < Len(box)}), Links(box), reqs)
  /\ UNCHANGED <<mergeVars, found, keyOf, viewVars, userVars, moved, strayed>>

\* Mutant: the effect of the page that was left still shows its result.
ViewUnguarded(i, list) ==
  /\ index' = i
  /\ failed' = FALSE
  /\ src' = found[i]
  /\ wanted' = IF found[i] # NoSource \/ wanted # NoFlight THEN wanted
               ELSE <<i, IF reqs[i] # 0 THEN reqs[i] ELSE made[i] + 1>>
  /\ Fetch(Missing({j \in i .. i + Ahead : j < Len(list)}), list, reqs)

(* The effect of a page coming into view: the picture if it is known, or    *)
(* the fetch to wait for, instead of that of the page before; then preload. *)
View(i, list) ==
  /\ index' = i
  /\ failed' = FALSE
  /\ src' = found[i]
  /\ wanted' = IF found[i] # NoSource THEN NoFlight
               ELSE <<i, IF reqs[i] # 0 THEN reqs[i] ELSE made[i] + 1>>
  /\ Fetch(Missing({j \in i .. i + Ahead : j < Len(list)}), list, reqs)

(* The button: the links are collected again, CACHE and REQS stay.          *)
Open ==
  /\ mode = "ready" /\ box # <<>>
  /\ mode' = "open"
  /\ urls' = Links(box)
  /\ View(0, Links(box))
  /\ moved' = \E i \in Index : /\ found[i] # NoSource \/ reqs[i] # 0
                               /\ i < Len(box) /\ urls[i + 1].img # box[i + 1]
  /\ UNCHANGED <<mergeVars, found, keyOf, reloading, userVars, strayed>>

Turn(i) ==
  /\ mode = "open" /\ turns < MaxTurns
  /\ i \in {index - 1, index + 1} \cap 0 .. Len(urls) - 1
  /\ turns' = turns + 1
  /\ View(i, urls)
  /\ strayed' = (strayed \/ reloading # {})
  /\ UNCHANGED <<mergeVars, mode, urls, found, keyOf, reloading, reloads, moved>>

(* A fetch is answered: source s, or NoSource, and a key to reload, or 0.   *)
Arrives(f, s, key) ==
  LET shown == Name(f) \in reloading \cup {wanted}
      keys == IF key = 0 THEN keyOf ELSE [keyOf EXCEPT ![f.at] = key]
  IN
  /\ keyOf' = keys
  /\ found' = IF s = NoSource THEN found ELSE [found EXCEPT ![f.at] = s]
  /\ reqs' = [reqs EXCEPT ![f.at] = 0]
  /\ flights' = flights \ {f}
  /\ src' = IF shown THEN s ELSE src
  /\ failed' = \/ failed
               \/ shown /\ s = NoSource /\ (Name(f) \in reloading \/ keys[f.at] # 0)
  /\ wanted' = IF wanted = Name(f) THEN NoFlight ELSE wanted
  /\ reloading' = reloading \ {Name(f)}
  /\ UNCHANGED <<mergeVars, mode, urls, made, index, userVars, moved, strayed>>

FetchOk(f) == Arrives(f, f.link, f.link.nl + 1)
NoPicture(f) == Arrives(f, NoSource, f.link.nl + 1)
FetchFails(f) == Arrives(f, NoSource, 0)

(* The picture itself does not load.                                        *)
PictureFails ==
  /\ mode = "open" /\ src # NoSource /\ ~failed
  /\ failed' = TRUE
  /\ UNCHANGED <<mergeVars, mode, urls, lookupVars, index, src, wanted, reloading,
                 userVars, moved, strayed>>

(* handleReload: another address, what is known of the old one is deleted.  *)
Reload ==
  /\ mode = "open" /\ failed /\ keyOf[index] # 0 /\ reloads < MaxReloads
  /\ reloads' = reloads + 1
  /\ urls' = [urls EXCEPT ![index + 1].nl = keyOf[index]]
  /\ found' = [found EXCEPT ![index] = NoSource]
  /\ Fetch({index}, urls', [reqs EXCEPT ![index] = 0])
  /\ reloading' = reloading \cup {<<index, made[index] + 1>>}
  /\ src' = NoSource
  /\ failed' = FALSE
  /\ UNCHANGED <<mergeVars, mode, keyOf, index, wanted, turns, moved, strayed>>
----------------------------------------------------------------------------
(* The gallery is opened on any of its pages.                               *)
ReaderInit ==
  /\ merging = Idle
  /\ \E p \in 0 .. Pages - 1 : box = PageLinks(p)
  /\ mode = "loading"
  /\ urls = <<>>
  /\ found = [i \in Index |-> NoSource]
  /\ reqs = [i \in Index |-> 0]
  /\ keyOf = [i \in Index |-> 0]
  /\ made = [i \in Index |-> 0]
  /\ flights = {} /\ reloading = {}
  /\ index = 0 /\ src = NoSource /\ failed = FALSE /\ wanted = NoFlight
  /\ turns = 0 /\ reloads = 0
  /\ moved = FALSE /\ strayed = FALSE

ReaderNext ==
  \/ Rebuild \/ PageMerged \/ PageSkipped
  \/ Boot \/ Open \/ PictureFails \/ Reload
  \/ \E i \in Index : Turn(i)
  \/ \E f \in flights : FetchOk(f) \/ NoPicture(f) \/ FetchFails(f)

ReaderSpec == ReaderInit /\ [][ReaderNext]_readerVars
----------------------------------------------------------------------------
ReaderTypeOK ==
  /\ merging \in Idle .. Pages
  /\ box \in Seq(Index)
  /\ mode \in {"loading", "ready", "open"}
  /\ urls \in Seq(Source)
  /\ found \in [Index -> Source \cup {NoSource}]
  /\ reqs \in [Index -> Nat] /\ keyOf \in [Index -> Nat] /\ made \in [Index -> Nat]
  /\ \A f \in flights : f.at \in Index /\ f.no \in 1 .. made[f.at] /\ f.link \in Source
  /\ index \in Index /\ src \in Source \cup {NoSource}
  /\ failed \in BOOLEAN /\ moved \in BOOLEAN /\ strayed \in BOOLEAN
  /\ \A n \in reloading : \E f \in flights : Name(f) = n
  /\ wanted = NoFlight \/ \E f \in flights : Name(f) = wanted

(* What the viewer shows is the picture its list has at the page on view,   *)
(* however late a lookup of another page is answered, but for two cases:    *)
(* the links were others when the lookups were made, or the reader turned   *)
(* the page before a reload came back.                                      *)
ShowsPageOnView ==
  mode = "open" /\ src # NoSource /\ ~moved /\ ~strayed => src.img = urls[index + 1].img
=============================================================================
