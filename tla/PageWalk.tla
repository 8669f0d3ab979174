------------------------------- MODULE PageWalk -------------------------------
(***************************************************************************)
(* Two walks over a gallery, one page fetched after the other.  The        *)
(* waterfall of ex.js follows the link to the next picture from the page   *)
(* it is opened on, and stops where a page links to itself; venera.js hands*)
(* the comic reader one sheet of thumbnails at a time, and with it what to *)
(* ask for next.  Pictures and sheets are numbered, and the address of a   *)
(* picture is its number: the mirror takes the host out of every link it   *)
(* serves (exhentai.go:509), so that it makes no difference that ex.js     *)
(* strips it from all links (607) but the first (572).  The address a page *)
(* was opened at may have more to it than its picture's.                   *)
(***************************************************************************)
EXTENDS Integers, Sequences

CONSTANTS
  Pictures,    \* pictures in the gallery
  PerSheet     \* thumbnails on a sheet

ASSUME WalkAssumption == Pictures \in Nat \ {0} /\ PerSheet \in Nat \ {0}

VARIABLES
  opened,      \* the picture of the page the waterfall is started on
  plain,       \* that page was opened at the address others link to it by
  hn, ln,      \* the next address, and that of the page before
  strip,       \* pictures appended
  walk,        \* idle, reading, done; cut short; dead
  thumbnails,  \* what venera.js has handed over
  ask          \* the sheet it asks for next

waterfallVars == <<opened, plain, hn, ln, strip, walk>>
sheetVars == <<thumbnails, ask>>
walkVars == <<waterfallVars, sheetVars>>

Final == Pictures - 1
Following(i) == IF i = Final THEN Final ELSE i + 1   \* the link to the next
Elsewhere == -1
NoMore == -1
MaxPage == (Pictures - 1) \div PerSheet
Sheet(p) == [k \in 1 .. (IF p < MaxPage THEN PerSheet ELSE Pictures - p * PerSheet)
               |-> p * PerSheet + k - 1]
----------------------------------------------------------------------------
(* The button, which is removed; without #i1 or #next it does nothing more. *)
Click ==
  /\ walk = "idle"
  /\ hn' = Following(opened)
  /\ ln' = IF plain THEN opened ELSE Elsewhere
  /\ walk' \in {"dead", IF hn' # ln' THEN "reading" ELSE "done"}
  /\ UNCHANGED <<opened, plain, strip, sheetVars>>

\* Mutant: the page before is not kept up to date.
AppendPictureOnly ==
  /\ walk = "reading"
  /\ strip' = Append(strip, hn)
  /\ hn' = Following(hn)
  /\ walk' = IF hn' # ln THEN "reading" ELSE "done"
  /\ UNCHANGED <<opened, plain, ln, sheetVars>>

AppendPicture ==
  /\ walk = "reading"
  /\ strip' = Append(strip, hn)
  /\ ln' = hn
  /\ hn' = Following(hn)
  /\ walk' = IF hn' # ln' THEN "reading" ELSE "done"
  /\ UNCHANGED <<opened, plain, sheetVars>>

(* A page without a link is the last.                                       *)
AppendUnlinked ==
  /\ walk = "reading"
  /\ strip' = Append(strip, hn)
  /\ ln' = hn
  /\ walk' = "cut"
  /\ UNCHANGED <<opened, plain, hn, sheetVars>>

(* A page without a picture ends the loop; a page that cannot be fetched    *)
(* leaves doc undefined, whose use throws.                                  *)
NoPage ==
  /\ walk = "reading"
  /\ walk' \in {"cut", "dead"}
  /\ UNCHANGED <<opened, plain, hn, ln, strip, sheetVars>>

(* loadThumbnails; when it throws, nothing has changed.                     *)
LoadThumbnails ==
  /\ ask # NoMore
  /\ thumbnails' = thumbnails \o Sheet(ask)
  /\ ask' = IF ask + 1 > MaxPage THEN NoMore ELSE ask + 1
  /\ UNCHANGED waterfallVars
----------------------------------------------------------------------------
WalkInit ==
  /\ opened \in 0 .. Final /\ plain \in BOOLEAN
  /\ hn = Elsewhere /\ ln = Elsewhere
  /\ strip = <<>> /\ walk = "idle"
  /\ thumbnails = <<>> /\ ask = 0

WalkNext ==
  Click \/ AppendPicture \/ AppendUnlinked \/ NoPage \/ LoadThumbnails

WalkSpec == WalkInit /\ [][WalkNext]_walkVars
----------------------------------------------------------------------------
WalkTypeOK ==
  /\ opened \in 0 .. Final /\ plain \in BOOLEAN
  /\ hn \in Elsewhere .. Final /\ ln \in Elsewhere .. Final
  /\ strip \in Seq(0 .. Final)
  /\ walk \in {"idle", "reading", "done", "cut", "dead"}
  /\ thumbnails \in Seq(0 .. Final)
  /\ ask \in {NoMore} \cup 0 .. MaxPage

(* The waterfall appends the pictures after the one it was opened on, each  *)
(* once, up to the last unless a page is at fault - but for one that was    *)
(* opened on the last page at an address of its own, which does not see     *)
(* that it is there (ex.js:574).  The sheets put together are the gallery.  *)
WalksInOrder ==
  /\ \/ ~plain /\ opened = Final /\ strip \in {<<>>, <<Final>>}
     \/ /\ \A k \in DOMAIN strip : strip[k] = opened + k
        /\ walk = "done" => opened + Len(strip) = Final
  /\ \A k \in DOMAIN thumbnails : thumbnails[k] = k - 1
  /\ ask = NoMore => Len(thumbnails) = Pictures
=============================================================================
