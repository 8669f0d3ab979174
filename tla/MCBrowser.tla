------------------------------ MODULE MCBrowser ------------------------------
(***************************************************************************)
(* The smaller scripts of the browser share no state, so one run goes      *)
(* through them one at a time: part says whose turn it is, and the others  *)
(* stay put.  The translations of tags are in MCShared.                    *)
(***************************************************************************)
EXTENDS ServiceWorker, GalleryReader, GMStore, PageWalk

VARIABLE part

Of(p, Step, others) == part = p /\ Step /\ UNCHANGED <<part, others>>

MCInit ==
  /\ part \in {"worker", "reader", "store", "walk"}
  /\ SWInit /\ (part # "worker" => assets = 0 /\ fresh = 0)
  /\ ReaderInit /\ (part # "reader" => box = PageLinks(0))
  /\ GMInit /\ (part # "store" => store = [k \in Keys |-> Absent])
  /\ WalkInit /\ (part # "walk" => opened = 0 /\ plain)

MCNext ==
  \/ Of("worker", SWNext, <<readerVars, gmVars, walkVars>>)
  \/ Of("reader", ReaderNext, <<swVars, gmVars, walkVars>>)
  \/ Of("store", GMNext, <<swVars, readerVars, walkVars>>)
  \/ Of("walk", WalkNext, <<swVars, readerVars, gmVars>>)

MCSpec ==
  MCInit /\ [][MCNext]_<<part, swVars, readerVars, gmVars, walkVars>> /\ SWFairness
=============================================================================
