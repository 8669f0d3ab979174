------------------------------ MODULE MCShared ------------------------------
(***************************************************************************)
(* The two databases that many write: the board's tables, used by requests,*)
(* and the storage of translations, used by windows.  They share no state, *)
(* so one run goes through them one at a time: part says whose turn it is, *)
(* and the other stays put.  Of the translations it goes through a page    *)
(* that is left and opened again, and through one whose popup is used and  *)
(* that stays until every put is done.  Posters are interchangeable.       *)
(***************************************************************************)
EXTENDS Forum, TagDatabase, TLC

VARIABLE part

PosterSymmetry == Permutations(Posters)

MCInit ==
  /\ part \in {"board", "reload", "popup"}
  /\ Init
  /\ TagInit /\ (part = "board" => disk = NoItems /\ loaded)

MCNext ==
  /\ UNCHANGED part
  /\ \/ part = "board" /\ Next /\ UNCHANGED tagVars
     \/ /\ part = "reload" /\ TagNext /\ UNCHANGED vars
        /\ \A h \in Presses : task'[h] = "idle"
     \/ part = "popup" /\ TagNext /\ UNCHANGED <<vars, loads, lost>>

MCSpec == MCInit /\ [][MCNext]_<<part, vars, tagVars>>
=============================================================================
