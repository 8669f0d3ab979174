------------------------------- MODULE Relay -------------------------------
(***************************************************************************)
(* What a streaming relay promises to each of its clients: the chunks of   *)
(* the answer arrive in the order in which they were produced, without     *)
(* gaps, and a stream that ends normally has been delivered whole.  A      *)
(* relay may give up on a stream at any time; then nothing more arrives.   *)
(* Chunk n is the n-th chunk its source produced.                          *)
(***************************************************************************)
EXTENDS Naturals, Sequences

CONSTANTS Clients, MaxChunks

VARIABLES
  produced,    \* produced[c]: chunks the source has produced for c
  sealed,      \* sealed[c]: the source has ended c's answer
  delivered,   \* delivered[c]: chunks c has received
  outcome      \* "open", "complete" or "aborted"

relayVars == <<produced, sealed, delivered, outcome>>

Init ==
  /\ produced = [c \in Clients |-> 0]
  /\ sealed = [c \in Clients |-> FALSE]
  /\ delivered = [c \in Clients |-> <<>>]
  /\ outcome = [c \in Clients |-> "open"]

Produce(c) ==
  /\ ~sealed[c] /\ produced[c] < MaxChunks
  /\ produced' = [produced EXCEPT ![c] = @ + 1]
  /\ UNCHANGED <<sealed, delivered, outcome>>

Seal(c) ==
  /\ ~sealed[c]
  /\ sealed' = [sealed EXCEPT ![c] = TRUE]
  /\ UNCHANGED <<produced, delivered, outcome>>

Deliver(c) ==
  /\ outcome[c] = "open"
  /\ Len(delivered[c]) < produced[c]
  /\ delivered' = [delivered EXCEPT ![c] = Append(@, Len(@) + 1)]
  /\ UNCHANGED <<produced, sealed, outcome>>

Complete(c) ==
  /\ outcome[c] = "open"
  /\ sealed[c] /\ Len(delivered[c]) = produced[c]
  /\ outcome' = [outcome EXCEPT ![c] = "complete"]
  /\ UNCHANGED <<produced, sealed, delivered>>

Abort(c) ==
  /\ outcome[c] = "open"
  /\ outcome' = [outcome EXCEPT ![c] = "aborted"]
  /\ UNCHANGED <<produced, sealed, delivered>>

Next == \E c \in Clients : Produce(c) \/ Seal(c) \/ Deliver(c) \/ Complete(c) \/ Abort(c)

Spec == Init /\ [][Next]_relayVars
=============================================================================
