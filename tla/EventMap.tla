------------------------------ MODULE EventMap ------------------------------
(***************************************************************************)
(* What the event table promises a configuration tool that teaches by      *)
(* event (EVLRN): a map from events to their event variables, with room    *)
(* for Capacity of them, in which a new event starts with every variable   *)
(* unset.  There are no slots, no hash table and no order in this module.  *)
(* A loss of power in the middle of a write leaves a damaged table, of     *)
(* which nothing is promised until all events are cleared.                 *)
(***************************************************************************)
EXTENDS Integers, FiniteSets

CONSTANTS
  Capacity,    \* the most events that are kept
  EvNum,       \* the numbers of the event variables
  Value,       \* the values of an event variable
  Unset,       \* the value of one that was never written
  Event        \* the events

VARIABLES
  events,      \* a function from the events known to their variables
  reply,       \* how the last message was answered
  damaged      \* whether a write was torn since the last clear

vars == <<events, reply, damaged>>

Known == DOMAIN events

With(e, evs) == [k \in Known \cup {e} |-> IF k = e THEN evs ELSE events[k]]

Init == events = <<>> /\ reply = <<"none">> /\ damaged \in BOOLEAN

(* Reading, counting, refusing: the map stays as it is.  "OK" is only for  *)
(* what was done and "TOO_MANY_EVENTS" only for a full table.              *)
Observe ==
  /\ reply'[1] \notin {"OK", "TOO_MANY_EVENTS", "handled", "ignored"}
  /\ UNCHANGED <<events, damaged>>

Learn(e, n, v) ==
  /\ reply' = <<"OK">>
  /\ e \notin Known => Cardinality(Known) < Capacity
  /\ LET old == IF e \in Known THEN events[e] ELSE [k \in EvNum |-> Unset]
     IN  events' = With(e, [old EXCEPT ![n] = v])
  /\ UNCHANGED damaged

LearnRefused ==
  /\ reply' = <<"TOO_MANY_EVENTS">>
  /\ Cardinality(Known) = Capacity
  /\ UNCHANGED <<events, damaged>>

Unlearn(e) ==
  /\ reply' = <<"OK">>
  /\ e \in Known
  /\ events' = [k \in Known \ {e} |-> events[k]]
  /\ UNCHANGED damaged

(* The module makes an event of its own for the variables given.           *)
Create(e, evs) ==
  /\ reply' \in {<<"produced">>, <<"none">>}
  /\ e \notin Known
  /\ Cardinality(Known) < Capacity
  /\ events' = With(e, evs)
  /\ UNCHANGED damaged

(* An event arrives: the application is called if the map has it.          *)
Handle ==
  /\ reply' \in ({"handled"} \X Known) \cup ({"ignored"} \X (Event \ Known))
  /\ UNCHANGED <<events, damaged>>

Clear == events' = <<>> /\ reply' = <<"OK">> /\ damaged' = FALSE

Damage == damaged' = TRUE

Next ==
  \/ Damage
  \/ Observe \/ Handle
  \/ \E e \in Event, n \in EvNum, v \in Value : Learn(e, n, v)
  \/ LearnRefused
  \/ \E e \in Event : Unlearn(e)
  \/ \E e \in Event, evs \in [EvNum -> Value] : Create(e, evs)
  \/ Clear

Spec == Init /\ [][Next]_vars
=============================================================================
