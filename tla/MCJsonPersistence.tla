------------------------- MODULE MCJsonPersistence --------------------------
(* Instances of JsonPersistence for TLC.                                   *)
EXTENDS JsonPersistence

\* Three ids, one of which a caller uses for two events.
MCContents ==
    {[event_id |-> 1, action |-> "requested"], [event_id |-> 1, action |-> "validated"],
     [event_id |-> 2, action |-> "validated"], [event_id |-> 3, action |-> "validated"]}

=============================================================================
