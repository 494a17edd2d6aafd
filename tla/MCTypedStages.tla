--------------------------- MODULE MCTypedStages ---------------------------
(***************************************************************************)
(* TypedStages with the pipelines of the example, a stage of two requests  *)
(* before one of what both become, and a stage that reads by value behind  *)
(* the decoder; and with one of three stages whose types overlap. Nothing  *)
(* is bounded but the lengths of the pipelines and of the lists of types.  *)
(***************************************************************************)
EXTENDS TypedStages

Multi(types) == [types |-> types, dereferences |-> FALSE]
ByValue(type) == [types |-> <<type>>, dereferences |-> TRUE]

MCChains ==
    {<<Multi(<<"request", "monitored">>), Multi(<<"event">>)>>,
     <<ByValue("event"), Multi(<<"request">>)>>,
     <<Multi(<<"event", "request", "monitored">>), Multi(<<"monitored", "event">>),
       Multi(<<"request", "event">>)>>}

==============================================================================
