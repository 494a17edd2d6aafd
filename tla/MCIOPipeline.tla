---------------------------- MODULE MCIOPipeline ----------------------------
(***************************************************************************)
(* IOPipeline with short pipelines. MaxCalls bounds the calls of the       *)
(* handler, the reads among them, and MaxWrites those of write().          *)
(***************************************************************************)
EXTENDS IOPipeline, TLC

CONSTANTS decoder, encoder, remote, relay

\* A decoder and an encoder, and a pipeline of two stages with an executor.
MCStages == {decoder, encoder, remote, relay}
MCLayouts == {<<encoder, decoder>>, <<relay, remote>>}

\* A client that writes when it is connected and connects again when the
\* connection is lost, with a decoder that may find nothing and may throw, and a
\* stage with an executor that throws away what is complete.
MCReactions ==
    (MCStages \X Events \X {"forward"})
        \cup {<<encoder, "active", "write">>, <<relay, "active", "write">>,
              <<encoder, "writeComplete", "throw">>,
              <<decoder, "read", "skip">>, <<decoder, "read", "throw">>,
              <<decoder, "read", "throwAfter">>, <<decoder, "inactive", "connect">>,
              <<remote, "readComplete", "throw">>}

==============================================================================
