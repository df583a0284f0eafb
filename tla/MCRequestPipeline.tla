------------------------- MODULE MCRequestPipeline -------------------------
(***************************************************************************)
(* Calls of every kind: buffered, streamed, translated, relayed, dry run.  *)
(***************************************************************************)
EXTENDS RequestPipeline

Managed(in, up, streamed) ==
    [inbound |-> in, upstream |-> up, stream |-> streamed, relay |-> FALSE,
     replayable |-> TRUE, dry_run |-> FALSE]
RelayOf(p, safe) ==
    [inbound |-> p, upstream |-> p, stream |-> TRUE, relay |-> TRUE,
     replayable |-> safe, dry_run |-> FALSE]

EveryCall ==
    { Managed("responses", "responses", TRUE), Managed("chat", "messages", TRUE),
      Managed("messages", "messages", FALSE), RelayOf("custom", FALSE),
      RelayOf("responses", TRUE),
      [Managed("chat", "chat", FALSE) EXCEPT !.dry_run = TRUE] }

Translated == { Managed("chat", "responses", TRUE) }
=============================================================================
