---- MODULE MCIngest ----
(* IngestPipeline on small instances; the cfg files give the constants. *)
EXTENDS IngestPipeline
====
