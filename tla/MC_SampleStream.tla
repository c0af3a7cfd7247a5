-------------------------- MODULE MC_SampleStream --------------------------
(* Values for model-checking SampleStream: all of them are in the .cfg.    *)
EXTENDS SampleStream
=============================================================================
