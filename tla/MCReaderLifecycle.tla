-------------------------- MODULE MCReaderLifecycle --------------------------
(***************************************************************************)
(* ReaderLifecycle on small instances.                                     *)
(***************************************************************************)
EXTENDS ReaderLifecycle

\* The server refuses requests, and Run's caller may stop waiting.
RefusalFaults == {"refuse", "permanent", "runExpires"}

\* A watcher may fail for good, and Close's caller may stop waiting.
ImpatientFaults == {"permanent", "closeExpires"}

=============================================================================
