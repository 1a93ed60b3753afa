-------------------------- MODULE MCServiceWorker --------------------------
(* Small instances of ServiceWorker for TLC.                               *)
EXTENDS ServiceWorker
=============================================================================
