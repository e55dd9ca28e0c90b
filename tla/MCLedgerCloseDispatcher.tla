----------------------- MODULE MCLedgerCloseDispatcher -----------------------
(* One or two subscriptions, bounds in the configurations.                   *)
EXTENDS LedgerCloseDispatcher
==============================================================================
