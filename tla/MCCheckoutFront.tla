--------------------------- MODULE MCCheckoutFront ---------------------------
(* CheckoutFront for TLC: three requests, one key, the sets of faults.     *)
EXTENDS CheckoutFront

FrontFaults == {{}, {"db"}, {"ctx", "crash"}}
NoFault == {{}}
==============================================================================
