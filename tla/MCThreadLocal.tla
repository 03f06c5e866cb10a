--------------------------- MODULE MCThreadLocal ---------------------------
(* An instance of the thread local storage for model checking. *)
EXTENDS ThreadLocal
=============================================================================
