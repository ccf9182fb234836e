---------------------------- MODULE MCGrokAgent ----------------------------
(* Small instances of GrokAgent. *)
EXTENDS GrokAgent, TLC

CONSTANTS order, details

(* The model takes from a message what is in it, or nothing. *)
Facets ==
  [m \in Messages |->
    CASE m = order   -> {{}, {"item"}}
      [] m = details -> {{}, {"name", "phone", "address"}}]

(* A customer who has ordered before, and one the page has never seen. *)
Anyone == {Details, {}}

(* A call fails or the process dies, but not both, and the process not     *)
(* together with a change by staff.                                        *)
OneInterruption == faults + crashes <= 1 /\ (updates = 0 \/ crashes = 0)
=============================================================================
