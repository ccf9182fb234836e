--------------------------- MODULE MCDashboardFeed ---------------------------
(* Small instances of DashboardFeed, and what the README says of the       *)
(* dashboard that it does not do.                                          *)
EXTENDS DashboardFeed, TLC

CONSTANTS order, first, second, tab, one, other

(* A tab's fetches are alike.                                              *)
Alike == Permutations(Fetches)

(* A lost connection, a failing call or a death of the server.             *)
OneInterruption == drops + faults <= 1

(* README.md:118 says that new orders and status changes push to the       *)
(* dashboard "the moment they happen": a dashboard that is open and has    *)
(* connected, without ever having lost its connection, is in its tenant's  *)
(* room, or about to be.                                                   *)
OpenDashboardListens ==
  \A t \in Tabs :
    page[t] = "open" /\ drops = 0 /\ faults = 0
    /\ (\A i \in Sockets : socket[t][i].link # "connecting")
      => \E i \in Sockets : socket[t][i].joined \/ socket[t][i].join = "sent"
=============================================================================
