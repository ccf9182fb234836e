----------------------------- MODULE MCSessions -----------------------------
(* Small instances of Sessions, and what a comment of the repository says  *)
(* of them and the code does not do.                                       *)
EXTENDS Sessions, TLC

CONSTANTS a, b, first, second, other

(* Two calls in one tab, one in another. *)
TwoTabs == (first :> a) @@ (second :> a) @@ (other :> b)

(* stores/auth.ts:34 says that the interceptor handles the redirect on an  *)
(* unrecoverable 401: when the refresh for a denied call has failed, its   *)
(* tab is on the login page.                                               *)
FailedRefreshReachesLogin ==
  [][\A t \in Tabs : RefreshFailed(t) => page'[t] = "login"]_vars
=============================================================================
