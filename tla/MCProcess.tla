----------------------------- MODULE MCProcess ------------------------------
(***************************************************************************)
(* Values for the constants of Process in the TLC runs.                    *)
(***************************************************************************)
EXTENDS Process

CONSTANTS p1, p2

AnyFault == Faults
FetchRefused == {"refused"}

Complete == [set |-> Secrets, domain |-> <<"tenant">>, jwks |-> Unset, refresh |-> "unset"]

\* First the domain with the OIDC path, the bare one with the keys' URL given,
\* and nothing but a slash; then slashes to spare and no refreshing, the path
\* given twice, and no token.
RollingEnvironments ==
  (p1 :> {[Complete EXCEPT !.domain = <<"tenant", "/", "oidc", "/">>, !.refresh = "malformed"],
          [Complete EXCEPT !.jwks = TenantKeys, !.refresh = "positive"],
          [Complete EXCEPT !.domain = <<"/">>]}) @@
  (p2 :> {[Complete EXCEPT !.domain = <<"tenant", "/", "/", "oidc">>, !.refresh = "notPositive"],
          [Complete EXCEPT !.domain = <<"tenant", "/", "oidc", "/", "oidc">>],
          [Complete EXCEPT !.set = Secrets \ {"FLY_API_TOKEN"}]})
=============================================================================
