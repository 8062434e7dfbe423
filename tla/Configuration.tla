---------------------------- MODULE Configuration ----------------------------
(***************************************************************************)
(* What the Management API makes of its environment: config.Load and the   *)
(* URLs derived from the Logto domain.                                     *)
(*                                                                         *)
(* Abstractions.  URLs are sequences of parts; the origin of the tenant,   *)
(* "https://tenant.logto.app", is one part.  Values that are only passed   *)
(* on are left out, and of an interval only how time.ParseDuration and     *)
(* the refresh loop read it is kept.                                       *)
(***************************************************************************)
EXTENDS SequencesExt

\* What validate requires, besides a domain.
Secrets == {"DATABASE_URL", "FLY_API_TOKEN", "FLY_ORG"}

Parts == {"tenant", "/", "oidc", "jwks"}
Url == Seq(Parts)
Unset == <<>>

\* set: the secrets that are not empty.  domain: LOGTO_DOMAIN.
\* jwks: LOGTO_JWKS_URL.  refresh: JWKS_REFRESH_INTERVAL.
Environment ==
  [set : SUBSET Secrets, domain : Url, jwks : Url,
   refresh : {"unset", "malformed", "positive", "notPositive"}]

NoEnvironment == [set |-> {}, domain |-> Unset, jwks |-> Unset, refresh |-> "unset"]

\* strings.TrimRight(s, "/") and strings.TrimSuffix.
TrimSlashes(s) == SubSeq(s, 1, SelectLastInSeq(s, LAMBDA part : part # "/"))
TrimSuffix(s, suffix) ==
  IF IsSuffix(suffix, s) THEN SubSeq(s, 1, Len(s) - Len(suffix)) ELSE s

\* Mutant: the slash before the suffix is left.
NormalizeOnce(s) == TrimSuffix(TrimSlashes(s), <<"/", "oidc">>)

\* normalizeLogtoDomain.
Normalize(s) == TrimSlashes(TrimSuffix(TrimSlashes(s), <<"/", "oidc">>))

\* validate, which sees the normalized domain.
Missing(e) ==
  (Secrets \ e.set) \cup (IF Normalize(e.domain) = Unset THEN {"LOGTO_DOMAIN"} ELSE {})

\* OIDCIssuer and JWKSURL.
Issuer(e) == Normalize(e.domain) \o <<"/", "oidc">>
JWKSURL(e) == IF e.jwks # Unset THEN e.jwks ELSE Issuer(e) \o <<"/", "jwks">>

\* An interval that does not parse counts as unset, 15 minutes.
Refreshes(e) == e.refresh # "notPositive"

-----------------------------------------------------------------------------
\* What Logto puts in the tokens of the tenant, and where it serves their keys.
TenantIssuer == <<"tenant">> \o <<"/", "oidc">>
TenantKeys == TenantIssuer \o <<"/", "jwks">>

\* The ways to write the tenant's domain that the comments allow: bare or with
\* the OIDC path, and slashes at the end of either.
Slashes(n) == [i \in 1 .. n |-> "/"]
Spellings(n) ==
  {<<"tenant">> \o Slashes(a) : a \in 0 .. n} \cup
  {<<"tenant">> \o Slashes(b) \o <<"oidc">> \o Slashes(a) : b \in 1 .. n, a \in 0 .. n}
=============================================================================
