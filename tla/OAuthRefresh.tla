---------------------------- MODULE OAuthRefresh ----------------------------
(***************************************************************************)
(* ensure_valid_oauth_credentials (oauth_refresh.rs), called before a      *)
(* provider is made.  The caller stores the credentials of an Ok; those of *)
(* an Err are lost.                                                        *)
(***************************************************************************)
EXTENDS StatementApi

others == <<request, waited, statement, got, out, rx, misread>>

\* Err: the stored credentials stay as they are.
Reject(a) ==
  /\ pc' = "unmade"
  /\ answer' = a
  /\ UNCHANGED <<others, token>>

Accepted ==
  /\ pc' = "connect"
  /\ UNCHANGED <<others, answer, auth, revoked>>

Unchanged == Accepted /\ UNCHANGED <<life, access, expiry, refresh, tokenless>>

\* Mutant: the buffer is dropped.
IsTokenExpiredLate == expiry = 0
\* Missing, unparseable, or within the buffer.
IsTokenExpired == expiry = Unknown \/ expiry <= TokenBuffer

\* The access token, the expiry and the refresh token are replaced each on its
\* own, if the response has them.  (A rotated refresh token is still one.)
ApplyRefreshResponse ==
  /\ Accepted
  /\ \/ life' = MaxLife /\ access' = TRUE /\ tokenless' = FALSE
     \/ UNCHANGED <<life, access>> /\ tokenless' = TRUE
  /\ expiry' \in {MaxLife, expiry}
  /\ UNCHANGED refresh

\* exchange_m2m_token fails without an access token; expires_in is optional.
StoreM2mToken ==
  /\ Accepted
  /\ life' = MaxLife
  /\ access' = TRUE
  /\ expiry' \in {MaxLife, expiry}
  /\ UNCHANGED <<refresh, tokenless>>

\* A revoked grant is irrecoverable.  The copy without the refresh token is
\* dropped with the Err.
PostTokenRequest ==
  \/ Reject(Error)
  \/ IF revoked THEN Reject([status |-> "reauthorize"]) ELSE ApplyRefreshResponse

\* Each provider has settings without which no request is made.
RefreshBigqueryEnterprise == Reject(Error) \/ PostTokenRequest
RefreshSnowflake == Reject(Error) \/ PostTokenRequest
RefreshDatabricks == Reject(Error) \/ PostTokenRequest

HandleDatabricksM2m ==
  IF auth # "m2m" \/ (access /\ ~IsTokenExpired)
  THEN Unchanged
  ELSE Reject(Error) \/ StoreM2mToken

EnsureValidOauthCredentials ==
  CASE ~refresh /\ provider = "databricks" -> HandleDatabricksM2m
    [] ~refresh /\ provider # "databricks" -> Unchanged
    [] refresh /\ ~IsTokenExpired -> Unchanged
    [] refresh /\ IsTokenExpired /\ provider = "bigquery" -> RefreshBigqueryEnterprise
    [] refresh /\ IsTokenExpired /\ provider = "snowflake" -> RefreshSnowflake
    [] refresh /\ IsTokenExpired /\ provider = "databricks" -> RefreshDatabricks

\* The user or the authorisation server withdraws the grant.
Revoke ==
  /\ ~revoked
  /\ revoked' = TRUE
  /\ UNCHANGED <<others, pc, answer, auth, life, access, expiry, refresh, tokenless>>
=============================================================================
