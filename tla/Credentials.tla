----------------------------- MODULE Credentials -----------------------------
(***************************************************************************)
(* One connector account and its stored credentials: connect and revoke of *)
(* apps/api/src/modules/connectors/routes.ts, the lookup and the token     *)
(* refresh of apps/worker/src/connectors.ts, and the OAuth provider as     *)
(* they use it.  The account is three rows (connector_accounts,            *)
(* connector_secrets_metadata, connector_secrets), written without a       *)
(* transaction, one statement at a time.                                   *)
(***************************************************************************)
EXTENDS Naturals

CONSTANTS
  Admins,   \* concurrent requests that revoke the account
  Loops,    \* worker loops that run a node of this account
  MaxToken  \* bound: refresh tokens the provider issues

ASSUME CredentialsAssumption == MaxToken \in Nat \ {0}

VARIABLES
  connect,   \* how far the request that connects the account is
  account,   \* the connector_accounts row: its status
  metadata,  \* is there a connector_secrets_metadata row?
  secret,    \* the refresh token in connector_secrets, NoToken without a row
  revoke,    \* each revocation: how far it is
  use,       \* each lookup: how far it is, the token it read
  issued,    \* the refresh token the provider issued last
  rotates,   \* does the provider issue a new one with every refresh?
  early,     \* history: a revocation listed the metadata of an unfinished connect
  lost,      \* history: a failure lost a refreshed token
  halted,    \* history: a revocation failed half way
  skipped    \* history: a revocation had no key to the secrets

rows == <<account, metadata, secret>>
history == <<early, lost, halted, skipped>>
provider == <<issued, rotates>>
vars == <<connect, rows, revoke, use, provider, history>>

NoToken == 0
Tokens == 1 .. MaxToken
NoUse == [at |-> "idle", token |-> NoToken]

TypeOK ==
  /\ connect \in {"begun", "stored", "inserted", "answered", "failed"}
  /\ account \in {"none", "active", "revoked"}
  /\ metadata \in BOOLEAN
  /\ secret \in Tokens \union {NoToken}
  /\ revoke \in [Admins -> {"idle", "found", "listed", "deleted", "clean"}]
  /\ use \in [Loops -> [at : {"idle", "active", "referred", "read", "refreshed"},
                        token : Tokens \union {NoToken}]]
  /\ issued \in Tokens /\ rotates \in BOOLEAN
  /\ early \in BOOLEAN /\ lost \in BOOLEAN /\ halted \in BOOLEAN /\ skipped \in BOOLEAN

Init ==
  /\ connect = "begun"
  /\ account = "none" /\ metadata = FALSE /\ secret = NoToken
  /\ revoke = [a \in Admins |-> "idle"]
  /\ use = [w \in Loops |-> NoUse]
  /\ issued = 1 /\ rotates \in BOOLEAN
  /\ early = FALSE /\ lost = FALSE /\ halted = FALSE /\ skipped = FALSE

-----------------------------------------------------------------------------
(* The OAuth callback, or POST /connector-accounts/:slug/connect.          *)

StoreSecret ==
  /\ connect = "begun"
  /\ connect' = "stored"
  /\ secret' = issued
  /\ UNCHANGED <<account, metadata, revoke, use, provider, history>>

InsertAccount ==
  /\ connect = "stored"
  /\ connect' = "inserted"
  /\ account' = "active"
  /\ UNCHANGED <<metadata, secret, revoke, use, provider, history>>

InsertMetadata ==
  /\ connect = "inserted"
  /\ connect' = "answered"
  /\ metadata' = TRUE
  /\ UNCHANGED <<account, secret, revoke, use, provider, history>>

FailConnect ==
  /\ connect \in {"stored", "inserted"}
  /\ connect' = "failed"
  /\ UNCHANGED <<rows, revoke, use, provider, history>>

-----------------------------------------------------------------------------
(* POST /connector-accounts/:accountId/revoke.  The account is listed, and *)
(* can be revoked, as soon as its row is there.                            *)

FindAccount(a) ==
  /\ revoke[a] = "idle"
  /\ account # "none"
  /\ revoke' = [revoke EXCEPT ![a] = "found"]
  /\ UNCHANGED <<connect, rows, use, provider, history>>

ListMetadata(a) ==
  /\ revoke[a] = "found"
  /\ revoke' = [revoke EXCEPT ![a] = IF metadata THEN "listed" ELSE "clean"]
  /\ early' = (early \/ connect = "inserted")
  /\ UNCHANGED <<connect, rows, use, provider, lost, halted, skipped>>

(* secrets?.delete: an API that runs without CONNECTOR_SECRETS_KEY has no  *)
(* secret store, and goes on as if it had deleted.                         *)
DeleteSecret(a) ==
  /\ revoke[a] = "listed"
  /\ \/ secret' = NoToken /\ UNCHANGED skipped
     \/ skipped' = TRUE /\ UNCHANGED secret
  /\ revoke' = [revoke EXCEPT ![a] = "deleted"]
  /\ UNCHANGED <<connect, account, metadata, use, provider, early, lost, halted>>

DeleteMetadata(a) ==
  /\ revoke[a] = "deleted"
  /\ metadata' = FALSE
  /\ revoke' = [revoke EXCEPT ![a] = "clean"]
  /\ UNCHANGED <<connect, account, secret, use, provider, history>>

MarkRevoked(a) ==
  /\ revoke[a] = "clean"
  /\ account' = "revoked"
  /\ revoke' = [revoke EXCEPT ![a] = "idle"]
  /\ UNCHANGED <<connect, metadata, secret, use, provider, history>>

FailRevoke(a) ==
  /\ revoke[a] # "idle"
  /\ revoke' = [revoke EXCEPT ![a] = "idle"]
  /\ halted' = TRUE
  /\ UNCHANGED <<connect, rows, use, provider, early, lost, skipped>>

-----------------------------------------------------------------------------
(* createCredentialSource, at the head of every connector call.            *)

Drop(w) == use' = [use EXCEPT ![w] = NoUse]

FindActive(w) ==
  /\ use[w].at = "idle"
  /\ account = "active"
  /\ use' = [use EXCEPT ![w].at = "active"]
  /\ UNCHANGED <<connect, rows, revoke, provider, history>>

(* No metadata, no credentials: the lookup throws. *)
FindMetadata(w) ==
  /\ use[w].at = "active"
  /\ IF metadata THEN use' = [use EXCEPT ![w].at = "referred"] ELSE Drop(w)
  /\ UNCHANGED <<connect, rows, revoke, provider, history>>

(* retrieve: without a secret the lookup throws; shortly before the access *)
(* token expires it is refreshed, and else the credentials are handed out. *)
Retrieve(w) ==
  /\ use[w].at = "referred"
  /\ \/ Drop(w)
     \/ /\ secret # NoToken
        /\ use' = [use EXCEPT ![w] = [at |-> "read", token |-> secret]]
  /\ UNCHANGED <<connect, rows, revoke, provider, history>>

(* Mutant: the token from before is kept although a new one was issued. *)
KeepOld(w) ==
  /\ use[w].at = "read"
  /\ issued' = IF rotates THEN issued + 1 ELSE issued
  /\ use' = [use EXCEPT ![w].at = "refreshed"]

(* The provider answers with a new refresh token, or with none, and then   *)
(* the one from before is kept.                                            *)
Rotate(w) ==
  /\ use[w].at = "read"
  /\ issued' = IF rotates THEN issued + 1 ELSE issued
  /\ use' = [use EXCEPT ![w] = [at |-> "refreshed",
                                token |-> IF rotates THEN issued + 1 ELSE @.token]]

(* A provider that rotates accepts only the last token it issued. *)
Refresh(w) ==
  /\ use[w].token = issued
  /\ rotates => issued < MaxToken
  /\ Rotate(w)
  /\ UNCHANGED <<connect, rows, revoke, rotates, history>>

RefuseToken(w) ==
  /\ use[w].at = "read"
  /\ Drop(w)
  /\ UNCHANGED <<connect, rows, revoke, provider, history>>

(* Mutant: INSERT ... ON CONFLICT UPDATE. *)
Upserted(w) == use[w].token

(* An UPDATE finds no row when the secret has been deleted meanwhile. *)
Updated(w) == IF secret = NoToken THEN NoToken ELSE use[w].token

UpdateSecret(w) ==
  /\ use[w].at = "refreshed"
  /\ secret' = Updated(w)
  /\ Drop(w)
  /\ UNCHANGED <<connect, account, metadata, revoke, provider, history>>

(* The worker dies or a statement fails; a refresh is then lost with it. *)
FailUse(w) ==
  /\ use[w].at \in {"active", "referred", "refreshed"}
  /\ lost' = (lost \/ use[w].at = "refreshed")
  /\ Drop(w)
  /\ UNCHANGED <<connect, rows, revoke, provider, early, halted, skipped>>

-----------------------------------------------------------------------------
Connect == StoreSecret \/ InsertAccount \/ InsertMetadata \/ FailConnect

Revoke(a) ==
  \/ FindAccount(a) \/ ListMetadata(a) \/ DeleteSecret(a)
  \/ DeleteMetadata(a) \/ MarkRevoked(a) \/ FailRevoke(a)

Use(w) ==
  \/ FindActive(w) \/ FindMetadata(w) \/ Retrieve(w)
  \/ Refresh(w) \/ RefuseToken(w) \/ UpdateSecret(w) \/ FailUse(w)

Next ==
  \/ Connect
  \/ \E a \in Admins : Revoke(a)
  \/ \E w \in Loops : Use(w)

Spec == Init /\ [][Next]_vars

-----------------------------------------------------------------------------
(* "Delete the stored credentials, then mark the account revoked": once    *)
(* the account is revoked, no secret and no reference to one is left, also *)
(* when revocations fail half way and are repeated and when workers write  *)
(* refreshed tokens beside them.  The secret stays only if an API without  *)
(* the key of the secrets deleted the reference to it.  All this takes a   *)
(* connect that was answered before: a revocation that overtakes it, or    *)
(* follows one that died between its statements, leaves the secret behind. *)
RevokedIsClean ==
  account = "revoked" /\ ~early /\ connect = "answered" =>
    ~metadata /\ (secret = NoToken \/ skipped)

(* A connected account stays usable until it is revoked: its rows are      *)
(* there, and loops that refresh side by side never leave a spent refresh  *)
(* token in them, the one the provider takes next is stored or in the      *)
(* hands of the loop that will store it, unless that loop died with it.    *)
ActiveIsUsable ==
  account = "active" /\ connect = "answered" /\ ~halted
    /\ (\A a \in Admins : revoke[a] \in {"idle", "found"}) =>
      /\ metadata /\ secret # NoToken
      /\ \/ secret = issued \/ lost
         \/ \E w \in Loops : use[w].at = "refreshed" /\ use[w].token = issued
=============================================================================
