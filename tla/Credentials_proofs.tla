------------------------- MODULE Credentials_proofs -------------------------
(***************************************************************************)
(* Proofs about Credentials, for any number of revocations and loops, and  *)
(* about ConnectorAuthorization, for any number of tabs and callbacks.     *)
(***************************************************************************)
EXTENDS ConnectorAuthorization, TLAPS

(* The account cannot be revoked or used before its row is there. *)
BeforeAccount ==
  /\ connect = "begun" => account = "none" /\ secret = NoToken
  /\ connect = "stored" => account = "none" /\ secret # NoToken
  /\ account = "none" =>
       /\ \A a \in Admins : revoke[a] = "idle"
       /\ \A w \in Loops : use[w].at = "idle"

(* The reference comes after everything else, and goes after the secret    *)
(* unless there was no key to that.                                        *)
ReferenceLast ==
  /\ metadata => connect = "answered"
  /\ connect = "answered" /\ ~metadata => secret = NoToken \/ skipped
  /\ \A a \in Admins :
       /\ revoke[a] \in {"listed", "deleted"} => connect = "answered"
       /\ revoke[a] = "deleted" => secret = NoToken \/ skipped

(* A revocation past its list, and a revoked account, have no reference,   *)
(* unless the list was taken too early.                                    *)
ListedInTime ==
  ~early /\ connect \in {"inserted", "answered"} =>
    /\ account = "revoked" => connect = "answered" /\ ~metadata
    /\ \A a \in Admins : revoke[a] = "clean" => connect = "answered" /\ ~metadata

(* Rows vanish only under a revocation that is running or has failed. *)
Untouched ==
  account = "active" /\ ~halted /\ (\A a \in Admins : revoke[a] \in {"idle", "found"}) =>
    /\ secret # NoToken
    /\ connect = "answered" => metadata

(* With a provider that rotates, a new token is in one pair of hands until *)
(* it is stored.                                                           *)
SoleHolder ==
  /\ ~rotates => issued = 1
  /\ secret <= issued
  /\ \A w \in Loops :
       /\ use[w].token <= issued
       /\ use[w].at \notin {"read", "refreshed"} => use[w].token = NoToken
       /\ use[w].at = "refreshed" =>
            /\ use[w].token = issued
            /\ rotates => /\ secret # issued
                          /\ \A v \in Loops \ {w} : use[v].token # issued

Current ==
  \/ secret = NoToken \/ secret = issued \/ lost
  \/ \E w \in Loops : use[w].at = "refreshed" /\ use[w].token = issued

IInv ==
  /\ TypeOK /\ BeforeAccount /\ ReferenceLast /\ ListedInTime
  /\ Untouched /\ SoleHolder /\ Current

(* The initial states satisfy the invariant. *)
LEMMA InitHolds == Init => IInv
<1> SUFFICES ASSUME Init PROVE IInv
  OBVIOUS
<1> USE CredentialsAssumption DEF Init, NoUse, NoToken, Tokens
<1>1. TypeOK
  <2>1. 1 \in Tokens
    OBVIOUS
  <2>2. NoUse \in [at : {"idle", "active", "referred", "read", "refreshed"},
                   token : Tokens \union {NoToken}]
    OBVIOUS
  <2> HIDE DEF NoUse, NoToken, Tokens
  <2> QED BY <2>1, <2>2, Zenon DEF TypeOK
<1>2. BeforeAccount /\ ReferenceLast /\ ListedInTime /\ Untouched
  BY DEF BeforeAccount, ReferenceLast, ListedInTime, Untouched
<1>3. SoleHolder /\ Current
  BY DEF SoleHolder, Current
<1> QED BY <1>1, <1>2, <1>3 DEF IInv

(* The invariant speaks of nothing but the variables. *)
LEMMA StutterHolds == IInv /\ UNCHANGED vars => IInv'
  BY DEF vars, rows, provider, history, IInv, TypeOK, BeforeAccount, ReferenceLast,
         ListedInTime, Untouched, SoleHolder, Current, NoToken, Tokens

(* The three INSERTs of a connect keep the invariant. *)
LEMMA ConnectHolds ==
  ASSUME IInv, Connect
  PROVE  IInv'
<1> USE CredentialsAssumption DEF NoToken, Tokens
<1>1. TypeOK'
  BY DEF IInv, TypeOK, Connect, StoreSecret, InsertAccount, InsertMetadata, FailConnect,
         rows, provider, history
<1>2. BeforeAccount'
  BY DEF IInv, TypeOK, BeforeAccount, Connect, StoreSecret, InsertAccount, InsertMetadata,
         FailConnect, rows, provider, history
<1>3. ReferenceLast'
  BY DEF IInv, TypeOK, BeforeAccount, ReferenceLast, Connect, StoreSecret, InsertAccount,
         InsertMetadata, FailConnect, rows, provider, history
<1>4. ListedInTime'
  BY DEF IInv, TypeOK, BeforeAccount, ListedInTime, Connect, StoreSecret, InsertAccount,
         InsertMetadata, FailConnect, rows, provider, history
<1>5. Untouched'
  BY DEF IInv, TypeOK, BeforeAccount, Untouched, Connect, StoreSecret, InsertAccount,
         InsertMetadata, FailConnect, rows, provider, history
<1>6. SoleHolder'
  <2>1. CASE StoreSecret
    BY <2>1 DEF StoreSecret, IInv, TypeOK, BeforeAccount, SoleHolder, provider
  <2>2. CASE InsertAccount \/ InsertMetadata \/ FailConnect
    BY <2>2 DEF InsertAccount, InsertMetadata, FailConnect, IInv, SoleHolder, rows, provider
  <2> QED BY <2>1, <2>2 DEF Connect
<1>7. Current'
  BY DEF IInv, Current, Connect, StoreSecret, InsertAccount, InsertMetadata, FailConnect,
         rows, provider, history
<1> QED BY <1>1, <1>2, <1>3, <1>4, <1>5, <1>6, <1>7 DEF IInv

(* The statements of a revocation keep the invariant. *)
LEMMA RevokeHolds ==
  ASSUME IInv, NEW a \in Admins, Revoke(a)
  PROVE  IInv'
<1> USE CredentialsAssumption DEF NoToken, Tokens
<1>1. TypeOK'
  <2>1. revoke' \in [Admins -> {"idle", "found", "listed", "deleted", "clean"}]
    BY DEF IInv, TypeOK, Revoke, FindAccount, ListMetadata, DeleteSecret, DeleteMetadata,
           MarkRevoked, FailRevoke
  <2>2. UNCHANGED <<connect, use, issued, rotates>> /\ secret' \in {secret, NoToken}
        /\ account' \in {account, "revoked"} /\ metadata' \in {metadata, FALSE}
    BY DEF Revoke, FindAccount, ListMetadata, DeleteSecret, DeleteMetadata, MarkRevoked,
           FailRevoke, rows, provider
  <2>3. early' \in BOOLEAN /\ lost' \in BOOLEAN /\ halted' \in BOOLEAN /\ skipped' \in BOOLEAN
    BY DEF IInv, TypeOK, Revoke, FindAccount, ListMetadata, DeleteSecret, DeleteMetadata,
           MarkRevoked, FailRevoke, history
  <2>4. TypeOK
    BY DEF IInv
  <2> QED BY <2>1, <2>2, <2>3, <2>4 DEF TypeOK
<1>2. BeforeAccount'
  BY DEF IInv, TypeOK, BeforeAccount, Revoke, FindAccount, ListMetadata, DeleteSecret,
         DeleteMetadata, MarkRevoked, FailRevoke, rows, provider, history
<1>3. ReferenceLast'
  BY DEF IInv, TypeOK, BeforeAccount, ReferenceLast, Revoke, FindAccount, ListMetadata,
         DeleteSecret, DeleteMetadata, MarkRevoked, FailRevoke, rows, provider, history
<1>4. ListedInTime'
  BY DEF IInv, TypeOK, BeforeAccount, ReferenceLast, ListedInTime, Revoke, FindAccount,
         ListMetadata, DeleteSecret, DeleteMetadata, MarkRevoked, FailRevoke, rows,
         provider, history
<1>5. Untouched'
  BY DEF IInv, TypeOK, Untouched, Revoke, FindAccount, ListMetadata, DeleteSecret,
         DeleteMetadata, MarkRevoked, FailRevoke, rows, provider, history
<1>6. SoleHolder' /\ Current'
  <2>1. CASE DeleteSecret(a)
    BY <2>1 DEF DeleteSecret, IInv, TypeOK, SoleHolder, Current, provider, history
  <2>2. CASE FindAccount(a) \/ ListMetadata(a) \/ DeleteMetadata(a)
               \/ MarkRevoked(a) \/ FailRevoke(a)
    BY <2>2 DEF FindAccount, ListMetadata, DeleteMetadata, MarkRevoked, FailRevoke,
                IInv, SoleHolder, Current, rows, provider, history
  <2> QED BY <2>1, <2>2 DEF Revoke
<1> QED BY <1>1, <1>2, <1>3, <1>4, <1>5, <1>6 DEF IInv

(* The statements of a lookup, and the provider, keep the invariant. *)
LEMMA UseHolds ==
  ASSUME IInv, NEW w \in Loops, Use(w)
  PROVE  IInv'
<1> USE CredentialsAssumption DEF NoToken, Tokens
<1>1. CASE FindActive(w) \/ FindMetadata(w) \/ Retrieve(w) \/ RefuseToken(w)
  <2> USE DEF FindActive, FindMetadata, Retrieve, RefuseToken, Drop, NoUse, rows,
              provider, history
  <2>1. TypeOK'
    BY <1>1 DEF IInv, TypeOK
  <2>2. BeforeAccount'
    BY <1>1 DEF IInv, TypeOK, BeforeAccount
  <2>3. ReferenceLast' /\ ListedInTime' /\ Untouched'
    BY <1>1 DEF IInv, ReferenceLast, ListedInTime, Untouched
  <2>4. SoleHolder'
    BY <1>1 DEF IInv, TypeOK, SoleHolder
  <2>5. Current'
    BY <1>1 DEF IInv, TypeOK, Current
  <2> QED BY <2>1, <2>2, <2>3, <2>4, <2>5 DEF IInv
<1>2. CASE Refresh(w)
  <2> USE <1>2 DEF Refresh, Rotate, rows, history
  <2>1. TypeOK'
    BY DEF IInv, TypeOK
  <2>2. BeforeAccount'
    BY DEF IInv, TypeOK, BeforeAccount
  <2>3. ReferenceLast' /\ ListedInTime' /\ Untouched'
    BY DEF IInv, ReferenceLast, ListedInTime, Untouched
  <2>4. SoleHolder'
    BY DEF IInv, TypeOK, SoleHolder
  <2>5. use'[w].at = "refreshed" /\ use'[w].token = issued'
    BY DEF IInv, TypeOK
  <2>6. Current'
    BY <2>5 DEF Current
  <2> QED BY <2>1, <2>2, <2>3, <2>4, <2>6 DEF IInv
<1>3. CASE UpdateSecret(w)
  <2> USE <1>3 DEF UpdateSecret, Updated, Drop, NoUse, provider, history
  <2>1. TypeOK'
    BY DEF IInv, TypeOK
  <2>2. BeforeAccount'
    BY DEF IInv, TypeOK, BeforeAccount, SoleHolder
  <2>3. ReferenceLast' /\ ListedInTime'
    BY DEF IInv, ReferenceLast, ListedInTime
  <2>4. Untouched'
    BY DEF IInv, TypeOK, Untouched, SoleHolder
  <2>5. SoleHolder'
    BY DEF IInv, TypeOK, SoleHolder
  <2>6. Current'
    BY DEF IInv, TypeOK, SoleHolder, Current
  <2> QED BY <2>1, <2>2, <2>3, <2>4, <2>5, <2>6 DEF IInv
<1>4. CASE FailUse(w)
  <2> USE <1>4 DEF FailUse, Drop, NoUse, rows, provider
  <2>1. TypeOK'
    BY DEF IInv, TypeOK
  <2>2. BeforeAccount'
    BY DEF IInv, TypeOK, BeforeAccount
  <2>3. ReferenceLast' /\ ListedInTime' /\ Untouched'
    BY DEF IInv, ReferenceLast, ListedInTime, Untouched
  <2>4. SoleHolder'
    BY DEF IInv, TypeOK, SoleHolder
  <2>5. Current'
    BY DEF IInv, TypeOK, Current
  <2> QED BY <2>1, <2>2, <2>3, <2>4, <2>5 DEF IInv
<1> QED BY <1>1, <1>2, <1>3, <1>4 DEF Use

(* The inductive invariant holds of every reachable state. *)
THEOREM Invariant == Spec => []IInv
<1>1. IInv /\ [Next]_vars => IInv'
  <2> SUFFICES ASSUME IInv, [Next]_vars PROVE IInv'
    OBVIOUS
  <2>1. CASE Next
    BY <2>1, ConnectHolds, RevokeHolds, UseHolds DEF Next
  <2>2. CASE UNCHANGED vars
    BY <2>2, StutterHolds
  <2> QED BY <2>1, <2>2
<1> QED BY InitHolds, <1>1, PTL DEF Spec

(* A connected account that is revoked keeps no reference to a secret, and *)
(* no secret unless the revocation had no key to it (connectors/routes.ts, *)
(* revoke, beside the UPDATE of a refresh).                                *)
THEOREM Revocations == Spec => []RevokedIsClean
<1>1. IInv => RevokedIsClean
  BY DEF IInv, ReferenceLast, ListedInTime, RevokedIsClean
<1> QED BY Invariant, <1>1, PTL

(* A connected account stays usable, and concurrent refreshes never leave  *)
(* a spent token in it (worker/connectors.ts, createCredentialSource).     *)
THEOREM Refreshes == Spec => []ActiveIsUsable
<1>1. IInv => ActiveIsUsable
  BY DEF IInv, Untouched, Current, ActiveIsUsable
<1> QED BY Invariant, <1>1, PTL

-----------------------------------------------------------------------------
(* The authorizations. *)

USE AuthorizationAssumption

Sent(c) == call[c].at # "unsent"

CallStates ==
  [at : {"unsent", "sent", "exchanging", "persisting", "answering", "answered"},
   flow : Flows \union {None}, cookie : Flows \union {None}, told : Reasons \union {"nothing"}]

(* Calls that have redeemed a code and write an account, or have written   *)
(* one.                                                                    *)
Redeemers == {c \in Calls : call[c].at = "persisting" \/ \E a \in accounts : a.by = c}

(* What has begun stays begun; a state payload is made by a button.        *)
Begun ==
  /\ \A f \in Flows : flow[f].at # "new" => flow[f].says \in Payloads
  /\ cookie # None => flow[cookie].at # "new"
  /\ \A c \in Calls : Sent(c) =>
       /\ call[c].flow \in Flows
       /\ flow[call[c].flow].at \in {"consented", "denied"}
       /\ call[c].cookie # None => flow[call[c].cookie].at # "new"

(* A call passes the checks only with its own consent. *)
Checked ==
  \A c \in Calls :
    call[c].at = "exchanging" \/ c \in Redeemers =>
      call[c].cookie = call[c].flow /\ flow[call[c].flow].at = "consented"

(* A code is redeemed once, and an account says what its consent says. *)
RedeemedOnce ==
  /\ \A c \in Redeemers :
       call[c].flow \in spent /\ call[c].at \in {"persisting", "answering", "answered"}
  /\ \A c, d \in Redeemers : call[c].flow = call[d].flow => c = d
  /\ \A a \in accounts : a.says = flow[call[a.by].flow].says

(* The cookie is missing only because a callback was answered before. *)
Missing ==
  /\ cookie = None /\ (\E f \in Flows : flow[f].at # "new") => \E d \in Calls : Sent(d)
  /\ \A c \in Calls :
       Sent(c) /\ call[c].cookie = None => \E d \in Calls \ {c} : Sent(d)

Refusals ==
  \A c \in Calls :
    /\ call[c].told # "nothing" => Sent(c)
    /\ call[c].told = "missing_state" => call[c].cookie = None
    /\ call[c].told = "invalid_state" =>
         call[c].cookie # None /\ (call[c].cookie \in late \/ call[c].cookie # call[c].flow)

AuthInv ==
  AuthTypeOK /\ Begun /\ Checked /\ RedeemedOnce /\ Missing /\ Refusals

LEMMA InitAuthInv == AuthInit => AuthInv
<1> SUFFICES ASSUME AuthInit PROVE AuthInv
  OBVIOUS
<1> USE DEF AuthInit, NoPayload, Sent, Redeemers
<1>1. AuthTypeOK
  BY DEF AuthTypeOK, Reasons
<1>2. Begun /\ Checked /\ RedeemedOnce
  BY DEF Begun, Checked, RedeemedOnce
<1>3. Missing /\ Refusals
  BY DEF Missing, Refusals
<1> QED BY <1>1, <1>2, <1>3 DEF AuthInv

(* The session switches, a button is pressed, the user answers at the      *)
(* provider, or time passes.                                               *)
LEMMA FlowHolds ==
  ASSUME AuthInv,
         SwitchOrganization \/ \E f \in Flows : Authorize(f) \/ Decide(f) \/ Expire(f)
  PROVE  AuthInv'
<1> USE DEF AuthInv, Sent
<1>1. CASE SwitchOrganization
  <2> USE <1>1 DEF SwitchOrganization
  <2>1. AuthTypeOK'
    BY DEF AuthTypeOK
  <2> QED BY <2>1 DEF Begun, Checked, RedeemedOnce, Missing, Refusals, Redeemers
<1>2. ASSUME NEW f \in Flows, Authorize(f) PROVE AuthInv'
  <2> USE <1>2 DEF Authorize
  <2>1. PICK s \in Buttons :
          flow' = [flow EXCEPT ![f] = [at |-> "open", says |-> [org |-> org, slug |-> s]]]
    OBVIOUS
  <2>2. [org |-> org, slug |-> s] \in Payloads
    BY DEF AuthTypeOK, Buttons, Payloads
  <2>3. AuthTypeOK'
    BY <2>1, <2>2 DEF AuthTypeOK
  <2>4. /\ flow'[f].at = "open" /\ flow'[f].says \in Payloads
        /\ \A g \in Flows \ {f} : flow'[g] = flow[g]
    BY <2>1, <2>2 DEF AuthTypeOK
  <2>5. Begun'
    BY <2>4 DEF Begun, AuthTypeOK
  <2>6. Checked' /\ RedeemedOnce'
    <3>1. \A c \in Calls : call[c].at = "exchanging" \/ c \in Redeemers =>
            call[c].flow \in Flows \ {f}
      BY DEF Checked, RedeemedOnce, Begun
    <3>2. \A a \in accounts : a.by \in Redeemers
      BY DEF AuthTypeOK, Redeemers
    <3> QED BY <2>4, <3>1, <3>2 DEF Checked, RedeemedOnce, Redeemers
  <2>7. Missing' /\ Refusals'
    BY DEF Missing, Refusals
  <2> QED BY <2>3, <2>5, <2>6, <2>7
<1>3. ASSUME NEW f \in Flows, Decide(f) PROVE AuthInv'
  <2> USE <1>3 DEF Decide
  <2>1. AuthTypeOK'
    BY DEF AuthTypeOK
  <2>2. /\ flow'[f].at \in {"consented", "denied"} /\ flow'[f].says = flow[f].says
        /\ \A g \in Flows \ {f} : flow'[g] = flow[g]
    BY DEF AuthTypeOK
  <2>3. Begun'
    BY <2>2 DEF Begun, AuthTypeOK
  <2>4. Checked' /\ RedeemedOnce'
    <3>1. \A c \in Calls : call[c].at = "exchanging" \/ c \in Redeemers =>
            call[c].flow \in Flows \ {f}
      BY DEF Checked, RedeemedOnce, Begun
    <3>2. \A a \in accounts : a.by \in Redeemers
      BY DEF AuthTypeOK, Redeemers
    <3> QED BY <2>2, <3>1, <3>2 DEF Checked, RedeemedOnce, Redeemers
  <2>5. Missing' /\ Refusals'
    BY <2>2 DEF Missing, Refusals
  <2> QED BY <2>1, <2>3, <2>4, <2>5
<1>4. ASSUME NEW f \in Flows, Expire(f) PROVE AuthInv'
  <2> USE <1>4 DEF Expire
  <2>1. AuthTypeOK'
    BY DEF AuthTypeOK
  <2> QED BY <2>1 DEF Begun, Checked, RedeemedOnce, Missing, Refusals, Redeemers
<1> QED BY <1>1, <1>2, <1>3, <1>4

(* A request that is told something writes no account any more. *)
LEMMA TellHolds ==
  ASSUME AuthInv, NEW c \in Calls, NEW reason \in Reasons, Tell(c, reason),
         call[c].at \in {"sent", "exchanging", "persisting"},
         reason = "missing_state" => call[c].cookie = None,
         reason = "invalid_state" =>
           call[c].cookie # None /\ (call[c].cookie \in late \/ call[c].cookie # call[c].flow),
         spent \subseteq spent', spent' \subseteq Flows,
         UNCHANGED <<org, flow, cookie, late, holder, accounts>>
  PROVE  AuthInv'
<1> USE DEF AuthInv, Sent
<1>1. /\ call'[c].at = "answering" /\ call'[c].told = reason
      /\ call'[c].flow = call[c].flow /\ call'[c].cookie = call[c].cookie
      /\ \A d \in Calls \ {c} : call'[d] = call[d]
  BY DEF Tell, AuthTypeOK
<1>2. AuthTypeOK'
  <2>1. [call[c] EXCEPT !.at = "answering", !.told = reason] \in CallStates
    <3>1. call[c] \in CallStates
      BY DEF AuthTypeOK, CallStates
    <3> HIDE DEF AuthInv, Sent
    <3> QED BY <3>1 DEF CallStates
  <2>2. call' \in [Calls -> CallStates]
    BY <2>1 DEF Tell, AuthTypeOK, CallStates
  <2> QED BY <2>2 DEF AuthTypeOK, CallStates
<1>3. Begun' /\ Missing'
  BY <1>1 DEF Begun, Missing
<1>4. Redeemers' \subseteq Redeemers
  BY <1>1 DEF Redeemers
<1>5. Checked' /\ RedeemedOnce'
  <2>1. Redeemers \subseteq Calls /\ \A a \in accounts : a.by \in Calls
    BY DEF AuthTypeOK, Redeemers
  <2> QED BY <1>1, <1>4, <2>1 DEF Checked, RedeemedOnce
<1>6. Refusals'
  BY <1>1 DEF Refusals
<1> QED BY <1>2, <1>3, <1>5, <1>6

(* A callback is sent, checked, exchanged in vain, and answered. *)
LEMMA CallbackHolds ==
  ASSUME AuthInv, NEW c \in Calls,
         (\E f \in Flows : SendCallback(c, f)) \/ CheckState(c) \/ ExchangeFails(c) \/ Redirect(c)
  PROVE  AuthInv'
<1> USE DEF AuthInv, Sent
<1>1. ASSUME NEW f \in Flows, SendCallback(c, f) PROVE AuthInv'
  <2> USE <1>1 DEF SendCallback
  <2>1. /\ call'[c].at = "sent" /\ call'[c].flow = f /\ call'[c].cookie = cookie
        /\ call'[c].told = call[c].told /\ call[c].at = "unsent"
        /\ \A d \in Calls \ {c} : call'[d] = call[d]
        /\ flow[f].at \in {"consented", "denied"}
        /\ UNCHANGED <<flow, cookie, late, spent, accounts>>
    BY DEF AuthTypeOK
  <2>2. AuthTypeOK'
    <3>1. call' \in [Calls -> [at : {"unsent", "sent", "exchanging", "persisting",
                                     "answering", "answered"},
                               flow : Flows \union {None}, cookie : Flows \union {None},
                               told : Reasons \union {"nothing"}]]
      <4>1. call'[c] = [at |-> "sent", flow |-> f, cookie |-> cookie, told |-> call[c].told]
        BY DEF AuthTypeOK
      <4>2. DOMAIN call' = Calls /\ call' = [d \in Calls |-> call'[d]]
        BY DEF AuthTypeOK
      <4> HIDE DEF SendCallback
      <4> QED BY <2>1, <4>1, <4>2 DEF AuthTypeOK
    <3>2. UNCHANGED <<org, flow, cookie, late, spent, holder, accounts>>
      OBVIOUS
    <3> HIDE DEF SendCallback
    <3> QED BY <3>1, <3>2 DEF AuthTypeOK
  <2> HIDE DEF SendCallback
  <2>3. Begun'
    BY <2>1 DEF Begun
  <2>4. c \notin Redeemers /\ Redeemers' = Redeemers
    <3>1. c \notin Redeemers
      BY <2>1 DEF RedeemedOnce
    <3> QED BY <2>1, <3>1 DEF Redeemers
  <2>5. Checked' /\ RedeemedOnce'
    <3>1. Redeemers \subseteq Calls /\ \A a \in accounts : a.by \in Redeemers
      BY DEF AuthTypeOK, Redeemers
    <3> QED BY <2>1, <2>4, <3>1 DEF Checked, RedeemedOnce
  <2>6. Missing'
    BY <2>1 DEF Missing
  <2>7. Refusals'
    BY <2>1 DEF Refusals
  <2> QED BY <2>2, <2>3, <2>5, <2>6, <2>7
<1>2. CASE CheckState(c)
  <2> USE <1>2 DEF CheckState
  <2>1. /\ call[c].at = "sent" /\ UNCHANGED <<org, flow, cookie, late, spent, holder, accounts>>
        /\ spent \subseteq Flows
    BY DEF AuthTypeOK
  <2>2. CASE Tell(c, "access_denied")
    BY <2>1, <2>2, TellHolds DEF Reasons
  <2>3. CASE call[c].cookie = None /\ Tell(c, "missing_state")
    BY <2>1, <2>3, TellHolds DEF Reasons
  <2>4. CASE /\ call[c].cookie # None
             /\ Expired(c) \/ call[c].cookie # call[c].flow
             /\ Tell(c, "invalid_state")
    BY <2>1, <2>4, TellHolds DEF Reasons, Expired
  <2>5. CASE /\ flow[call[c].flow].at = "consented" /\ call[c].cookie = call[c].flow
             /\ call' = [call EXCEPT ![c].at = "exchanging"]
    <3>1. /\ call'[c].at = "exchanging" /\ call'[c].told = call[c].told
          /\ call'[c].flow = call[c].flow /\ call'[c].cookie = call[c].cookie
          /\ \A d \in Calls \ {c} : call'[d] = call[d]
      BY <2>5 DEF AuthTypeOK
    <3>2. AuthTypeOK'
      BY <2>1, <2>5 DEF AuthTypeOK
    <3>3. Begun' /\ Missing' /\ Refusals'
      BY <2>1, <3>1 DEF Begun, Missing, Refusals
    <3>4. Redeemers' = Redeemers /\ \A a \in accounts : a.by \in Redeemers
      BY <2>1, <3>1 DEF Redeemers, AuthTypeOK
    <3>5. Checked' /\ RedeemedOnce'
      BY <2>1, <2>5, <3>1, <3>4 DEF Checked, RedeemedOnce
    <3> QED BY <3>2, <3>3, <3>5
  <2> QED BY <2>2, <2>3, <2>4, <2>5
<1>3. CASE ExchangeFails(c)
  <2>1. call[c].flow \in Flows
    BY <1>3 DEF ExchangeFails, Begun
  <2>2. spent \subseteq spent' /\ spent' \subseteq Flows
    BY <1>3, <2>1 DEF ExchangeFails, AuthTypeOK
  <2> QED BY <1>3, <2>2, TellHolds DEF ExchangeFails, Reasons
<1>4. CASE Redirect(c)
  <2> USE <1>4 DEF Redirect
  <2>1. /\ call'[c].at = "answered" /\ call'[c].told = call[c].told
        /\ call'[c].flow = call[c].flow /\ call'[c].cookie = call[c].cookie
        /\ \A d \in Calls \ {c} : call'[d] = call[d]
    BY DEF AuthTypeOK
  <2>2. AuthTypeOK'
    BY DEF AuthTypeOK
  <2>3. Begun' /\ Missing' /\ Refusals'
    BY <2>1 DEF Begun, Missing, Refusals
  <2>4. Redeemers' = Redeemers /\ \A a \in accounts : a.by \in Redeemers
    BY <2>1 DEF Redeemers, AuthTypeOK
  <2>5. Checked' /\ RedeemedOnce'
    BY <2>1, <2>4 DEF Checked, RedeemedOnce
  <2> QED BY <2>2, <2>3, <2>5
<1> QED BY <1>1, <1>2, <1>3, <1>4

(* The code that is redeemed is a fresh one, and so is the account. *)
LEMMA ExchangeHolds ==
  ASSUME AuthInv, NEW c \in Calls, ExchangeCode(c)
  PROVE  AuthInv'
<1> USE DEF AuthInv, Sent, ExchangeCode, Redeemable
<1>1. /\ call[c].flow \in Flows /\ call[c].cookie = call[c].flow
      /\ flow[call[c].flow].at = "consented" /\ Says(c) \in Payloads
  BY DEF Begun, Checked, Says
<1>2. c \notin Redeemers /\ \A d \in Redeemers : call[d].flow # call[c].flow
  BY DEF RedeemedOnce
<1>3. /\ call'[c].at \in {"persisting", "answering"}
      /\ call'[c].told \in {call[c].told, "connected"}
      /\ call'[c].flow = call[c].flow /\ call'[c].cookie = call[c].cookie
      /\ \A d \in Calls \ {c} : call'[d] = call[d]
  <2>1. CASE call' = [call EXCEPT ![c].at = "persisting"]
    BY <2>1 DEF AuthTypeOK
  <2>2. CASE Tell(c, "connected")
    BY <2>2 DEF AuthTypeOK, Tell
  <2> QED BY <2>1, <2>2
<1>4. /\ accounts' \in {accounts, accounts \union {[by |-> c, says |-> Says(c)]}}
      /\ \A a \in accounts : a.by \in Redeemers
  BY DEF Redeemers, AuthTypeOK
<1>5. AuthTypeOK'
  <2>1. [by |-> c, says |-> Says(c)] \in [by : Calls, says : Payloads]
    BY <1>1
  <2>2. CASE call' = [call EXCEPT ![c].at = "persisting"]
    BY <1>1, <1>4, <2>1, <2>2 DEF AuthTypeOK
  <2>3. CASE Tell(c, "connected")
    <3>1. "connected" \in Reasons
      BY DEF Reasons
    <3>2. [call[c] EXCEPT !.at = "answering", !.told = "connected"] \in CallStates
      BY <3>1 DEF AuthTypeOK, CallStates
    <3>3. call' \in [Calls -> CallStates]
      BY <2>3, <3>2 DEF Tell, AuthTypeOK, CallStates
    <3> QED BY <1>1, <1>4, <2>1, <3>3 DEF AuthTypeOK, CallStates
  <2> QED BY <2>2, <2>3
<1>6. Begun' /\ Missing' /\ Refusals'
  BY <1>3 DEF Begun, Missing, Refusals
<1>7. Redeemers' = Redeemers \union {c}
  <2>1. CASE call' = [call EXCEPT ![c].at = "persisting"] /\ accounts' = accounts
    <3>1. call'[c].at = "persisting"
      BY <2>1 DEF AuthTypeOK
    <3> QED BY <1>3, <2>1, <3>1 DEF Redeemers
  <2>2. CASE accounts' = accounts \union {[by |-> c, says |-> Says(c)]}
    <3>1. [by |-> c, says |-> Says(c)].by = c
      OBVIOUS
    <3>2. c \in Redeemers'
      BY <2>2, <3>1 DEF Redeemers
    <3>3. ASSUME NEW d \in Calls \ {c} PROVE d \in Redeemers' <=> d \in Redeemers
      BY <1>3, <2>2, <3>1, <3>3 DEF Redeemers
    <3> QED BY <3>2, <3>3 DEF Redeemers
  <2> QED BY <2>1, <2>2
<1>8. Checked'
  BY <1>1, <1>3, <1>7 DEF Checked
<1>9. RedeemedOnce'
  <2>1. \A a \in accounts' : a \in accounts \/ (a.by = c /\ a.says = flow[call[c].flow].says)
    BY <1>1, <1>4 DEF Says
  <2>2. \A a \in accounts' : a.says = flow'[call'[a.by].flow].says
    BY <1>2, <1>3, <1>4, <2>1 DEF RedeemedOnce, Redeemers
  <2>3. Redeemers \subseteq Calls
    BY DEF Redeemers
  <2> QED BY <1>2, <1>3, <1>7, <2>2, <2>3 DEF RedeemedOnce
<1> QED BY <1>5, <1>6, <1>8, <1>9

(* The rows of the first account. *)
LEMMA PersistHolds ==
  ASSUME AuthInv, Persist
  PROVE  AuthInv'
<1> USE DEF AuthInv
<1>1. /\ holder \in Calls /\ call[holder].at = "persisting"
      /\ UNCHANGED <<org, flow, cookie, late, spent, holder>>
      /\ spent \subseteq Flows
  BY DEF Persist, AuthTypeOK
<1>2. holder \in Redeemers
  BY <1>1 DEF Redeemers
<1>3. CASE StoreForHolder
  BY <1>1, <1>3 DEF StoreForHolder, AuthTypeOK, Begun, Checked, RedeemedOnce, Missing, Refusals,
                    Redeemers, Sent
<1>4. CASE InsertForHolder
  <2> USE <1>4 DEF InsertForHolder, Sent
  <2> DEFINE a == [by |-> holder, says |-> Says(holder)]
  <2>1. accounts' = accounts \union {a} /\ call' = call
    OBVIOUS
  <2>2. /\ call[holder].flow \in Flows /\ Says(holder) = flow[call[holder].flow].says
        /\ Says(holder) \in Payloads
    BY <1>1, <1>2 DEF Begun, Checked, Says
  <2>3. a \in [by : Calls, says : Payloads] /\ a.by = holder /\ a.says = Says(holder)
    BY <1>1, <2>2
  <2> HIDE DEF a
  <2>4. AuthTypeOK'
    BY <1>1, <2>1, <2>3 DEF AuthTypeOK
  <2>5. Redeemers' = Redeemers
    BY <1>2, <2>1, <2>3 DEF Redeemers
  <2>6. Begun' /\ Missing' /\ Refusals' /\ Checked'
    BY <1>1, <2>1, <2>5 DEF Begun, Missing, Refusals, Checked
  <2>7. RedeemedOnce'
    BY <1>1, <2>1, <2>2, <2>3, <2>5 DEF RedeemedOnce
  <2> QED BY <2>4, <2>6, <2>7
<1>5. CASE FinishHolder \/ FailHolder
  BY <1>1, <1>5, TellHolds DEF FinishHolder, FailHolder, Reasons
<1> QED BY <1>3, <1>4, <1>5 DEF Persist

LEMMA AuthStutterHolds ==
  ASSUME AuthInv, UNCHANGED authorization
  PROVE  AuthInv'
<1> QED BY DEF authorization, AuthInv, AuthTypeOK, Begun, Checked, RedeemedOnce, Missing, Refusals,
               Redeemers, Sent

(* The way to an account only adds to Credentials: the theorems about it   *)
(* hold however it was connected (connectors/routes.ts, the callback).     *)
THEOREM AuthorizationImplementsCredentials == AuthSpec => Spec
<1>1. AuthInit => Init
  BY DEF AuthInit
<1>2. [AuthNext]_authVars => [Next]_vars
  <2>1. SwitchOrganization => UNCHANGED vars
    BY DEF SwitchOrganization
  <2>2. \A f \in Flows : Authorize(f) \/ Decide(f) \/ Expire(f) => UNCHANGED vars
    BY DEF Authorize, Decide, Expire
  <2>3. \A c \in Calls : Callback(c) => UNCHANGED vars
    BY DEF Callback, SendCallback, CheckState, ExchangeCode, ExchangeFails, Redirect
  <2>4. Persist => Connect
    BY DEF Persist, StoreForHolder, InsertForHolder, FinishHolder, FailHolder, Connect
  <2>5. Aside => (\E a \in Admins : Revoke(a)) \/ (\E w \in Loops : Use(w))
    BY DEF Aside
  <2>6. UNCHANGED authVars => UNCHANGED vars
    BY DEF authVars
  <2> QED BY <2>1, <2>2, <2>3, <2>4, <2>5, <2>6 DEF AuthNext, Next
<1> QED BY <1>1, <1>2, PTL DEF AuthSpec, Spec

LEMMA AuthInvHolds == AuthSpec => []AuthInv
<1>1. AuthInv /\ [AuthNext]_authVars => AuthInv'
  <2> SUFFICES ASSUME AuthInv, [AuthNext]_authVars PROVE AuthInv'
    OBVIOUS
  <2>1. CASE SwitchOrganization \/ \E f \in Flows : Authorize(f) \/ Decide(f) \/ Expire(f)
    BY <2>1, FlowHolds
  <2>2. ASSUME NEW c \in Calls, Callback(c) PROVE AuthInv'
    BY <2>2, CallbackHolds, ExchangeHolds DEF Callback
  <2>3. CASE Persist
    BY <2>3, PersistHolds
  <2>4. CASE UNCHANGED authorization
    BY <2>4, AuthStutterHolds
  <2> QED BY <2>1, <2>2, <2>3, <2>4 DEF AuthNext, authVars
<1> QED BY InitAuthInv, <1>1, PTL DEF AuthSpec

(* Every account is the fruit of one consent of its own, for what its      *)
(* button said (connectors/routes.ts, authorize and callback).             *)
THEOREM AccountsFromConsents == AuthSpec => []AccountsFollowConsents
<1>1. AuthInv => AccountsFollowConsents
  <2> SUFFICES ASSUME AuthInv, NEW a \in accounts
               PROVE  /\ flow[call[a.by].flow].at = "consented"
                      /\ a.says = flow[call[a.by].flow].says
                      /\ \A b \in accounts : call[a.by].flow = call[b.by].flow => a = b
    BY DEF AccountsFollowConsents
  <2>1. \A b \in accounts : b.by \in Redeemers /\ b \in [by : Calls, says : Payloads]
    BY DEF AuthInv, AuthTypeOK, Redeemers
  <2>2. \A b \in accounts : b.says = flow[call[b.by].flow].says
    BY DEF AuthInv, RedeemedOnce
  <2>3. ASSUME NEW b \in accounts, call[a.by].flow = call[b.by].flow PROVE a = b
    <3>1. a.by = b.by
      BY <2>1, <2>3 DEF AuthInv, RedeemedOnce
    <3> QED BY <2>1, <2>2, <3>1
  <2> QED BY <2>1, <2>2, <2>3 DEF AuthInv, Checked
<1> QED BY <1>1, AuthInvHolds, PTL

(* A consent is refused over its state only when time ran out or another   *)
(* authorization or callback came between (connectors/routes.ts, callback).*)
THEOREM RefusalsCaused == AuthSpec => []RefusalsHaveACause
<1>1. AuthInv => RefusalsHaveACause
  <2> SUFFICES ASSUME AuthInv, NEW c \in Calls,
                      call[c].told \in {"missing_state", "invalid_state"}
               PROVE  \/ call[c].flow \in late
                      \/ \E f \in Flows \ {call[c].flow} : flow[f].at # "new"
                      \/ \E d \in Calls \ {c} : call[d].flow = call[c].flow
    BY DEF RefusalsHaveACause
  <2> USE DEF AuthInv, Sent
  <2>1. Sent(c)
    BY DEF Refusals
  <2>2. CASE call[c].told = "missing_state"
    <3>1. PICK d \in Calls \ {c} : Sent(d)
      BY <2>1, <2>2 DEF Refusals, Missing
    <3> QED BY <3>1 DEF Begun
  <2>3. CASE call[c].told = "invalid_state"
    BY <2>1, <2>3 DEF Refusals, Begun, AuthTypeOK
  <2> QED BY <2>2, <2>3
<1> QED BY <1>1, AuthInvHolds, PTL
=============================================================================
