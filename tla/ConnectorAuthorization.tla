----------------------- MODULE ConnectorAuthorization -----------------------
(***************************************************************************)
(* How a browser comes to the account of Credentials: the Connectors page, *)
(* POST /connector-accounts/:slug/authorize, the consent at the provider,  *)
(* and the callback.  The form of an API key is Connect of Credentials.    *)
(*                                                                         *)
(* An authorization is a state and a PKCE verifier of its own.  All tabs   *)
(* of the browser share one state cookie, which the callback reads when    *)
(* its request is sent and clears with its answer; the callback can be     *)
(* sent again (reload, back), and the session can change its organization  *)
(* between any two steps.  Cookies are signed: the one that comes back is  *)
(* one that was set.                                                       *)
(***************************************************************************)
EXTENDS Credentials

CONSTANTS
  Flows,       \* authorizations this browser starts
  Calls,       \* callbacks, each of which may end in an account
  Orgs,        \* organizations the user administers
  Configured,  \* slugs with OAuth client credentials on the server
  HasSecrets,  \* is CONNECTOR_SECRETS_KEY set?
  Casts,       \* bound: which sets of flows, calls, admins and loops act together
  None

ASSUME AuthorizationAssumption ==
  None \notin Flows \union Calls \union Orgs /\ HasSecrets \in BOOLEAN

OAuthSlugs == {"slack", "google"}
KeySlugs == {"email", "holded"}
RealSlugs == OAuthSlugs \union KeySlugs

VARIABLES
  org,       \* the session's active organization
  flow,      \* each authorization: how far it is, what its state payload says
  cookie,    \* flowhub_oauth_state: the authorization it belongs to
  late,      \* authorizations older than STATE_TTL_MS
  spent,     \* authorizations whose code the provider has redeemed
  call,      \* each request: how far it is, what it carries, its answer
  holder,    \* the request that writes the account of Credentials
  accounts,  \* history: connector_accounts rows by the request that wrote them
  cast       \* the parties of this behaviour

authorization == <<org, flow, cookie, late, spent, call, holder, accounts, cast>>
authVars == <<vars, authorization>>

Payloads == [org : Orgs, slug : OAuthSlugs]
NoPayload == [org |-> None, slug |-> None]

Reasons ==
  {"connected", "access_denied", "missing_state", "invalid_state", "exchange_failed"}

AuthTypeOK ==
  /\ org \in Orgs
  /\ flow \in [Flows -> [at : {"new", "open", "consented", "denied"},
                    says : Payloads \union {NoPayload}]]
  /\ cookie \in Flows \union {None}
  /\ late \subseteq Flows
  /\ spent \subseteq Flows
  /\ call \in [Calls -> [at : {"unsent", "sent", "exchanging", "persisting", "answering", "answered"},
                         flow : Flows \union {None}, cookie : Flows \union {None},
                         told : Reasons \union {"nothing"}]]
  /\ holder \in Calls \union {None}
  /\ accounts \subseteq [by : Calls, says : Payloads]

AuthInit ==
  /\ Init
  /\ org \in Orgs
  /\ flow = [f \in Flows |-> [at |-> "new", says |-> NoPayload]]
  /\ cookie = None /\ late = {} /\ spent = {}
  /\ call = [c \in Calls |->
               [at |-> "unsent", flow |-> None, cookie |-> None, told |-> "nothing"]]
  /\ holder = None /\ accounts = {}
  /\ cast \in Casts

SwitchOrganization ==
  /\ org' \in Orgs \ {org}
  /\ UNCHANGED <<vars, flow, cookie, late, spent, call, holder, accounts, cast>>

-----------------------------------------------------------------------------
(* GET /connectors: what the page offers a button for. *)
Available == {s \in RealSlugs : HasSecrets /\ (s \in OAuthSlugs => s \in Configured)}

(* The buttons "Conectar con OAuth". *)
Buttons == Available \intersect OAuthSlugs

(* The handler signs organization, slug and expiry with the state; its     *)
(* answer sets the cookie and sends the tab to the provider.               *)
Authorize(f) ==
  /\ f \in cast
  /\ flow[f].at = "new"
  /\ \E s \in Buttons :
       flow' = [flow EXCEPT ![f] = [at |-> "open", says |-> [org |-> org, slug |-> s]]]
  /\ cookie' = f
  /\ UNCHANGED <<vars, org, late, spent, call, holder, accounts, cast>>

(* At the provider: the user agrees or cancels. *)
Decide(f) ==
  /\ flow[f].at = "open"
  /\ \E d \in {"consented", "denied"} : flow' = [flow EXCEPT ![f].at = d]
  /\ UNCHANGED <<vars, org, cookie, late, spent, call, holder, accounts, cast>>

(* Ten minutes are over; the cookie of that age is dropped by the browser  *)
(* or refused by the server, which is the same here.                       *)
Expire(f) ==
  /\ flow[f].at \in {"open", "consented"}
  /\ late' = late \union {f}
  /\ UNCHANGED <<vars, org, flow, cookie, spent, call, holder, accounts, cast>>

-----------------------------------------------------------------------------
(* GET /connector-accounts/callback. *)

SendCallback(c, f) ==
  /\ c \in cast
  /\ call[c].at = "unsent"
  /\ flow[f].at \in {"consented", "denied"}
  /\ call' = [call EXCEPT ![c] = [@ EXCEPT !.at = "sent", !.flow = f, !.cookie = cookie]]
  /\ UNCHANGED <<vars, org, flow, cookie, late, spent, holder, accounts, cast>>

Tell(c, reason) == call' = [call EXCEPT ![c] = [@ EXCEPT !.at = "answering", !.told = reason]]

(* Mutant: the comparison with Date.now() is the wrong way round. *)
NotYetExpired(c) == call[c].cookie \notin late

Expired(c) == call[c].cookie \in late

(* The checks of query, cookie, signature, expiry and state. *)
CheckState(c) ==
  /\ call[c].at = "sent"
  /\ \/ flow[call[c].flow].at = "denied" /\ Tell(c, "access_denied")
     \/ /\ flow[call[c].flow].at = "consented"
        /\ \/ call[c].cookie = None /\ Tell(c, "missing_state")
           \/ /\ call[c].cookie # None
              /\ Expired(c) \/ call[c].cookie # call[c].flow
              /\ Tell(c, "invalid_state")
           \/ /\ call[c].cookie = call[c].flow
              /\ ~Expired(c)
              /\ call' = [call EXCEPT ![c].at = "exchanging"]
  /\ UNCHANGED <<vars, org, flow, cookie, late, spent, holder, accounts, cast>>

(* The provider redeems a code once, for the verifier of its challenge. *)
Redeemable(c) == call[c].flow \notin spent /\ call[c].cookie = call[c].flow

(* Mutant: the organization of the session that the callback comes with. *)
SaysSession(c) == [flow[call[c].cookie].says EXCEPT !.org = org]

Says(c) == flow[call[c].cookie].says

(* The tokens are there.  The account of Credentials is the first; the     *)
(* rows of a later one are not followed.                                   *)
ExchangeCode(c) ==
  /\ call[c].at = "exchanging"
  /\ Redeemable(c)
  /\ spent' = spent \union {call[c].flow}
  /\ \/ /\ holder = None
        /\ holder' = c
        /\ call' = [call EXCEPT ![c].at = "persisting"]
        /\ UNCHANGED accounts
     \/ /\ holder # None
        /\ accounts' = accounts \union {[by |-> c, says |-> Says(c)]}
        /\ Tell(c, "connected")
        /\ UNCHANGED holder
  /\ UNCHANGED <<vars, org, flow, cookie, late, cast>>

(* The provider refuses, its answer is lost, or a later account fails. *)
ExchangeFails(c) ==
  /\ call[c].at = "exchanging"
  /\ spent' = spent \/ (Redeemable(c) /\ spent' = spent \union {call[c].flow})
  /\ Tell(c, "exchange_failed")
  /\ UNCHANGED <<vars, org, flow, cookie, late, holder, accounts, cast>>

(* The rows of the account, statement by statement. *)
StoreForHolder ==
  /\ StoreSecret
  /\ UNCHANGED <<call, accounts, cast>>

InsertForHolder ==
  /\ InsertAccount
  /\ accounts' = accounts \union {[by |-> holder, says |-> Says(holder)]}
  /\ UNCHANGED call

FinishHolder == InsertMetadata /\ Tell(holder, "connected") /\ UNCHANGED accounts

FailHolder == FailConnect /\ Tell(holder, "exchange_failed") /\ UNCHANGED accounts

Persist ==
  /\ holder # None
  /\ call[holder].at = "persisting"
  /\ StoreForHolder \/ InsertForHolder \/ FinishHolder \/ FailHolder
  /\ UNCHANGED <<org, flow, cookie, late, spent, holder, cast>>

(* The redirect reaches the browser; but for error=..., it clears the      *)
(* cookie, whichever authorization that belongs to by now.                 *)
Redirect(c) ==
  /\ call[c].at = "answering"
  /\ call' = [call EXCEPT ![c].at = "answered"]
  /\ cookie' = IF call[c].told = "access_denied" THEN cookie ELSE None
  /\ UNCHANGED <<vars, org, flow, late, spent, holder, accounts, cast>>

-----------------------------------------------------------------------------
Callback(c) ==
  \/ \E f \in Flows : SendCallback(c, f)
  \/ CheckState(c) \/ ExchangeCode(c) \/ ExchangeFails(c) \/ Redirect(c)

Aside ==
  \/ \E a \in Admins \intersect cast : Revoke(a)
  \/ \E w \in Loops \intersect cast : Use(w)

AuthNext ==
  \/ SwitchOrganization
  \/ \E f \in Flows : Authorize(f) \/ Decide(f) \/ Expire(f)
  \/ \E c \in Calls : Callback(c)
  \/ Persist
  \/ Aside /\ UNCHANGED authorization

AuthSpec == AuthInit /\ [][AuthNext]_authVars

-----------------------------------------------------------------------------
(* Every account is the fruit of one consent of its own, in the            *)
(* organization, and for the provider, whose button was pressed: not of    *)
(* the organization the session has switched to since, nor of another tab, *)
(* and a callback that is sent twice connects once.                        *)
AccountsFollowConsents ==
  \A a \in accounts :
    /\ flow[call[a.by].flow].at = "consented"
    /\ a.says = flow[call[a.by].flow].says
    /\ \A b \in accounts : call[a.by].flow = call[b.by].flow => a = b

(* "La sesión de autorización expiró o falta el estado": a consent is      *)
(* refused over its state only if ten minutes are over or the browser has  *)
(* another authorization or another callback of this one under way.        *)
RefusalsHaveACause ==
  \A c \in Calls :
    call[c].told \in {"missing_state", "invalid_state"} =>
      \/ call[c].flow \in late
      \/ \E f \in Flows \ {call[c].flow} : flow[f].at # "new"
      \/ \E d \in Calls \ {c} : call[d].flow = call[c].flow
=============================================================================
