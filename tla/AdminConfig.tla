---------------------------- MODULE AdminConfig ----------------------------
(***************************************************************************)
(* POST /admin/runtime-config (http/http_server.cpp) on the configuration  *)
(* the router keeps (routing/grpc_router.cpp).  The handler authenticates, *)
(* reads the whole configuration, puts the fields of the request into its  *)
(* copy, writes the copy back and answers with what is in force: three     *)
(* sections under the router's lock, between which another administrator   *)
(* on another worker may come in.                                          *)
(***************************************************************************)
EXTENDS AuthMiddleware

CONSTANTS Admins,
          Tokens,  \* tokens that are sent
          Updates, \* bodies: functions from some of the fields to values
          Started  \* the configuration the router was built with

Minimum == [grpc_timeout_ms |-> 100, retry_attempts |-> 1,
            retry_backoff_ms |-> 0]
Fields == DOMAIN Minimum

ASSUME AdminAssumption == /\ Started \in [Fields -> Int]
                          /\ \A u \in Updates : /\ DOMAIN u \subseteq Fields
                                               /\ u \in [DOMAIN u -> Int]

VARIABLES
    runtimeConfig, \* runtime_config_
    post,          \* where the handler of each administrator is
    copy,          \* cfg, its copy of the configuration
    body,          \* the fields its request names
    intended,      \* history: every request applied at once, in order
    touched,       \* history: fields that were set since the copy was made
    overlaid       \* history: fields set back by a request not naming them

adminVars == <<runtimeConfig, post, copy, body, intended, touched, overlaid>>

AdminInit ==
    /\ runtimeConfig = Started /\ intended = Started
    /\ post = [a \in Admins |-> "idle"]
    /\ copy = [a \in Admins |-> Started]
    /\ body = [a \in Admins |-> << >>]
    /\ touched = [a \in Admins |-> {}]
    /\ overlaid = {}
-----------------------------------------------------------------------------
\* std::max of a field and its minimum.
Sanitized(c) == [f \in Fields |-> IF c[f] < Minimum[f] THEN Minimum[f] ELSE c[f]]

\* A configuration with the fields of a request put in.
With(c, update) == [f \in Fields |-> IF f \in DOMAIN update THEN update[f] ELSE c[f]]

\* Mutant of Read: what the request does not name gets the default.
ReadDefaults(a) ==
    /\ post[a] = "idle"
    /\ \E t \in Tokens : Authenticate(t) = Text("dev-user")
    /\ \E u \in Updates : body' = [body EXCEPT ![a] = u]
    /\ copy' = [copy EXCEPT ![a] = Started]
    /\ touched' = [touched EXCEPT ![a] = {}]
    /\ post' = [post EXCEPT ![a] = "merge"]
    /\ UNCHANGED <<runtimeConfig, intended, overlaid>>

\* The developer's request comes in, and the configuration is read.
Read(a) ==
    /\ post[a] = "idle"
    /\ \E t \in Tokens : Authenticate(t) = Text("dev-user")
    /\ \E u \in Updates : body' = [body EXCEPT ![a] = u]
    /\ copy' = [copy EXCEPT ![a] = runtimeConfig]
    /\ touched' = [touched EXCEPT ![a] = {}]
    /\ post' = [post EXCEPT ![a] = "merge"]
    /\ UNCHANGED <<runtimeConfig, intended, overlaid>>

\* A field that is no number throws: nothing was written, nobody answers.
BodyThrows(a) ==
    /\ post[a] = "merge"
    /\ post' = [post EXCEPT ![a] = "idle"]
    /\ UNCHANGED <<runtimeConfig, copy, body, intended, touched, overlaid>>

\* UpdateRuntimeConfig: everything is sanitised and written, the fields the
\* request does not name with it.
UpdateRuntimeConfig(a) ==
    LET named == DOMAIN body[a]
    IN  /\ post[a] = "merge"
        /\ post' = [post EXCEPT ![a] = "answer"]
        /\ runtimeConfig' = Sanitized(With(copy[a], body[a]))
        /\ intended' = Sanitized(With(intended, body[a]))
        /\ overlaid' = (overlaid \cup touched[a]) \ named
        /\ touched' = [b \in Admins |-> IF b = a \/ post[b] # "merge"
                                          THEN {} ELSE touched[b] \cup named]
        /\ UNCHANGED <<copy, body>>

\* The answer takes the configuration in force, whoever wrote it.
Answer(a) ==
    /\ post[a] = "answer"
    /\ post' = [post EXCEPT ![a] = "idle"]
    /\ UNCHANGED <<runtimeConfig, copy, body, intended, touched, overlaid>>

Post(a) == Read(a) \/ BodyThrows(a) \/ UpdateRuntimeConfig(a) \/ Answer(a)

AdminNext ==
    \/ (\E a \in Admins : Post(a)) /\ UNCHANGED authVars
    \/ SecondPasses /\ UNCHANGED adminVars

AdminSpec == AuthInit /\ AdminInit /\ [][AdminNext]_<<authVars, adminVars>>
-----------------------------------------------------------------------------
\* Each field has the value the last request to name it asked for, made
\* permissible, unless a request that did not name it had read the
\* configuration before and wrote it back after.  Only such an overlap
\* undoes what an administrator was told is in force.
LastAskedInForce ==
    \A f \in Fields \ overlaid : runtimeConfig[f] = intended[f]

\* A token that is one by the rules the options set.
Genuine(token) ==
    LET claims == token.payload.members
    IN  /\ token.form = "jwt" /\ token.signature = Secret /\ Secret # ""
        /\ token.header.members = [alg |-> Text("HS256")]
        /\ ~Expired(claims)
        /\ Issuer # "" => Has(claims, "iss") /\ claims["iss"] = Text(Issuer)
        /\ Audience # "" => MatchAudience(claims)
        /\ Has(claims, "sub") /\ IsString(claims["sub"])

\* docs/services/access-gateway-architecture.md: the middleware takes "JWT +
\* legacy token".  Who holds a genuine token is let in, whatever the lengths
\* of its parts are.
GenuineTokenAccepted ==
    \A t \in Tokens : Genuine(t) => Authenticate(t) = t.payload.members["sub"]
=============================================================================
