--------------------------- MODULE MCAdminConfig ---------------------------
(***************************************************************************)
(* The requests and the tokens of administrators.                          *)
(***************************************************************************)
EXTENDS AdminConfig, TLC

MCStarted == [grpc_timeout_ms |-> 50, retry_attempts |-> 2,
              retry_backoff_ms |-> 50]
MCUpdates == {[grpc_timeout_ms |-> 20],
              [grpc_timeout_ms |-> 300, retry_attempts |-> 0],
              [retry_attempts |-> 4, retry_backoff_ms |-> -1]}

\* A part of a token whose text stands for some bytes.
Part(s, members) == [bytes |-> s, text |-> Base64UrlEncode(s),
                     members |-> members]
Jwt(s, claims) == [form |-> "jwt", signature |-> Secret,
                   header |-> Part(<<0, 64, 128>>, [alg |-> Text("HS256")]),
                   payload |-> Part(s, claims)]
Claims == [sub |-> Text("dev-user"), exp |-> Number(1), iss |-> Text("kd39"),
           aud |-> Array({Text("clients")})]

\* The legacy token, a genuine one whose parts are whole groups, one that has
\* expired, one for another audience.
MCTokens == {[form |-> "dev-token"],
             Jwt(<<0, 64, 128>>, Claims),
             Jwt(<<0, 64, 128>>, [exp |-> Digits(0, "0")] @@ Claims),
             Jwt(<<0, 64, 128>>, [aud |-> Text("others")] @@ Claims)}

\* Genuine ones with payloads of any length.
MCTokensOfAnyLength == {Jwt(s, Claims) : s \in {<<0>>, <<0, 64>>, <<0, 64, 128>>}}
=============================================================================
