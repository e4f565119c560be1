--------------------------- MODULE AuthMiddleware ---------------------------
(***************************************************************************)
(* auth/auth_middleware.cpp: whom a token speaks for.  Authenticate is a   *)
(* function of the token, of the options and of the clock, which is all    *)
(* the state there is.                                                     *)
(*                                                                         *)
(* A character is the value DecodeBase64UrlChar gives it, 0..63, or -1     *)
(* outside the alphabet; the padding is a character of its own.  A JSON    *)
(* value is a record of its kind: "digits" is a text that begins with a    *)
(* number.  A signature is the key it was made with.                       *)
(***************************************************************************)
EXTENDS Integers, Sequences

CONSTANTS AllowLegacy, Secret, Issuer, Audience, \* options_; "" is not set
          Bytes,    \* values of the bytes that are encoded
          MaxBytes, \* bound: their number
          MaxNow    \* bound: std::time, in seconds

ASSUME AuthAssumption == Bytes \subseteq 0..255 /\ MaxNow \in Nat

VARIABLES now,  \* std::time
          bytes \* the bytes whose encoding is looked at

authVars == <<now, bytes>>

Nothing == [kind |-> "nullopt"]
Pad == 64
-----------------------------------------------------------------------------
(* Base64url.                                                              *)

ByteAt(s, i) == IF i <= Len(s) THEN s[i] ELSE 0

\* The Nth character, from 0, that the three bytes after the Ith stand for.
Sextet(s, i, n) ==
    LET triple == 256 * 256 * ByteAt(s, i + 1) + 256 * ByteAt(s, i + 2)
                                               + ByteAt(s, i + 3)
    IN  (triple \div <<64 * 64 * 64, 64 * 64, 64, 1>>[n + 1]) % 64

\* Mutant of Base64UrlEncode: the last group is always written in full.
Base64UrlEncodeWhole(s) ==
    [j \in 1..4 * ((Len(s) + 2) \div 3) |->
       Sextet(s, 3 * ((j - 1) \div 4), (j - 1) % 4)]

\* Four characters for three bytes; the last group has no padding.
Base64UrlEncode(s) ==
    [j \in 1..(4 * Len(s) + 2) \div 3 |->
       Sextet(s, 3 * ((j - 1) \div 4), (j - 1) % 4)]

\* DecodeBase64UrlChar knows no padding.
Value(char) == IF char \in 0..63 THEN char ELSE -1

\* The value of the third and of the fourth character of a group.
PaddedValue(char) == IF char = Pad THEN -2 ELSE Value(char)

OrZero(value) == IF value >= 0 THEN value ELSE 0

\* The bytes of the group of characters after the Ith; padding stands for no
\* byte.
GroupBytes(text, i) ==
    LET triple == 64 * 64 * 64 * Value(text[i + 1])
                    + 64 * 64 * Value(text[i + 2])
                    + 64 * OrZero(PaddedValue(text[i + 3]))
                    + OrZero(PaddedValue(text[i + 4]))
    IN  <<triple \div (256 * 256)>>
          \o (IF text[i + 3] = Pad THEN << >> ELSE <<(triple \div 256) % 256>>)
          \o (IF text[i + 4] = Pad THEN << >> ELSE <<triple % 256>>)

\* The test a group has to pass.  What marks padding is below -1 and fails it.
GroupRefused(text, i) ==
    \/ Value(text[i + 1]) < 0 \/ Value(text[i + 2]) < 0
    \/ PaddedValue(text[i + 3]) < -1 \/ PaddedValue(text[i + 4]) < -1

\* The input in whole groups.
Padded(input) ==
    [i \in 1..4 * ((Len(input) + 3) \div 4) |->
       IF i <= Len(input) THEN input[i] ELSE Pad]

\* A group that passes has no padding in it, so each gives three bytes.
Base64UrlDecode(input) ==
    LET n == (Len(input) + 3) \div 4
        b64 == Padded(input)
    IN  IF \E g \in 0..n - 1 : GroupRefused(b64, 4 * g)
          THEN Nothing
          ELSE [kind |-> "bytes",
                bytes |-> [j \in 1..3 * n |->
                  GroupBytes(b64, 4 * ((j - 1) \div 3))[((j - 1) % 3) + 1]]]
-----------------------------------------------------------------------------
(* Claims.                                                                 *)

Text(t) == [kind |-> "text", text |-> t]
Digits(n, t) == [kind |-> "digits", number |-> n, text |-> t]
Number(n) == [kind |-> "number", number |-> n]
Array(items) == [kind |-> "array", items |-> items]

IsString(json) == json.kind \in {"text", "digits"}
Has(claims, key) == key \in DOMAIN claims

\* A part of a token is the encoding of bytes that read as an object; it is
\* this object if the bytes come back.
DecodeJwtJsonPart(part) ==
    IF Base64UrlDecode(part.text) = [kind |-> "bytes", bytes |-> part.bytes]
      THEN [kind |-> "object", members |-> part.members]
      ELSE Nothing

MatchAudience(claims) ==
    /\ Has(claims, "aud")
    /\ LET aud == claims["aud"] IN
       \/ IsString(aud) /\ aud.text = Audience
       \/ aud.kind = "array" /\ \E item \in aud.items :
                                  IsString(item) /\ item.text = Audience

\* now >= exp, for an exp ParseNumericClaim can read.
Expired(claims) == /\ Has(claims, "exp")
                   /\ claims["exp"].kind \in {"number", "digits"}
                   /\ now >= claims["exp"].number

\* std::json's value(key, ""), where it does not throw.
TextOrEmpty(claims, key) == IF Has(claims, key) THEN claims[key].text ELSE ""

\* ExtractUserId: the first that is there, a string, and not empty.
ExtractUserId(claims) ==
    LET names(key) == Has(claims, key) /\ IsString(claims[key])
                        /\ claims[key].text # ""
    IN  CASE names("sub") -> claims["sub"]
          [] names("user_id") /\ ~names("sub") -> claims["user_id"]
          [] OTHER -> Nothing

\* Authenticate, once "Bearer " is taken off.  A token is empty, the
\* developer's, "user:..." for anybody, three parts with dots between, or
\* something else.
Authenticate(token) ==
    CASE AllowLegacy /\ token.form = "dev-token" -> Text("dev-user")
      [] AllowLegacy /\ token.form = "user" -> Text(token.user)
      [] token.form = "jwt" /\ Secret # "" ->
           LET header == DecodeJwtJsonPart(token.header)
               payload == DecodeJwtJsonPart(token.payload)
               claims == payload.members
           IN  IF /\ header # Nothing /\ payload # Nothing
                  /\ TextOrEmpty(header.members, "alg") = "HS256"
                  /\ token.signature = Secret
                  /\ ~Expired(claims)
                  /\ Issuer # "" => TextOrEmpty(claims, "iss") = Issuer
                  /\ Audience # "" => MatchAudience(claims)
                 THEN ExtractUserId(claims)
                 ELSE Nothing
      [] OTHER -> Nothing
-----------------------------------------------------------------------------
AuthInit == now = 0 /\ bytes = << >>

SecondPasses == now < MaxNow /\ now' = now + 1 /\ UNCHANGED bytes

\* Another input of the encoding.
TakeByte == /\ Len(bytes) < MaxBytes
            /\ \E b \in Bytes : bytes' = Append(bytes, b)
            /\ UNCHANGED now

AuthSpec == AuthInit /\ [][SecondPasses \/ TakeByte]_authVars
-----------------------------------------------------------------------------
\* Decoding never makes other bytes of an encoding than went into it, and
\* gives whole groups of three back.
DecodedIsEncoded ==
    LET back == Base64UrlDecode(Base64UrlEncode(bytes))
    IN  \/ back = [kind |-> "bytes", bytes |-> bytes]
        \/ back = Nothing /\ Len(bytes) % 3 # 0
=============================================================================
