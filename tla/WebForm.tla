------------------------------ MODULE WebForm -------------------------------
(***************************************************************************)
(* The configuration form between the dashboard and NetworkConfig:         *)
(* send_page, parse_form and parse_login_form of src/web.rs with           *)
(* logic/src/web_form.rs, and the token of logic/src/auth.rs.              *)
(*                                                                         *)
(* A text is a sequence of bytes.  Decimal notation is left out: an        *)
(* address is a sequence of numbers and a number a sequence of length one, *)
(* what is not a number the empty sequence.  A body is a sequence of pairs *)
(* of a key and a value, the value of a text in its url-encoded form.      *)
(***************************************************************************)
EXTENDS ConfigCodec, FiniteSetsExt

CONSTANTS DecodeCap,  \* bytes that form_url_decode can hold, 64
          AttrCap,    \* bytes that html_escape_attr can hold, 256
          TokenCap    \* bytes that either buffer of basic_token can hold, 96

\* The buffers are large enough for what fits the slots: for the decoded texts,
\* for their escapes in the page, and for the token of any stored credentials,
\* which is shorter than a token that was cut.
ASSUME FormAssumption ==
    /\ {DecodeCap, AttrCap, TokenCap} \subseteq Nat
    /\ IdLen <= DecodeCap /\ 2 * CredLen <= DecodeCap /\ DecodeCap < TokenCap
    /\ 6 * IdLen <= AttrCap /\ 6 * CredLen <= AttrCap
    /\ 4 * ((2 * CredLen + 3) \div 3) < TokenCap

\* The inputs of the page in their order, and the fields they stand for.
FormKeys == <<"ip", "prefix", "gw", "broker", "port",
              "id", "muser", "mpass", "wuser", "wpass">>
FieldOf == [ip |-> "ip", prefix |-> "prefix", gw |-> "gateway",
            broker |-> "broker", port |-> "port", id |-> "id",
            muser |-> "mqtt_user", mpass |-> "mqtt_pass",
            wuser |-> "web_user", wpass |-> "web_pass"]
Addresses == {"ip", "gw", "broker"}
Numbers == {"prefix", "port"}
Secrets == {"mpass", "wpass"}
Texts == {"id", "muser", "wuser"} \union Secrets

-----------------------------------------------------------------------------
(* form_url_decode.                                                        *)

Percent == 37
Plus == 43
Space == 32

HexDigit == (48..57) \union (65..70) \union (97..102)
HexValue(b) == IF b < 65 THEN b - 48 ELSE IF b < 97 THEN b - 55 ELSE b - 87

\* Mutant of WellFormed: an escape at the very end is refused.
WellFormedNotLast(s) ==
    \A i \in DOMAIN s :
        s[i] = Percent =>
            i + 2 < Len(s) /\ {s[i + 1], s[i + 2]} \subseteq HexDigit

\* Every percent sign is followed by two digits.
WellFormed(s) ==
    \A i \in DOMAIN s :
        s[i] = Percent =>
            i + 2 <= Len(s) /\ {s[i + 1], s[i + 2]} \subseteq HexDigit

\* In a well-formed text, the positions at which the loop arrives.
Arrivals(s) ==
    {i \in DOMAIN s : ~\E j \in {i - 1, i - 2} \intersect DOMAIN s : s[j] = Percent}

\* The byte that is pushed there.
ByteAt(s, i) ==
    CASE s[i] = Percent -> 16 * HexValue(s[i + 1]) + HexValue(s[i + 2])
      [] s[i] = Plus -> Space
      [] OTHER -> s[i]

\* The k-th byte comes from the k-th arrival.
Rank(s, i) == Cardinality({j \in Arrivals(s) : j <= i})
Decoded(s) ==
    [k \in 1..Cardinality(Arrivals(s)) |->
        ByteAt(s, CHOOSE i \in Arrivals(s) : Rank(s, i) = k)]

Decodable(s) ==
    /\ WellFormed(s)
    /\ LET d == Decoded(s)
       IN  Len(d) <= DecodeCap /\ (\A i \in DOMAIN d : d[i] # 0) /\ Utf8(d)

-----------------------------------------------------------------------------
(* parse_form.                                                             *)

\* The capacity of the field's string.
Limit(key) == IF key = "id" THEN IdLen ELSE CredLen

\* parse_ipv4 and parse_port do not return None.
ParsesIpv4(val) == Len(val) = AddrLen /\ \A i \in DOMAIN val : val[i] \in Byte
ParsesPort(val) == Len(val) = 1 /\ val[1] \in 1..MaxPort

\* The arms of parse_form do not return None for this pair, try_from and
\* secret_from_form included.
Understood(pair) ==
    LET key == pair.key  val == pair.val IN
    \/ key \in Addresses /\ ParsesIpv4(val)
    \/ key = "prefix" /\ Len(val) = 1 /\ val[1] \in 1..32
    \/ key = "port" /\ ParsesPort(val)
    \/ key \in Texts /\ Decodable(val) /\ Len(Decoded(val)) <= Limit(key)

\* One pair that is not understood refuses the whole form.
FormAccepted(body) == \A i \in DOMAIN body : Understood(body[i])

\* Mutant of SecretFromForm: an empty field wipes the stored secret.
SecretWiped(current, submitted) == submitted

\* secret_from_form
SecretFromForm(current, submitted) == IF submitted = <<>> THEN current ELSE submitted

ValueOf(pair, current) ==
    CASE pair.key \in Addresses -> pair.val
      [] pair.key \in Numbers -> pair.val[1]
      [] pair.key \in Texts \ Secrets -> Decoded(pair.val)
      [] pair.key \in Secrets ->
             SecretFromForm(current[FieldOf[pair.key]], Decoded(pair.val))

\* parse_form on a form that it accepts: the last pair of a key counts, a field
\* without a pair keeps its value.
ParseForm(body, current) ==
    [f \in DOMAIN current |->
        LET at == {i \in DOMAIN body : FieldOf[body[i].key] = f}
        IN  IF at = {} THEN current[f] ELSE ValueOf(body[Max(at)], current)]

-----------------------------------------------------------------------------
(* send_page and the browser.                                              *)

\* Bytes that html_escape_attr needs: five for & and ', four for < and >, six
\* for ", one for any other.
Count(s, bytes) == Cardinality({i \in DOMAIN s : s[i] \in bytes})
EscapedSize(s) ==
    Len(s) + 4 * Count(s, {38, 39}) + 3 * Count(s, {60, 62}) + 5 * Count(s, {34})

\* write_attr: nothing is written when the escaped text does not fit.  The
\* browser undoes the escapes, so otherwise its input holds the text itself.
Attr(s) == IF EscapedSize(s) <= AttrCap THEN s ELSE <<>>

\* What the inputs of the page hold when it is loaded; passwords stay blank.
Shown(c) ==
    [key \in Addresses \union Numbers \union Texts |->
        CASE key \in Addresses -> c[FieldOf[key]]
          [] key \in Numbers -> <<c[FieldOf[key]]>>
          [] key \in Texts \ Secrets -> Attr(c[FieldOf[key]])
          [] key \in Secrets -> <<>>]

\* The browser's encoding of a text.
Unreserved == (48..57) \union (65..90) \union (97..122) \union {42, 45, 46, 95}
Digit(n) == IF n < 10 THEN 48 + n ELSE 55 + n
Encoded(b) ==
    CASE b \in Unreserved -> <<b>>
      [] b = Space -> <<Plus>>
      [] OTHER -> <<Percent, Digit(b \div 16), Digit(b % 16)>>

\* Where the code of byte i begins, one byte or three behind the one before it.
Escaped(b) == b \notin Unreserved /\ b # Space
Start(s, i) == i + 2 * Cardinality({j \in 1..i - 1 : Escaped(s[j])})
UrlEncode(s) ==
    [k \in 1..Start(s, Len(s) + 1) - 1 |->
        LET i == CHOOSE i \in DOMAIN s : Start(s, i) <= k /\ k < Start(s, i + 1)
        IN  Encoded(s[i])[k - Start(s, i) + 1]]

\* The body that the browser sends for inputs with these contents.
Body(inputs) ==
    [i \in DOMAIN FormKeys |->
        LET key == FormKeys[i]
        IN  [key |-> key,
             val |-> IF key \in Texts THEN UrlEncode(inputs[key]) ELSE inputs[key]]]

\* What is left of a value whose end has not arrived.
Shortened(key, val) ==
    {SubSeq(val, 1, k) : k \in 0..Len(val) - 1}
      \union {[val EXCEPT ![Len(val)] = @ \div ten] :
                 ten \in {d \in {10, 100, 1000, 10000} :
                             key \notin Texts /\ val # <<>> /\ val[Len(val)] >= d}}

\* What is left of a body of which the end of pair n has not arrived.  A key
\* that is cut matches no arm of parse_form, as if the pair were missing.
CutBodies(body, n) ==
    LET first == SubSeq(body, 1, n - 1)
    IN  {first} \union {Append(first, [body[n] EXCEPT !.val = v]) :
                            v \in Shortened(body[n].key, body[n].val)}

-----------------------------------------------------------------------------
(* The login form.                                                         *)

Pad == 64  \* the character '='
Colon == 58

\* Mutant of Raw: nothing marks where the name ends.
RawJoined(user, pass) == user \o pass

\* The vector of basic_token: what no longer fits is left out as a whole.
Raw(user, pass) ==
    LET extend(s, t) == IF Len(s) + Len(t) <= TokenCap THEN s \o t ELSE s
    IN  extend(extend(extend(<<>>, user), <<Colon>>), pass)

\* Three bytes to four sextets, the last chunk padded.
Base64(raw) ==
    [k \in 1..4 * ((Len(raw) + 2) \div 3) |->
        LET at == 3 * ((k - 1) \div 4)
            b(i) == IF at + i <= Len(raw) THEN raw[at + i] ELSE 0
        IN  CASE k % 4 = 1 -> b(1) \div 4
              [] k % 4 = 2 -> (b(1) % 4) * 16 + b(2) \div 16
              [] k % 4 = 3 -> IF at + 2 <= Len(raw)
                              THEN (b(2) % 16) * 4 + b(3) \div 64 ELSE Pad
              [] k % 4 = 0 -> IF at + 3 <= Len(raw) THEN b(3) % 64 ELSE Pad]

\* basic_token
BasicToken(user, pass) ==
    LET out == Base64(Raw(user, pass))
    IN  IF Len(out) <= TokenCap THEN out ELSE SubSeq(out, 1, TokenCap)

\* parse_login_form finds both values.
LoginParsed(u, p) == Decodable(u) /\ Decodable(p)

\* login_credentials_match on what was typed into the login form, against the
\* token that serve_pool made at boot.
CredentialsMatch(user, pass, expected) ==
    LET u == UrlEncode(user)  p == UrlEncode(pass) IN
    /\ LoginParsed(u, p)
    /\ BasicToken(Decoded(u), Decoded(p)) = expected
=============================================================================
