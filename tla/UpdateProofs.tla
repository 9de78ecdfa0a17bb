---------------------------- MODULE UpdateProofs ----------------------------
(***************************************************************************)
(* What users type is what the device stores, and exactly the credentials  *)
(* that it stores log in: for every set of edits and words, every number   *)
(* of web tasks, saves and failures, every cut of a request, and every     *)
(* width of the fields and of the buffers that FormAssumption allows.      *)
(***************************************************************************)
EXTENDS ConfigUpdate, FormProofs

-----------------------------------------------------------------------------
(* The fields of a configuration.                                          *)

FieldNames == {"ip", "prefix", "gateway", "broker", "port", "id",
               "mqtt_user", "mqtt_pass", "web_user", "web_pass"}
Credentials == {"mqtt_user", "mqtt_pass", "web_user", "web_pass"}

\* Field f may have value v.
FieldValid(f, v) ==
    /\ f \in {"ip", "gateway", "broker"} => v \in Address
    /\ f = "prefix" => v \in 1..32
    /\ f = "port" => v \in 1..MaxPort
    /\ f = "id" => v \in Text(IdLen) /\ NoNul(v)
    /\ f \in Credentials => v \in Text(CredLen) /\ NoNul(v)

\* A configuration works when each of its fields does.
LEMMA ValidFields ==
    ASSUME NEW c, Valid(c)
    PROVE  DOMAIN c = FieldNames /\ \A f \in FieldNames : FieldValid(f, c[f])
<1>1. DOMAIN c = FieldNames
  <2>1. c = Fields(c)
      BY DEF Valid, NetworkConfig
  <2>2. DOMAIN Fields(c) = FieldNames
      BY DEF Fields, FieldNames
  <2> QED BY <2>1, <2>2
<1>2. /\ NoNul(c.id) /\ NoNul(c.mqtt_user) /\ NoNul(c.mqtt_pass)
      /\ NoNul(c.web_user) /\ NoNul(c.web_pass)
    BY DEF Valid, NoNulIn
<1>3. NetworkConfig(c)
    BY DEF Valid
<1>4. ASSUME NEW f \in FieldNames PROVE FieldValid(f, c[f])
    BY <1>2, <1>3, ConfigFields DEF FieldValid, FieldNames, Credentials
<1> QED BY <1>1, <1>4

LEMMA FieldsValid ==
    ASSUME NEW g, g = [f \in FieldNames |-> g[f]],
           \A f \in FieldNames : FieldValid(f, g[f])
    PROVE  Valid(g)
<1>1. g = Fields(g)
  <2>1. DOMAIN Fields(g) = FieldNames
      BY DEF Fields, FieldNames
  <2>2. \A f \in FieldNames : Fields(g)[f] = g[f]
      BY DEF Fields, FieldNames
  <2>3. Fields(g) = [f \in FieldNames |-> Fields(g)[f]]
      BY DEF Fields, FieldNames
  <2> HIDE DEF Fields, FieldNames
  <2> QED BY <2>1, <2>2, <2>3
<1>2. /\ g.ip \in Address /\ g.gateway \in Address /\ g.broker \in Address
      /\ g.prefix \in 1..32 /\ g.port \in 1..MaxPort
      /\ g.id \in Text(IdLen) /\ NoNul(g.id)
    BY DEF FieldValid, FieldNames
<1>3. /\ g.mqtt_user \in Text(CredLen) /\ g.mqtt_pass \in Text(CredLen)
      /\ g.web_user \in Text(CredLen) /\ g.web_pass \in Text(CredLen)
      /\ NoNul(g.mqtt_user) /\ NoNul(g.mqtt_pass)
      /\ NoNul(g.web_user) /\ NoNul(g.web_pass)
    BY DEF FieldValid, FieldNames, Credentials
<1> QED BY <1>1, <1>2, <1>3 DEF Valid, NetworkConfig, NoNulIn

\* The inputs of the page and the fields of a configuration correspond.
Keys == Addresses \union Numbers \union Texts

LEMMA KeyTable ==
    /\ DOMAIN FieldOf = Keys /\ DOMAIN FormKeys = 1..10
    /\ \A key \in Keys : FieldOf[key] \in FieldNames
    /\ \A i \in 1..10 : FormKeys[i] \in Keys
    /\ \A f \in FieldNames : \E key \in Keys : FieldOf[key] = f
    /\ \A key \in Keys : \E i \in 1..10 : FormKeys[i] = key
<1> USE DEF Keys, Addresses, Numbers, Texts, Secrets
<1>1. DOMAIN FieldOf = Keys /\ DOMAIN FormKeys = 1..10
    BY DEF FieldOf, FormKeys
<1>2. \A key \in Keys : FieldOf[key] \in FieldNames
    BY DEF FieldOf, FieldNames
<1>3. \A i \in 1..10 : FormKeys[i] \in Keys
    BY DEF FormKeys
<1>4. \A f \in FieldNames : \E key \in Keys : FieldOf[key] = f
    BY DEF FieldOf, FieldNames
<1>5. \A key \in Keys : \E i \in 1..10 : FormKeys[i] = key
    BY DEF FormKeys
<1> QED BY <1>1, <1>2, <1>3, <1>4, <1>5

LEMMA KeysDiffer ==
    /\ \A key, other \in Keys : FieldOf[key] = FieldOf[other] => key = other
    /\ \A i, j \in 1..10 : FormKeys[i] = FormKeys[j] => i = j
<1>1. \A key, other \in Keys : FieldOf[key] = FieldOf[other] => key = other
    BY DEF FieldOf, Keys, Addresses, Numbers, Texts, Secrets
<1>2. \A i, j \in 1..10 : FormKeys[i] = FormKeys[j] => i = j
    BY DEF FormKeys
<1> QED BY <1>1, <1>2

-----------------------------------------------------------------------------
(* What parse_form returns is a configuration that works.                  *)

\* A pair of a body, its value url-encoded or a sequence of numbers.
Typed(pair) ==
    /\ pair.key \in Keys
    /\ pair.key \in Texts => pair.val \in Seq(Byte)
    /\ pair.key \notin Texts => pair.val \in Seq(Nat)
TypedBody(body, n) == DOMAIN body = 1..n /\ \A i \in 1..n : Typed(body[i])

\* What an arm of parse_form accepts its field can hold.
LEMMA ValueValid ==
    ASSUME NEW pair, Typed(pair), Understood(pair), NEW cur, Valid(cur)
    PROVE  FieldValid(FieldOf[pair.key], ValueOf(pair, cur))
<1> DEFINE key == pair.key
           val == pair.val
           v == ValueOf(pair, cur)
<1> USE DEF Addresses, Numbers, Texts, Secrets
<1>1. CASE key \in Addresses
  <2>1. v = val
      BY <1>1 DEF ValueOf
  <2>2. ParsesIpv4(val) /\ val \in Seq(Nat)
      BY <1>1 DEF Understood, Typed
  <2>3. val \in Address
      BY <2>2, CodecAssumption DEF ParsesIpv4, Address
  <2> QED BY <1>1, <2>1, <2>3 DEF FieldValid, FieldOf, Credentials
<1>2. CASE key = "prefix"
  <2>1. v = val[1]
      BY <1>2 DEF ValueOf
  <2>2. val[1] \in 1..32
      BY <1>2 DEF Understood
  <2> QED BY <1>2, <2>1, <2>2 DEF FieldValid, FieldOf, Credentials
<1>3. CASE key = "port"
  <2>1. v = val[1]
      BY <1>3 DEF ValueOf
  <2>2. val[1] \in 1..MaxPort
      BY <1>3 DEF Understood, ParsesPort
  <2> QED BY <1>3, <2>1, <2>2 DEF FieldValid, FieldOf, Credentials
<1>4. CASE key \in Texts
  <2>1. Decodable(val) /\ Len(Decoded(val)) <= Limit(key) /\ val \in Seq(Byte)
      BY <1>4 DEF Understood, Typed
  <2>2. Decoded(val) \in Seq(Byte) /\ NoNul(Decoded(val)) /\ Utf8(Decoded(val))
      BY <2>1, DecodedType DEF Decodable, NoNul
  <2>3. Decoded(val) \in Text(Limit(key))
      BY <2>1, <2>2 DEF Text
  <2>4. FieldValid(FieldOf[key], Decoded(val))
    <3>1. \/ FieldOf[key] = "id" /\ Limit(key) = IdLen
          \/ FieldOf[key] \in Credentials /\ Limit(key) = CredLen
        BY <1>4 DEF FieldOf, Credentials, Limit
    <3> QED BY <2>2, <2>3, <3>1 DEF FieldValid, Credentials
  <2>5. FieldValid(FieldOf[key], cur[FieldOf[key]])
      BY <1>4, ValidFields, KeyTable DEF Keys
  <2>6. v = Decoded(val) \/ v = cur[FieldOf[key]]
      BY <1>4 DEF ValueOf, SecretFromForm
  <2> QED BY <2>4, <2>5, <2>6
<1> QED BY <1>1, <1>2, <1>3, <1>4 DEF Typed, Keys

\* A set of positions has a last one.
LEMMA LastOf ==
    ASSUME NEW n \in Nat, NEW S \in SUBSET (1..n), S # {}
    PROVE  Max(S) \in S
<1> DEFINE T == {n - i : i \in S}
<1>1. \A i \in S : n - i \in Nat
    OBVIOUS
<1>2. T \in SUBSET Nat /\ T # {}
    BY <1>1
<1>3. PICK d \in T : \A m \in T : d <= m
    BY <1>2, Least
<1>4. PICK i \in S : d = n - i
    OBVIOUS
<1>5. ASSUME NEW j \in S PROVE i >= j
  <2>1. d <= n - j
      BY <1>3
  <2> QED BY <1>4, <2>1
<1> QED BY <1>5 DEF Max

LEMMA ParseFormValid ==
    ASSUME NEW n \in Nat, NEW body, TypedBody(body, n), FormAccepted(body),
           NEW cur, Valid(cur)
    PROVE  Valid(ParseForm(body, cur))
<1> DEFINE c == ParseForm(body, cur)
           At(f) == {i \in DOMAIN body : FieldOf[body[i].key] = f}
           Val(f) == IF At(f) = {} THEN cur[f] ELSE ValueOf(body[Max(At(f))], cur)
<1>1. DOMAIN cur = FieldNames /\ \A f \in FieldNames : FieldValid(f, cur[f])
    BY ValidFields
<1>2. c = [f \in FieldNames |-> Val(f)]
    BY <1>1 DEF ParseForm
<1>3. ASSUME NEW f \in FieldNames PROVE FieldValid(f, Val(f))
  <2>1. CASE At(f) = {}
      BY <1>1, <2>1
  <2>2. CASE At(f) # {}
    <3>1. At(f) \in SUBSET (1..n)
        BY DEF TypedBody
    <3>2. Max(At(f)) \in At(f)
        BY <2>2, <3>1, LastOf
    <3> HIDE DEF At
    <3>3. PICK i \in 1..n : i = Max(At(f)) /\ FieldOf[body[i].key] = f
        BY <3>1, <3>2 DEF At
    <3>4. Typed(body[i]) /\ Understood(body[i])
        BY DEF TypedBody, FormAccepted
    <3> QED BY <2>2, <3>3, <3>4, ValueValid
  <2> QED BY <2>1, <2>2
<1> HIDE DEF c, Val
<1>4. c = [f \in FieldNames |-> c[f]] /\ \A f \in FieldNames : FieldValid(f, c[f])
    BY <1>2, <1>3
<1> QED BY <1>4, FieldsValid DEF c

-----------------------------------------------------------------------------
(* The bodies that the browser sends.                                      *)

\* What the inputs hold when the page of c was edited by e.
Inputs(e, c) ==
    [key \in DOMAIN FieldOf |-> IF key \in DOMAIN e THEN e[key] ELSE Shown(c)[key]]

\* An input that was not edited holds the text of the field, for every text that
\* fits its slot fits the buffer of html_escape_attr.
LEMMA InputOf ==
    ASSUME NEW c, Valid(c), NEW e \in Edits, NEW key \in Keys
    PROVE  LET in == Inputs(e, c)[key]  f == FieldOf[key] IN
           /\ key \in DOMAIN e => in = e[key]
           /\ key \notin DOMAIN e => /\ key \in Addresses => in = c[f]
                                     /\ key \in Numbers => in = <<c[f]>>
                                     /\ key \in Texts \ Secrets => in = c[f]
                                     /\ key \in Secrets => in = <<>>
<1> DEFINE in == Inputs(e, c)[key]
           f == FieldOf[key]
<1>1. /\ key \in DOMAIN e => in = e[key]
      /\ key \notin DOMAIN e => in = Shown(c)[key]
    BY KeyTable DEF Inputs
<1>2. /\ key \in Addresses => Shown(c)[key] = c[f]
      /\ key \in Numbers => Shown(c)[key] = <<c[f]>>
      /\ key \in Texts \ Secrets => Shown(c)[key] = Attr(c[f])
      /\ key \in Secrets => Shown(c)[key] = <<>>
  <2>1. key \in Addresses \union Numbers \union Texts
      BY DEF Keys
  <2> QED BY <2>1 DEF Shown, Addresses, Numbers, Texts, Secrets
<1>3. ASSUME key \in Texts \ Secrets PROVE Attr(c[f]) = c[f]
  <2>1. FieldValid(f, c[f])
      BY KeyTable, ValidFields
  <2>2. c[f] \in Text(IdLen) \/ c[f] \in Text(CredLen)
      BY <1>3, <2>1 DEF FieldValid, FieldOf, Credentials, Texts, Secrets
  <2>3. PICK s \in Seq(Byte) : s = c[f] /\ (Len(s) <= IdLen \/ Len(s) <= CredLen)
      BY <2>2 DEF Text
  <2>4. PICK l \in Nat, i \in Nat, k \in Nat, a \in Nat :
            l = Len(s) /\ i = IdLen /\ k = CredLen /\ a = AttrCap
      BY CodecAssumption, FormAssumption
  <2>5. 6 * i <= a /\ 6 * k <= a /\ (l <= i \/ l <= k)
      BY <2>3, <2>4, FormAssumption
  <2>6. 6 * l <= a
      BY <2>5
  <2> QED BY <2>3, <2>4, <2>6, AttrKept
<1> QED BY <1>1, <1>2, <1>3

\* An input for a text holds characters, any other numbers.
TypedInput(key, x) ==
    /\ key \in Texts => x \in Seq(Byte) /\ Utf8(x) /\ NoNul(x)
    /\ key \notin Texts => x \in Seq(Nat)

LEMMA InputType ==
    ASSUME NEW c, Valid(c), NEW e \in Edits, NEW key \in Keys
    PROVE  TypedInput(key, Inputs(e, c)[key])
<1> DEFINE f == FieldOf[key]
<1>1. PICK in : in = Inputs(e, c)[key]
    OBVIOUS
<1> SUFFICES TypedInput(key, in)
    BY <1>1
<1>2. key \in Texts \/ key \in Addresses \/ key \in Numbers
    BY DEF Keys
<1>3. key \in Texts => key \notin Addresses \union Numbers
    BY DEF Addresses, Numbers, Texts, Secrets
<1>4. CASE key \in DOMAIN e
  <2>1. in = e[key]
      BY <1>1, <1>4, InputOf
  <2>2. \/ key \in Texts /\ e[key] \in Seq(Byte) /\ Utf8(e[key]) /\ NoNul(e[key])
        \/ key \in Addresses \union Numbers /\ e[key] \in Seq(Nat)
      BY <1>4, UpdateAssumption
  <2> QED BY <1>3, <2>1, <2>2 DEF TypedInput
<1>5. CASE key \notin DOMAIN e
  <2>1. FieldValid(f, c[f])
      BY KeyTable, ValidFields
  <2>2. CASE key \in Addresses
    <3>1. in = c[f]
        BY <1>1, <1>5, <2>2, InputOf
    <3>2. c[f] \in Address
        BY <2>1, <2>2 DEF FieldValid, FieldOf, Addresses
    <3>3. PICK a \in Nat : a = AddrLen
        BY CodecAssumption
    <3>4. \A x \in [1..a -> Nat] : x \in Seq(Nat)
        OBVIOUS
    <3>5. c[f] \in [1..a -> Nat]
      <4>1. \A x \in Byte : x \in Nat
          BY DEF Byte
      <4> QED BY <3>2, <3>3, <4>1 DEF Address
    <3>6. c[f] \in Seq(Nat)
        BY <3>4, <3>5
    <3> QED BY <1>3, <2>2, <3>1, <3>6 DEF TypedInput
  <2>3. CASE key \in Numbers
    <3>1. in = <<c[f]>>
        BY <1>1, <1>5, <2>3, InputOf
    <3>2. f = "prefix" \/ f = "port"
        BY <2>3 DEF FieldOf, Numbers
    <3>3. c[f] \in 1..32 \/ c[f] \in 1..MaxPort
        BY <2>1, <3>2 DEF FieldValid
    <3>4. c[f] \in Nat
        BY <3>3
    <3>5. <<c[f]>> \in Seq(Nat)
        BY <3>4
    <3> QED BY <1>3, <2>3, <3>1, <3>5 DEF TypedInput
  <2>4. CASE key \in Texts \ Secrets
    <3>1. in = c[f]
        BY <1>1, <1>5, <2>4, InputOf
    <3>2. f = "id" \/ f \in Credentials
        BY <2>4 DEF FieldOf, Credentials, Texts, Secrets
    <3>3. (c[f] \in Text(IdLen) \/ c[f] \in Text(CredLen)) /\ NoNul(c[f])
        BY <2>1, <3>2 DEF FieldValid
    <3> QED BY <2>4, <3>1, <3>3 DEF Text, TypedInput
  <2>5. CASE key \in Secrets
    <3>1. in = <<>>
        BY <1>1, <1>5, <2>5, InputOf
    <3>2. <<>> \in Seq(Byte) /\ Utf8(<<>>) /\ NoNul(<<>>)
        BY DEF Utf8, NoNul
    <3>3. key \in Texts
        BY <2>5 DEF Texts
    <3> QED BY <3>1, <3>2, <3>3 DEF TypedInput
  <2> QED BY <1>2, <2>2, <2>3, <2>4, <2>5
<1> QED BY <1>4, <1>5

LEMMA BodyPair ==
    ASSUME NEW inputs, NEW i \in 1..10
    PROVE  LET pair == Body(inputs)[i]  key == FormKeys[i] IN
           /\ pair.key = key /\ key \in Keys
           /\ key \in Texts => pair.val = UrlEncode(inputs[key])
           /\ key \notin Texts => pair.val = inputs[key]
           /\ pair = [key |-> pair.key, val |-> pair.val]
BY KeyTable DEF Body

LEMMA BodyTyped ==
    ASSUME NEW c, Valid(c), NEW e \in Edits
    PROVE  TypedBody(Body(Inputs(e, c)), 10)
<1>1. DOMAIN Body(Inputs(e, c)) = 1..10
    BY KeyTable DEF Body
<1>2. ASSUME NEW i \in 1..10 PROVE Typed(Body(Inputs(e, c))[i])
  <2>1. PICK key \in Keys : key = FormKeys[i]
      BY BodyPair
  <2>2. TypedInput(key, Inputs(e, c)[key])
      BY InputType
  <2>3. PICK in : in = Inputs(e, c)[key]
      OBVIOUS
  <2>4. CASE key \in Texts
    <3>1. in \in Seq(Byte)
        BY <2>2, <2>3, <2>4 DEF TypedInput
    <3>2. UrlEncode(in) \in Seq(Byte)
        BY <3>1, UrlEncodeType
    <3> QED BY <2>1, <2>3, <2>4, <3>2, BodyPair DEF Typed
  <2>5. CASE key \notin Texts
      BY <2>1, <2>2, <2>5, BodyPair DEF Typed, TypedInput
  <2> QED BY <2>4, <2>5
<1> QED BY <1>1, <1>2 DEF TypedBody

\* A form whose edited inputs are within their limits is not refused: what the
\* other inputs show came out of the slots of a configuration that works.
LEMMA BodyAccepted ==
    ASSUME NEW c, Valid(c), NEW e \in Edits, WithinLimits(e)
    PROVE  FormAccepted(Body(Inputs(e, c)))
<1> SUFFICES ASSUME NEW i \in 1..10 PROVE Understood(Body(Inputs(e, c))[i])
    BY BodyTyped DEF FormAccepted, TypedBody
<1>1. PICK key \in Keys : key = FormKeys[i]
    BY BodyPair
<1>2. PICK pair : pair = Body(Inputs(e, c))[i]
    OBVIOUS
<1>3. PICK in : in = Inputs(e, c)[key]
    OBVIOUS
<1>4. /\ pair.key = key
      /\ key \in Texts => pair.val = UrlEncode(in)
      /\ key \notin Texts => pair.val = in
    BY <1>1, <1>2, <1>3, BodyPair
<1>5. TypedInput(key, in)
    BY <1>3, InputType
<1> DEFINE f == FieldOf[key]
<1>6. FieldValid(f, c[f])
    BY KeyTable, ValidFields
<1> SUFFICES Understood(pair)
    BY <1>2
<1>7. CASE key \in Addresses
  <2>1. key \notin Texts
      BY <1>7 DEF Addresses, Texts, Secrets
  <2>2. in \in Address
    <3>1. CASE key \in DOMAIN e
      <4>1. e[key] \in Address
          BY <1>7, <3>1 DEF WithinLimits, Addresses, Texts, Secrets
      <4> QED BY <1>3, <3>1, <4>1, InputOf
    <3>2. CASE key \notin DOMAIN e
      <4>1. c[f] \in Address
          BY <1>6, <1>7 DEF FieldValid, FieldOf, Addresses
      <4> QED BY <1>3, <1>7, <3>2, <4>1, InputOf
    <3> QED BY <3>1, <3>2
  <2>3. ParsesIpv4(in)
    <3>1. PICK a \in Nat : a = AddrLen
        BY CodecAssumption
    <3>2. in \in [1..a -> Byte]
        BY <2>2, <3>1 DEF Address
    <3>3. in \in Seq(Byte) /\ Len(in) = a /\ DOMAIN in = 1..a
        BY <3>2
    <3> QED BY <3>1, <3>2, <3>3 DEF ParsesIpv4
  <2> QED BY <1>4, <1>7, <2>1, <2>3 DEF Understood
<1>8. CASE key \in Numbers
  <2>1. key \notin Texts /\ (key = "prefix" \/ key = "port")
      BY <1>8 DEF Numbers, Texts, Secrets
  <2>2. /\ Len(in) = 1
        /\ key = "prefix" => in[1] \in 1..32
        /\ key = "port" => in[1] \in 1..MaxPort
    <3>1. CASE key \in DOMAIN e
      <4>1. /\ key = "prefix" => Len(e[key]) = 1 /\ e[key][1] \in 1..32
            /\ key = "port" => Len(e[key]) = 1 /\ e[key][1] \in 1..MaxPort
          BY <3>1 DEF WithinLimits, Addresses, Texts, Secrets
      <4> QED BY <1>3, <2>1, <3>1, <4>1, InputOf
    <3>2. CASE key \notin DOMAIN e
      <4>1. PICK v : v = c[f] /\ in = <<v>>
          BY <1>3, <1>8, <3>2, InputOf
      <4>2. Len(in) = 1 /\ in[1] = v
          BY <4>1
      <4>3. /\ key = "prefix" => v \in 1..32
            /\ key = "port" => v \in 1..MaxPort
          BY <1>6, <4>1 DEF FieldValid, FieldOf
      <4> QED BY <4>2, <4>3
    <3> QED BY <3>1, <3>2
  <2> QED BY <1>4, <2>1, <2>2 DEF Understood, ParsesPort
<1>9. CASE key \in Texts
  <2>1. in \in Seq(Byte) /\ Utf8(in) /\ NoNul(in)
      BY <1>5, <1>9 DEF TypedInput
  <2>2. Len(in) <= Limit(key)
    <3>1. CASE key \in DOMAIN e
      <4>1. Len(e[key]) <= Limit(key)
          BY <1>9, <3>1 DEF WithinLimits, Addresses, Texts, Secrets
      <4> QED BY <1>3, <3>1, <4>1, InputOf
    <3>2. CASE key \notin DOMAIN e /\ key \notin Secrets
      <4>1. in = c[f]
          BY <1>3, <1>9, <3>2, InputOf
      <4>2. \/ f = "id" /\ Limit(key) = IdLen
            \/ f \in Credentials /\ Limit(key) = CredLen
          BY <1>9 DEF FieldOf, Credentials, Limit, Texts, Secrets
      <4>3. c[f] \in Text(Limit(key))
          BY <1>6, <4>2 DEF FieldValid
      <4> QED BY <4>1, <4>3 DEF Text
    <3>3. CASE key \notin DOMAIN e /\ key \in Secrets
      <4>1. in = <<>>
          BY <1>3, <3>3, InputOf
      <4> QED BY <4>1, CodecAssumption DEF Limit
    <3> QED BY <3>1, <3>2, <3>3
  <2>3. Limit(key) <= DecodeCap
    <3>1. PICK k \in Nat, d \in Nat : k = CredLen /\ d = DecodeCap
        BY CodecAssumption, FormAssumption
    <3>2. k <= d
        BY <3>1, FormAssumption
    <3> QED BY <3>1, <3>2, FormAssumption DEF Limit
  <2>4. Len(in) <= DecodeCap
      BY <2>1, <2>2, <2>3, CodecAssumption, FormAssumption DEF Limit
  <2>5. Decodable(UrlEncode(in)) /\ Decoded(UrlEncode(in)) = in
      BY <2>1, <2>4, DecodablePlain, DecodeEncode DEF Plain
  <2> QED BY <1>4, <1>9, <2>2, <2>5 DEF Understood
<1> QED BY <1>7, <1>8, <1>9 DEF Keys

\* parse_form makes of a complete body what its user has asked for: each field
\* has one pair, and decoding undoes the encoding of the browser.
LEMMA BodyWish ==
    ASSUME NEW c, Valid(c), NEW e \in Edits, NEW cur, Valid(cur)
    PROVE  ParseForm(Body(Inputs(e, c)), cur) = Wish(e, c, cur)
<1> DEFINE body == Body(Inputs(e, c))
           At(f) == {i \in DOMAIN body : FieldOf[body[i].key] = f}
           Val(f) == IF At(f) = {} THEN cur[f] ELSE ValueOf(body[Max(At(f))], cur)
           KeyOf(f) == CHOOSE k \in DOMAIN FieldOf : FieldOf[k] = f
           Asked(f) ==
               IF KeyOf(f) \in Secrets /\ (KeyOf(f) \notin DOMAIN e \/ e[KeyOf(f)] = <<>>)
               THEN cur[f]
               ELSE IF KeyOf(f) \notin DOMAIN e THEN c[f]
               ELSE IF KeyOf(f) \in Numbers THEN e[KeyOf(f)][1] ELSE e[KeyOf(f)]
<1>1. /\ ParseForm(body, cur) = [f \in DOMAIN cur |-> Val(f)]
      /\ Wish(e, c, cur) = [f \in DOMAIN cur |-> Asked(f)]
    BY DEF ParseForm, Wish
<1> HIDE DEF body, At, Val, KeyOf, Asked
<1> SUFFICES ASSUME NEW f \in FieldNames PROVE Val(f) = Asked(f)
    BY <1>1, ValidFields DEF body
<1>2. PICK key \in Keys : FieldOf[key] = f
    BY KeyTable
<1>3. KeyOf(f) = key
    BY <1>2, KeyTable, KeysDiffer DEF KeyOf
<1>4. PICK i \in 1..10 : FormKeys[i] = key
    BY KeyTable
<1>5. At(f) = {i}
  <2>1. DOMAIN body = 1..10
      BY BodyTyped DEF TypedBody, body
  <2>2. \A j \in 1..10 : body[j].key = FormKeys[j] /\ FormKeys[j] \in Keys
      BY BodyPair DEF body
  <2>3. \A j \in 1..10 : FieldOf[FormKeys[j]] = f <=> j = i
      BY <1>2, <1>4, <2>2, KeysDiffer
  <2> QED BY <2>1, <2>2, <2>3 DEF At
<1>6. Max({i}) = i
    BY DEF Max
<1>7. PICK pair : pair = body[i]
    OBVIOUS
<1>8. PICK in : in = Inputs(e, c)[key]
    OBVIOUS
<1>9. /\ pair.key = key
      /\ key \in Texts => pair.val = UrlEncode(in)
      /\ key \notin Texts => pair.val = in
    BY <1>4, <1>7, <1>8, BodyPair DEF body
<1>10. Val(f) = ValueOf(pair, cur)
    BY <1>5, <1>6, <1>7 DEF Val
<1>11. /\ key \in Secrets => Asked(f) = IF key \in DOMAIN e /\ e[key] # <<>>
                                        THEN e[key] ELSE cur[f]
       /\ key \notin Secrets /\ key \notin DOMAIN e => Asked(f) = c[f]
       /\ key \in Addresses /\ key \in DOMAIN e => Asked(f) = e[key]
       /\ key \in Numbers /\ key \in DOMAIN e => Asked(f) = e[key][1]
       /\ key \in Texts \ Secrets /\ key \in DOMAIN e => Asked(f) = e[key]
  <2>1. Asked(f) =
            IF key \in Secrets /\ (key \notin DOMAIN e \/ e[key] = <<>>) THEN cur[f]
            ELSE IF key \notin DOMAIN e THEN c[f]
            ELSE IF key \in Numbers THEN e[key][1] ELSE e[key]
      BY <1>3 DEF Asked
  <2>2. /\ key \in Addresses => key \notin Secrets /\ key \notin Numbers
        /\ key \in Numbers => key \notin Secrets
        /\ key \in Texts => key \notin Numbers
      BY DEF Addresses, Numbers, Texts, Secrets
  <2>3. key \in Secrets => key \in Texts
      BY DEF Texts
  <2> QED BY <2>1, <2>2, <2>3
<1>12. CASE key \in Addresses
  <2>1. key \notin Texts /\ key \notin Secrets
      BY <1>12 DEF Addresses, Texts, Secrets
  <2>2. ValueOf(pair, cur) = in
      BY <1>9, <1>12, <2>1 DEF ValueOf, Addresses, Numbers, Texts, Secrets
  <2> QED BY <1>2, <1>8, <1>10, <1>11, <1>12, <2>1, <2>2, InputOf
<1>13. CASE key \in Numbers
  <2>1. key \notin Texts /\ key \notin Secrets
      BY <1>13 DEF Numbers, Texts, Secrets
  <2>2. ValueOf(pair, cur) = in[1]
      BY <1>9, <1>13, <2>1 DEF ValueOf, Addresses, Numbers, Texts, Secrets
  <2>3. in = IF key \in DOMAIN e THEN e[key] ELSE <<c[f]>>
      BY <1>2, <1>8, <1>13, InputOf
  <2>4. <<c[f]>>[1] = c[f]
      OBVIOUS
  <2> QED BY <1>10, <1>11, <1>13, <2>1, <2>2, <2>3, <2>4
<1>14. CASE key \in Texts
  <2>1. in \in Seq(Byte)
      BY <1>8, <1>14, InputType DEF TypedInput
  <2>2. Decoded(pair.val) = in
      BY <1>9, <1>14, <2>1, DecodeEncode
  <2>3. CASE key \notin Secrets
    <3>1. ValueOf(pair, cur) = in
        BY <1>9, <1>14, <2>2, <2>3 DEF ValueOf, Addresses, Numbers, Texts, Secrets
    <3> QED BY <1>2, <1>8, <1>10, <1>11, <1>14, <2>3, <3>1, InputOf
  <2>4. CASE key \in Secrets
    <3>1. ValueOf(pair, cur) = SecretFromForm(cur[f], in)
        BY <1>2, <1>9, <1>14, <2>2, <2>4
        DEF ValueOf, Addresses, Numbers, Texts, Secrets
    <3>2. in = IF key \in DOMAIN e THEN e[key] ELSE <<>>
        BY <1>8, <2>4, InputOf
    <3> QED BY <1>10, <1>11, <2>4, <3>1, <3>2 DEF SecretFromForm
  <2> QED BY <2>3, <2>4
<1> QED BY <1>12, <1>13, <1>14 DEF Keys

\* A value of which only a part has arrived is of the same kind.
LEMMA ShortenedType ==
    ASSUME NEW key \in Keys, NEW val, NEW v \in Shortened(key, val),
           key \in Texts => val \in Seq(Byte), key \notin Texts => val \in Seq(Nat)
    PROVE  /\ key \in Texts => v \in Seq(Byte)
           /\ key \notin Texts => v \in Seq(Nat)
<1>1. ASSUME NEW S, val \in Seq(S), NEW k \in 0..Len(val) - 1
      PROVE  SubSeq(val, 1, k) \in Seq(S)
  <2>1. PICK n \in Nat : n = Len(val) /\ DOMAIN val = 1..n
      BY <1>1
  <2>2. \A j \in 1..k : val[j] \in S
      BY <1>1, <2>1
  <2> QED BY <1>1, <2>1, <2>2
<1>2. CASE \E k \in 0..Len(val) - 1 : v = SubSeq(val, 1, k)
    BY <1>1, <1>2
<1>3. ASSUME NEW ten \in {10, 100, 1000, 10000}, key \notin Texts, val # <<>>,
             v = [val EXCEPT ![Len(val)] = @ \div ten]
      PROVE  v \in Seq(Nat)
  <2>1. PICK n \in Nat : n = Len(val) /\ DOMAIN val = 1..n
      BY <1>3
  <2>2. val \in [1..n -> Nat] /\ n \in 1..n
      BY <1>3, <2>1
  <2>3. PICK x \in Nat : x = val[n]
      BY <2>2
  <2>4. x \div ten \in Nat
      BY <1>3
  <2>5. v \in [1..n -> Nat]
      BY <1>3, <2>1, <2>2, <2>3, <2>4
  <2> QED BY <2>1, <2>5
<1> QED BY <1>2, <1>3 DEF Shortened

LEMMA CutTyped ==
    ASSUME NEW c, Valid(c), NEW e \in Edits, NEW n \in CutAt,
           NEW part \in CutBodies(Body(Inputs(e, c)), n)
    PROVE  \E m \in Nat : TypedBody(part, m)
<1>1. PICK body : body = Body(Inputs(e, c))
    OBVIOUS
<1>2. n \in 1..10 /\ DOMAIN body = 1..10 /\ \A i \in 1..10 : Typed(body[i])
    BY <1>1, BodyTyped, KeyTable, UpdateAssumption DEF TypedBody
<1>3. PICK m \in 0..9 : m = n - 1
    BY <1>2
<1> DEFINE first == SubSeq(body, 1, m)
<1>4. first = [i \in 1..m |-> body[i]] /\ Len(first) = m /\ DOMAIN first = 1..m
  <2>1. body \in Seq({body[i] : i \in 1..10}) /\ Len(body) = 10
    <3>1. body = [i \in 1..10 |-> body[i]]
        BY <1>1, <1>2 DEF Body
    <3> QED BY <3>1
  <2> QED BY <2>1
<1> HIDE DEF first
<1>5. CASE part = first
  <2>1. m \in Nat /\ \A i \in 1..m : i \in 1..10
      BY <1>3
  <2>2. TypedBody(part, m)
      BY <1>2, <1>4, <1>5, <2>1 DEF TypedBody
  <2> QED BY <2>1, <2>2
<1>6. ASSUME NEW v \in Shortened(body[n].key, body[n].val),
             part = Append(first, [body[n] EXCEPT !.val = v])
      PROVE  TypedBody(part, n)
  <2>1. PICK pair : pair = [body[n] EXCEPT !.val = v]
      OBVIOUS
  <2>2. body[n] = [key |-> body[n].key, val |-> body[n].val]
      BY <1>1, <1>2, BodyPair
  <2>3. pair.key = body[n].key /\ pair.val = v
      BY <2>1, <2>2
  <2>4. Typed(pair)
      BY <1>2, <1>6, <2>3, ShortenedType DEF Typed
  <2>5. /\ DOMAIN part = 1..m + 1 /\ part[m + 1] = pair
        /\ \A i \in 1..m : part[i] = first[i]
      BY <1>4, <1>6, <2>1
  <2>6. ASSUME NEW i \in 1..n PROVE Typed(part[i])
    <3>1. CASE i = n
        BY <1>2, <1>3, <2>4, <2>5, <3>1
    <3>2. CASE i # n
      <4>1. i \in 1..m /\ i \in 1..10
          BY <1>2, <1>3, <3>2
      <4> QED BY <1>2, <1>4, <2>5, <4>1
    <3> QED BY <3>1, <3>2
  <2> QED BY <1>2, <1>3, <2>5, <2>6 DEF TypedBody
<1>7. part \in CutBodies(body, n)
    BY <1>1
<1>8. CutBodies(body, n) =
          {first} \union {Append(first, [body[n] EXCEPT !.val = v]) :
                              v \in Shortened(body[n].key, body[n].val)}
    BY <1>3 DEF CutBodies, first
<1>9. n \in Nat
    BY <1>2
<1> QED BY <1>5, <1>6, <1>7, <1>8, <1>9

-----------------------------------------------------------------------------
(* The inductive invariant.                                                *)

\* A page shows a configuration that the device ran on at some time.
PagesInv == \A c \in pages : Valid(c)

\* A web task saves what the user of its complete request asked for.
MeantInv ==
    /\ DOMAIN meant = Web
    /\ \A w \in Web :
           pc[w] \in {"lock", "write"} /\ meant[w].whole => form[w] = meant[w].want

\* So did the one that was acknowledged last.
GoalInv ==
    /\ acked = {} => goal = {}
    /\ \A g \in goal, c \in acked : g.whole => c = g.want

UpdateInv == LedInv /\ ConfigInv /\ PagesInv /\ MeantInv /\ GoalInv /\ wronged = FALSE

\* The device as it comes from the factory.
LEMMA InitUpdateInv == UpdateInit => UpdateInv
<1> SUFFICES ASSUME UpdateInit PROVE UpdateInv
    OBVIOUS
<1>1. LedInv /\ ConfigInv
    BY InitLedInv, InitConfigInv DEF UpdateInit
<1>2. PagesInv /\ GoalInv /\ wronged = FALSE
    BY DEF UpdateInit, PagesInv, GoalInv
<1>3. MeantInv
    BY DEF UpdateInit, MeantInv, Nothing
<1> QED BY <1>1, <1>2, <1>3 DEF UpdateInv

\* A request that is answered with 400 changes none of this.
Refused ==
    UNCHANGED <<mem, taskVars, ledVars, cfgVars, torn, acked, meant>>

\* What a request does: a complete one saves what its user asked for.
LEMMA RequestCases ==
    ASSUME UpdateInv, NEW w \in Web, NEW c \in pages, NEW e \in Edits, Submit(w, c, e)
    PROVE  /\ \/ \E d : /\ Valid(d) /\ Save(w, d)
                        /\ \E whole \in BOOLEAN :
                               /\ meant' = [meant EXCEPT ![w] = [want |-> Wish(e, c, cfg),
                                                                 whole |-> whole]]
                               /\ whole => d = Wish(e, c, cfg)
              \/ Refused
           /\ wronged' = wronged /\ UNCHANGED <<users, goal>>
<1>1. Valid(c) /\ Valid(cfg)
    BY DEF UpdateInv, PagesInv, ConfigInv
<1>2. PICK body : body = Body(Inputs(e, c))
    OBVIOUS
<1>3. PICK wish : wish = Wish(e, c, cfg)
    OBVIOUS
<1>4. UNCHANGED <<users, goal>>
    BY DEF Submit
<1>5. \/ Request(w, body, wish, TRUE, WithinLimits(e))
      \/ \E n \in CutAt : \E part \in CutBodies(body, n) :
             Request(w, part, wish, FALSE, FALSE)
    BY <1>2, <1>3 DEF Submit, Inputs
<1> DEFINE Done(d, whole) ==
               /\ Valid(d) /\ Save(w, d)
               /\ meant' = [meant EXCEPT ![w] = [want |-> wish, whole |-> whole]]
               /\ whole => d = wish
           Outcome == /\ (\E d : \E whole \in BOOLEAN : Done(d, whole)) \/ Refused
                      /\ wronged' = wronged
<1>6. ASSUME Request(w, body, wish, TRUE, WithinLimits(e)) PROVE Outcome
  <2>1. ParseForm(body, cfg) = wish
      BY <1>1, <1>2, <1>3, BodyWish
  <2>2. CASE FormAccepted(body)
    <3>1. Valid(ParseForm(body, cfg))
        BY <1>1, <1>2, <2>2, BodyTyped, ParseFormValid
    <3>2. /\ Save(w, ParseForm(body, cfg)) /\ wronged' = wronged
          /\ meant' = [meant EXCEPT ![w] = [want |-> wish, whole |-> TRUE]]
        BY <1>6, <2>2 DEF Request
    <3>3. Done(ParseForm(body, cfg), TRUE)
        BY <2>1, <3>1, <3>2
    <3> HIDE DEF Done
    <3> QED BY <3>2, <3>3
  <2>3. CASE ~FormAccepted(body)
    <3>1. ~WithinLimits(e)
        BY <1>1, <1>2, <2>3, BodyAccepted
    <3>2. wronged' = (wronged \/ (TRUE /\ WithinLimits(e))) /\ Refused
        BY <1>6, <2>3 DEF Request, Refused, ledHistory
    <3>3. wronged' = FALSE /\ wronged = FALSE
        BY <3>1, <3>2 DEF UpdateInv
    <3> QED BY <3>2, <3>3
  <2> QED BY <2>2, <2>3
<1>7. ASSUME NEW n \in CutAt, NEW part \in CutBodies(body, n),
             Request(w, part, wish, FALSE, FALSE)
      PROVE  Outcome
  <2>1. CASE FormAccepted(part)
    <3>1. PICK m \in Nat : TypedBody(part, m)
        BY <1>1, <1>2, CutTyped
    <3>2. Valid(ParseForm(part, cfg))
        BY <1>1, <2>1, <3>1, ParseFormValid
    <3>3. /\ Save(w, ParseForm(part, cfg)) /\ wronged' = wronged
          /\ meant' = [meant EXCEPT ![w] = [want |-> wish, whole |-> FALSE]]
        BY <1>7, <2>1 DEF Request
    <3>4. Done(ParseForm(part, cfg), FALSE)
        BY <3>2, <3>3
    <3> HIDE DEF Done
    <3> QED BY <3>3, <3>4
  <2>2. CASE ~FormAccepted(part)
    <3>1. wronged' = (wronged \/ (FALSE /\ FALSE)) /\ Refused
        BY <1>7, <2>2 DEF Request, Refused, ledHistory
    <3>2. wronged' = FALSE /\ wronged = FALSE
        BY <3>1 DEF UpdateInv
    <3> QED BY <3>1, <3>2
  <2> QED BY <2>1, <2>2
<1>8. Outcome
    BY <1>5, <1>6, <1>7
<1> QED BY <1>3, <1>4, <1>8

\* To the records on the chip each step is one of Storage.
LEMMA UpdateMoves ==
    ASSUME UpdateInv, [UpdateNext]_updateVars
    PROVE  Move
<1>1. CASE UNCHANGED vars
    BY <1>1 DEF Move, vars, ledHistory
<1>2. ASSUME NEW t \in Tasks, UpdateStep(t) PROVE Move
    BY <1>2 DEF UpdateStep, Step, Move
<1>3. CASE UpdateLed
  <2>1. LedCommand({1}, 1)
      BY <1>3 DEF UpdateLed
  <2> QED BY <2>1 DEF Move
<1>4. ASSUME NEW w \in Web, NEW c \in pages, NEW e \in Edits, Submit(w, c, e) PROVE Move
  <2>1. (\E d : Valid(d) /\ Save(w, d)) \/ Refused
      BY <1>4, RequestCases
  <2> QED BY <2>1 DEF Refused, Move
<1> QED BY <1>1, <1>2, <1>3, <1>4 DEF UpdateNext, LogIn, OpenPage, updateVars

\* A poll of a task that does not acknowledge a save.
LEMMA WorkFrame ==
    ASSUME UpdateInv, NEW t \in Tasks, Work(t)
    PROVE  /\ UNCHANGED <<cfg, form>>
           /\ \A w \in Web : pc'[w] \in {"lock", "write"} => pc[w] \in {"lock", "write"}
           /\ \/ acked' = acked
              \/ acked' = {}
              \/ t \in Web /\ pc[t] = "write" /\ acked = {} /\ acked' = {form[t]}
<1>1. pc \in [Tasks -> {"idle", "lock", "write", "reboot"}]
    BY DEF UpdateInv, LedInv, LedTaskType
<1>2. \A w \in Web : w \in Tasks
    BY DEF Tasks
<1>3. CASE Lock(t)
    BY <1>1, <1>2, <1>3 DEF Lock, cfgVars
<1>4. CASE WriteByte(t)
    BY <1>4 DEF WriteByte, cfgVars
<1>5. CASE WriteError(t)
    BY <1>1, <1>2, <1>5 DEF WriteError, Release, cfgVars
<1>6. CASE LedSaved
    BY <1>1, <1>2, <1>6 DEF LedSaved, Release, cfgVars
<1>7. CASE t \in Web /\ ConfigSaved(t)
  <2>1. /\ pc[t] = "write" /\ acked' = {form[t]} /\ UNCHANGED <<cfg, form>>
        /\ pc' = [pc EXCEPT ![t] = "reboot"]
      BY <1>7 DEF ConfigSaved, Release, cfgVars
  <2>2. acked = {}
      BY <1>7, <2>1 DEF UpdateInv, ConfigInv, MutexInv, AckedInv
  <2> QED BY <1>1, <1>2, <1>7, <2>1, <2>2
<1> QED BY <1>3, <1>4, <1>5, <1>6, <1>7 DEF Work

LEMMA MeantStep ==
    ASSUME UpdateInv, [UpdateNext]_updateVars
    PROVE  MeantInv'
<1>1. MeantInv /\ pc \in [Tasks -> {"idle", "lock", "write", "reboot"}]
      /\ DOMAIN form = Web
    BY DEF UpdateInv, LedInv, LedTaskType, ConfigInv, FormInv
<1>2. \A w \in Web : w \in Tasks /\ w # Mqtt
    BY StorageAssumption DEF Tasks
<1>3. CASE UNCHANGED <<pc, form, meant>>
    BY <1>1, <1>3 DEF MeantInv
<1>4. ASSUME NEW t \in Tasks, Work(t), UNCHANGED meant PROVE MeantInv'
    BY <1>1, <1>4, WorkFrame DEF MeantInv
<1>5. ASSUME NEW w \in Web, Reboot(w), meant' = [v \in Web |-> Nothing] PROVE MeantInv'
  <2>1. pc' = [t \in Tasks |-> "idle"]
      BY <1>5 DEF Reboot, RebootAfterSave, Boot
  <2> QED BY <1>2, <1>5, <2>1 DEF MeantInv
<1>6. CASE UpdateLed
  <2>1. /\ UNCHANGED <<form, meant>>
        /\ \A w \in Web : pc'[w] = pc[w]
      BY <1>1, <1>2, <1>6 DEF UpdateLed, LedCommand, cfgVars
  <2> QED BY <1>1, <2>1 DEF MeantInv
<1>7. ASSUME NEW w \in Web, NEW c \in pages, NEW e \in Edits, Submit(w, c, e)
      PROVE  MeantInv'
  <2>1. CASE Refused
      BY <1>3, <2>1 DEF Refused, taskVars, cfgVars
  <2>2. ASSUME NEW d, NEW whole \in BOOLEAN, NEW wish, Save(w, d), whole => d = wish,
               meant' = [meant EXCEPT ![w] = [want |-> wish, whole |-> whole]]
        PROVE  MeantInv'
    <3>1. /\ form' = [form EXCEPT ![w] = d] /\ pc' = [pc EXCEPT ![w] = "lock"]
        BY <2>2 DEF Save
    <3>2. /\ DOMAIN meant' = Web /\ form'[w] = d
          /\ meant'[w].want = wish /\ meant'[w].whole = whole
        BY <1>1, <2>2, <3>1 DEF MeantInv
    <3>3. ASSUME NEW v \in Web, v # w
          PROVE  pc'[v] = pc[v] /\ form'[v] = form[v] /\ meant'[v] = meant[v]
        BY <1>1, <1>2, <2>2, <3>1, <3>3 DEF MeantInv
    <3>4. ASSUME NEW v \in Web, pc'[v] \in {"lock", "write"}, meant'[v].whole
          PROVE  form'[v] = meant'[v].want
      <4>1. CASE v = w
          BY <2>2, <3>2, <3>4, <4>1
      <4>2. CASE v # w
          BY <1>1, <3>3, <3>4, <4>2 DEF MeantInv
      <4> QED BY <4>1, <4>2
    <3> QED BY <3>2, <3>4 DEF MeantInv
  <2> QED BY <1>7, <2>1, <2>2, RequestCases
<1> QED
    BY <1>3, <1>4, <1>5, <1>6, <1>7
    DEF UpdateNext, UpdateStep, LogIn, OpenPage, updateVars, vars, taskVars, cfgVars

LEMMA GoalStep ==
    ASSUME UpdateInv, [UpdateNext]_updateVars
    PROVE  GoalInv'
<1>1. GoalInv /\ MeantInv
    BY DEF UpdateInv
<1>2. CASE UNCHANGED <<acked, goal>>
    BY <1>1, <1>2 DEF GoalInv
<1>3. ASSUME NEW t \in Tasks, Work(t),
             goal' = IF acked' = acked THEN goal
                     ELSE IF acked' = {} THEN {} ELSE {meant[t]}
      PROVE  GoalInv'
  <2>1. CASE acked' = acked
      BY <1>2, <1>3, <2>1
  <2>2. CASE acked' = {} /\ acked' # acked
      BY <1>3, <2>2 DEF GoalInv
  <2>3. CASE acked' # {} /\ acked' # acked
    <3>1. /\ t \in Web /\ pc[t] = "write" /\ acked' = {form[t]}
          /\ goal' = {meant[t]}
        BY <1>3, <2>3, WorkFrame
    <3>2. meant[t].whole => form[t] = meant[t].want
        BY <1>1, <3>1 DEF MeantInv
    <3> QED BY <2>3, <3>1, <3>2 DEF GoalInv
  <2> QED BY <2>1, <2>2, <2>3
<1>4. ASSUME NEW w \in Web, Reboot(w) PROVE acked' = acked
    BY <1>4 DEF Reboot, RebootAfterSave, Boot
<1>5. CASE UpdateLed
    BY <1>2, <1>5 DEF UpdateLed, LedCommand
<1>6. ASSUME NEW w \in Web, NEW c \in pages, NEW e \in Edits, Submit(w, c, e)
      PROVE  GoalInv'
  <2>1. goal' = goal /\ ((\E d : Save(w, d)) \/ Refused)
      BY <1>6, RequestCases
  <2>2. acked' = acked
      BY <2>1 DEF Save, Refused
  <2> QED BY <1>2, <2>1, <2>2
<1> QED
    BY <1>2, <1>3, <1>4, <1>5, <1>6
    DEF UpdateNext, UpdateStep, LogIn, OpenPage, updateVars, vars

LEMMA UpdateInvStep ==
    ASSUME UpdateInv, [UpdateNext]_updateVars
    PROVE  PagesInv' /\ wronged' = FALSE
<1>1. PagesInv /\ wronged = FALSE /\ Valid(cfg)
    BY DEF UpdateInv, ConfigInv
<1>2. CASE UNCHANGED <<pages, wronged>>
    BY <1>1, <1>2 DEF PagesInv
<1>3. CASE OpenPage
    BY <1>1, <1>3 DEF OpenPage, PagesInv
<1>4. ASSUME NEW w \in Web, NEW c \in pages, NEW e \in Edits, Submit(w, c, e)
      PROVE  UNCHANGED <<pages, wronged>>
    BY <1>4, RequestCases DEF users
<1> QED
    BY <1>2, <1>3, <1>4
    DEF UpdateNext, UpdateStep, UpdateLed, LogIn, updateVars, users

LEMMA UpdateInvariant == UpdateSpec => []UpdateInv
<1>1. UpdateInv /\ [UpdateNext]_updateVars => Move
    BY UpdateMoves
<1>2. UpdateInv /\ [UpdateNext]_updateVars
          => MeantInv' /\ GoalInv' /\ PagesInv' /\ wronged' = FALSE
    BY MeantStep, GoalStep, UpdateInvStep
<1>3. UpdateInv => LedInv /\ ConfigInv
    BY DEF UpdateInv
<1>4. UpdateInv /\ [UpdateNext]_updateVars => UpdateInv'
    BY <1>1, <1>2, <1>3, LedMove, ConfigMove DEF UpdateInv
<1> QED BY <1>4, InitUpdateInv, PTL DEF UpdateSpec

-----------------------------------------------------------------------------
(* The theorems.                                                           *)

\* README, "Changing the IP", and web_form.rs: what a complete request has asked
\* for is what the chip holds once save_and_reboot has answered, until another
\* save begins to write.
THEOREM TypedIsSaved == UpdateSpec => []SavedAsTyped
<1>1. UpdateInv => SavedAsTyped
  <2> SUFFICES ASSUME UpdateInv, NEW g \in goal, g.whole PROVE StoredConfig = g.want
      BY DEF SavedAsTyped
  <2>1. PICK c \in acked : c = g.want
      BY DEF UpdateInv, GoalInv
  <2>2. Valid(c) /\ OnChip(c, ImageLen)
      BY DEF UpdateInv, ConfigInv, AckedInv
  <2> QED BY <2>1, <2>2, OnChipStored
<1> QED BY <1>1, UpdateInvariant, PTL

\* parse_form, web_form.rs: a complete form whose inputs are within the limits
\* of their fields is not answered with 400, whatever characters they hold and
\* whatever the other inputs show.
THEOREM NoValidFormRefused == UpdateSpec => []ValidFormsAccepted
<1>1. UpdateInv => ValidFormsAccepted
    BY DEF UpdateInv, ValidFormsAccepted
<1> QED BY <1>1, UpdateInvariant, PTL

\* login_credentials_match, basic_token: the login form accepts the credentials
\* that the device booted with, and apart from what basic_token cuts no others.
THEOREM LoginIsExact == UpdateSpec => []LoginExact
<1>1. UpdateInv => LoginExact
  <2> SUFFICES ASSUME UpdateInv, NEW user \in Words, NEW pass \in Words
               PROVE  LET stored == cfg.web_user \o <<Colon>> \o cfg.web_pass IN
                      CredentialsMatch(user, pass, BasicToken(cfg.web_user, cfg.web_pass))
                          <=> \/ user \o <<Colon>> \o pass = stored
                              \/ /\ user \o <<Colon>> = stored
                                 /\ Len(user) + 1 + Len(pass) > TokenCap
                                 /\ Decodable(UrlEncode(pass))
      BY DEF LoginExact
  <2>1. /\ cfg.web_user \in Text(CredLen) /\ cfg.web_pass \in Text(CredLen)
        /\ NoNul(cfg.web_user) /\ NoNul(cfg.web_pass)
      BY ConfigFields DEF UpdateInv, ConfigInv, Valid, NoNulIn
  <2>2. user \in Seq(Byte) /\ pass \in Seq(Byte)
      BY UpdateAssumption
  <2> QED BY <2>1, <2>2, TokenExact
<1> QED BY <1>1, UpdateInvariant, PTL

\* parse_form in front of save_config: whatever users submit and however little of
\* it is read, the records on the chip are as safe as Storage shows them to be for
\* configurations that it assumes to be valid.
THEOREM RecordsBehindParser ==
    UpdateSpec => [](CacheCoherent /\ SavedDurable /\ BootConfigUsable)
<1>1. UpdateInv => CacheCoherent
    BY DEF UpdateInv, LedInv
<1>2. UpdateInv => SavedDurable
    BY OnChipStored DEF UpdateInv, ConfigInv, AckedInv, SavedDurable
<1>3. UpdateInv => BootConfigUsable
    BY ConfigFields DEF UpdateInv, ConfigInv, Valid, BootConfigUsable
<1> QED BY <1>1, <1>2, <1>3, UpdateInvariant, PTL
=============================================================================
