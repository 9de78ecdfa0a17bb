---------------------------- MODULE ConfigCodec -----------------------------
(***************************************************************************)
(* NetworkConfig and its byte image, logic/src/config.rs.  The layout has  *)
(* the fields of the source in their order; the widths of an address, of   *)
(* the client id and of a credential are parameters (4, 24 and 32 there).  *)
(* A string is a sequence of non-zero bytes, at most as long as its slot.  *)
(***************************************************************************)
EXTENDS Naturals, Sequences

CONSTANTS AddrLen,  \* bytes of an address
          IdLen,    \* bytes of the client_id slot
          CredLen   \* CRED_MAX

ASSUME CodecAssumption == {AddrLen, IdLen, CredLen} \subseteq Nat /\ AddrLen <= 4

Byte == 0..255
MaxPort == 65535  \* u16::MAX
Magic == <<192, 79, 25, 30>>

\* Offsets of the fields; each follows from the ones before it.
AtIp == 4
AtPrefix == AtIp + AddrLen
AtGateway == AtPrefix + 4      \* three bytes are unused
AtBroker == AtGateway + AddrLen
AtPort == AtBroker + AddrLen
AtId == AtPort + 3             \* one byte is reserved
AtCred(k) == AtId + IdLen + (k - 1) * CredLen
ImageLen == AtCred(5)

\* write_str: the rest of the slot keeps the zeros of the fresh buffer.
Slot(string, len) ==
    [i \in 1..len |-> IF i <= Len(string) THEN string[i] ELSE 0]

\* to_bytes
ToBytes(c) ==
    Magic \o c.ip \o <<c.prefix>> \o <<0, 0, 0>> \o c.gateway \o c.broker
          \o <<c.port \div 256, c.port % 256>> \o <<0>>
          \o Slot(c.id, IdLen)
          \o Slot(c.mqtt_user, CredLen) \o Slot(c.mqtt_pass, CredLen)
          \o Slot(c.web_user, CredLen) \o Slot(c.web_pass, CredLen)

\* from_utf8 succeeds.  Characters of one and of two bytes are modelled.
Utf8(s) ==
    \A i \in DOMAIN s :
        \/ s[i] < 128
        \/ s[i] \in 194..223 /\ i < Len(s) /\ s[i + 1] \in 128..191
        \/ s[i] \in 128..191 /\ i > 1 /\ s[i - 1] \in 194..223

\* struct NetworkConfig as parse_form fills it in: its strings are
\* heapless::String, so they are UTF-8 and fit their slots.
Address == [1..AddrLen -> Byte]
Text(len) == {s \in Seq(Byte) : Len(s) <= len /\ Utf8(s)}
Fields(c) ==
    [ip |-> c.ip, prefix |-> c.prefix, gateway |-> c.gateway, broker |-> c.broker,
     port |-> c.port, id |-> c.id, mqtt_user |-> c.mqtt_user,
     mqtt_pass |-> c.mqtt_pass, web_user |-> c.web_user, web_pass |-> c.web_pass]
NetworkConfig(c) ==
    /\ c = Fields(c)
    /\ {c.ip, c.gateway, c.broker} \subseteq Address
    /\ c.prefix \in 1..32 /\ c.port \in 1..MaxPort
    /\ c.id \in Text(IdLen)
    /\ {c.mqtt_user, c.mqtt_pass, c.web_user, c.web_pass} \subseteq Text(CredLen)

\* A slot ends at the first NUL, so a string that holds one does not survive.
NoNul(s) == \A i \in DOMAIN s : s[i] # 0

\* len bytes of the image from offset at on, which counts from zero.
Slice(b, at, len) == SubSeq(b, at + 1, at + len)

\* The slot up to its first NUL.
UpToNul(slot) ==
    SubSeq(slot, 1,
           CHOOSE n \in 0..Len(slot) :
               /\ \A i \in 1..n : slot[i] # 0
               /\ n < Len(slot) => slot[n + 1] = 0)

\* read_str: a credential that is not UTF-8 reads as the empty string.
ReadStr(slot) == IF Utf8(UpToNul(slot)) THEN UpToNul(slot) ELSE <<>>

PortOf(b) == b[AtPort + 1] * 256 + b[AtPort + 2]
IdOf(b) == UpToNul(Slice(b, AtId, IdLen))

\* Mutant of Accepts: the port is not checked.
AcceptsAnyPort(b) ==
    Slice(b, 0, 4) = Magic /\ b[AtPrefix + 1] \in 1..32 /\ Utf8(IdOf(b))

\* from_bytes rejects an image: wrong magic, a prefix_len that would make
\* Ipv4Cidr::new panic, port 0, or a client id that is not UTF-8.
Accepts(b) ==
    /\ Slice(b, 0, 4) = Magic
    /\ b[AtPrefix + 1] \in 1..32
    /\ PortOf(b) # 0
    /\ Utf8(IdOf(b))

Parsed(b) ==
    [ip |-> Slice(b, AtIp, AddrLen), prefix |-> b[AtPrefix + 1],
     gateway |-> Slice(b, AtGateway, AddrLen),
     broker |-> Slice(b, AtBroker, AddrLen),
     port |-> PortOf(b), id |-> IdOf(b),
     mqtt_user |-> ReadStr(Slice(b, AtCred(1), CredLen)),
     mqtt_pass |-> ReadStr(Slice(b, AtCred(2), CredLen)),
     web_user |-> ReadStr(Slice(b, AtCred(3), CredLen)),
     web_pass |-> ReadStr(Slice(b, AtCred(4), CredLen))]

\* impl Default for NetworkConfig, cut to the widths of the parameters.
Default ==
    [ip |-> SubSeq(<<192, 168, 137, 2>>, 5 - AddrLen, 4), prefix |-> 24,
     gateway |-> SubSeq(<<192, 168, 137, 1>>, 5 - AddrLen, 4),
     broker |-> SubSeq(<<192, 168, 137, 1>>, 5 - AddrLen, 4), port |-> 1883,
     id |-> SubSeq(<<115, 116, 109, 51, 50, 45, 106, 122, 102, 52, 48, 55>>,
                   1, IF IdLen < 12 THEN IdLen ELSE 12),
     mqtt_user |-> <<>>, mqtt_pass |-> <<>>, web_user |-> <<>>, web_pass |-> <<>>]

\* load_config on the bytes that it has read.
FromBytes(b) == IF Accepts(b) THEN Parsed(b) ELSE Default
=============================================================================
