------------------------------ MODULE Address ------------------------------
(***************************************************************************)
(* Varion\Ngtcp2\Address: the parser of fromString(), and the key that     *)
(* ServerEndpoint makes of an address to route a datagram by.              *)
(*                                                                         *)
(* A text is a sequence of characters ("SP" is the blank, "NUL" the end of *)
(* a C string).  Both see what stands before the first NUL.                *)
(***************************************************************************)
EXTENDS Integers, SequencesExt

CONSTANTS
  Chars,     \* the characters texts are made of
  MaxText,   \* bound: length of the texts to parse
  MaxHost,   \* bound: length of the hosts to print
  MaxPeer,   \* bound: length of the hosts whose keys are compared
  MaxPort    \* the largest port (65535 in the code)

ASSUME AddressAssumption ==
  MaxText \in Nat /\ MaxHost \in Nat /\ MaxPeer \in Nat /\ MaxPort \in Nat

Digit == <<"0", "1", "2", "3", "4", "5", "6", "7", "8", "9">>

TextsUpTo(n) == UNION {[1..k -> Chars] : k \in 0..n}

(* strchr, strrchr: the first and the last place of ch in t, 0 for none    *)
StrChr(t, ch) == SelectInSeq(t, LAMBDA x : x = ch)

StrRChr(t, ch) == SelectLastInSeq(t, LAMBDA x : x = ch)

From(t, i) == SubSeq(t, i, Len(t))

CString(t) == IF StrChr(t, "NUL") = 0 THEN t ELSE SubSeq(t, 1, StrChr(t, "NUL") - 1)

----------------------------------------------------------------------------
(* strtol(): blanks, a sign, digits.  EndsAt is the place endptr points at *)

ValueOf(digits) ==
  LET v[i \in 0..Len(digits)] ==
        IF i = 0 THEN 0 ELSE 10 * v[i - 1] + StrChr(Digit, digits[i]) - 1
  IN v[Len(digits)]

AllDigits(p) == p # <<>> /\ \A i \in DOMAIN p : Contains(Digit, p[i])

Unblanked(p) ==
  LET first == SelectInSeq(p, LAMBDA ch : ch # "SP")
  IN IF first = 0 THEN <<>> ELSE From(p, first)

Unsigned(p) == IF p # <<>> /\ p[1] \in {"-", "+"} THEN Tail(p) ELSE p

(* strtol consumes p to its end: endptr is at the terminator               *)
IsNumber(p) == AllDigits(Unsigned(Unblanked(p)))

NumberOf(p) == LET n == ValueOf(Unsigned(Unblanked(p)))
               IN IF Unblanked(p)[1] = "-" THEN -n ELSE n

----------------------------------------------------------------------------
(* php_quic_address_parse_endpoint: the set of answers is empty (FAILURE)  *)
(* or has one element                                                      *)

(* [host]:port, for a text v that begins with a bracket                    *)
BracketSplit(v) ==
  LET closing == StrChr(Tail(v), "]") + 1 IN
  IF closing <= 2 \/ closing >= Len(v) \/ v[closing + 1] # ":" THEN {}
  ELSE {[host |-> SubSeq(v, 2, closing - 1), port |-> From(v, closing + 2)]}

(* Fault: the port is what follows the last colon, also of an IPv6 address *)
PlainSplit_LastColon(v) ==
  LET sep == StrRChr(v, ":") IN
  IF sep <= 1 THEN {}
  ELSE {[host |-> SubSeq(v, 1, sep - 1), port |-> From(v, sep + 1)]}

(* host:port: exactly one colon, not at the beginning                      *)
PlainSplit(v) ==
  LET sep == StrRChr(v, ":") IN
  IF sep <= 1 \/ StrChr(v, ":") # sep THEN {}
  ELSE {[host |-> SubSeq(v, 1, sep - 1), port |-> From(v, sep + 1)]}

Split(v) == IF v # <<>> /\ v[1] = "[" THEN BracketSplit(v) ELSE PlainSplit(v)

(* Fault: the last port is refused                                         *)
PortInRange_OffByOne(n) == n >= 0 /\ n < MaxPort

PortInRange(n) == n >= 0 /\ n <= MaxPort

ParseEndpoint(t) ==
  {[host |-> s.host, port |-> NumberOf(s.port)] :
     s \in {x \in Split(CString(t)) :
              x.port # <<>> /\ IsNumber(x.port) /\ PortInRange(NumberOf(x.port))}}

----------------------------------------------------------------------------
(* php_quic_server_endpoint_connection_key: "%s|%ld".  An Address built by *)
(* its constructor may have any port.                                      *)

DecimalOf(n) ==
  LET d[m \in 0..n] == IF m < 10 THEN <<Digit[m + 1]>>
                       ELSE Append(d[m \div 10], Digit[(m % 10) + 1])
  IN d[n]

PortText(n) == IF n < 0 THEN <<"-">> \o DecimalOf(-n) ELSE DecimalOf(n)

(* Fault: nothing between the host and the port                            *)
ConnectionKey_NoSeparator(host, port) == CString(host) \o PortText(port)

ConnectionKey(host, port) == CString(host) \o <<"|">> \o PortText(port)
----------------------------------------------------------------------------
Has(t, ch) == StrChr(t, ch) # 0

(* fromString() accepts nothing but the two documented forms: what comes   *)
(* before the first NUL is host:port, or [host]:port, with the host and    *)
(* the port it returns, the port in its range and written with digits      *)
(* (after blanks and a sign at most).                                      *)
ParseSound ==
  \A t \in TextsUpTo(MaxText) : \A a \in ParseEndpoint(t) :
    LET v == CString(t) IN
    /\ a.host # <<>> /\ a.port \in 0..MaxPort
    /\ \E i \in DOMAIN v :
         /\ v[i] = ":" /\ IsNumber(From(v, i + 1)) /\ NumberOf(From(v, i + 1)) = a.port
         /\ \/ SubSeq(v, 1, i - 1) = a.host /\ v[1] # "[" /\ ~Has(a.host, ":")
            \/ SubSeq(v, 1, i - 1) = <<"[">> \o a.host \o <<"]">> /\ ~Has(a.host, "]")

(* The hosts a text can hold: the endpoint and the parser see no NUL        *)
HostsUpTo(n) == {t \in TextsUpTo(n) : ~Has(t, "NUL")}

(* An address that is printed in one of the two forms is read back as it   *)
(* was: host:port when the host has no colon, [host]:port for an IPv6 host. *)
RoundTrip ==
  \A host \in HostsUpTo(MaxHost) \ {<<>>}, port \in 0..MaxPort :
    LET a == {[host |-> host, port |-> port]} IN
      /\ ~Has(host, ":") /\ host[1] # "["
           => ParseEndpoint(host \o <<":">> \o PortText(port)) = a
      /\ ~Has(host, "]")
           => ParseEndpoint(<<"[">> \o host \o <<"]", ":">> \o PortText(port)) = a

(* Two peers never share a key, also when a host holds the separator: the  *)
(* endpoint would hand the datagrams of one to the connection of the other. *)
KeyInjective ==
  LET addresses == HostsUpTo(MaxPeer) \X {-10, -1, 0, 1, 10, 11, 100} IN
  \A a, b \in addresses :
    ConnectionKey(a[1], a[2]) = ConnectionKey(b[1], b[2]) => a = b
============================================================================
