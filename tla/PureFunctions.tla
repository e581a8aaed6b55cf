---------------------------- MODULE PureFunctions -----------------------------
(***************************************************************************)
(* Functions of the repository that keep nothing.  A call is made of one   *)
(* of them and its result is compared with what the function is for.       *)
(***************************************************************************)
EXTENDS ParseUrl, Packet, Crc, ComSubstr

CONSTANTS
  Addresses,  \* urls, as records of their parts
  Formats,    \* formats of packets
  Ulongs,     \* values packed
  Messages,   \* strings of bytes
  Strings     \* strings of characters

\* The parts of a url; what is not a separator is a name.
ASSUME AddressesAssumption == \A a \in Addresses :
  /\ a.scheme = <<>> \/ /\ Len(a.scheme) = 4 /\ Tail(a.scheme) = <<":", "/", "/">>
                        /\ a.scheme[1] \notin {":", "/"} /\ a.scheme \in Seq(STRING)
  /\ a.hostname \in Seq(STRING) /\ ~Has(a.hostname, ":") /\ ~Has(a.hostname, "/")
  /\ a.port = <<>> \/ /\ Len(a.port) = 2 /\ a.port[1] = ":" /\ a.port \in Seq(STRING)
                      /\ a.port[2] \notin {":", "/"}
  /\ a.query = <<>> \/ /\ a.query \in Seq(STRING) /\ a.query[1] = "/"
ASSUME UlongsAssumption ==
  /\ Formats \subseteq Seq(STRING)
  /\ Ulongs \subseteq [ext : {"zeros", "ones", "other"}, hi : Half, lo : Half]
\* The strings are not empty (an empty one makes crc8 and maxcomsubstr read past it).
ASSUME StringsAssumption ==
  /\ Strings \subseteq Seq(Int) /\ \A s \in Strings : Len(s) > 0
  /\ Messages \subseteq Seq([1..8 -> {0, 1}])
  /\ \A m \in Messages : Len(m) > 0 /\ \A i \in DOMAIN m : m[i] # Zeros(8)

VARIABLES call, answered, reply

callVars == <<call, answered, reply>>

NoCall == [f |-> "none"]
Url(a) == a.scheme \o a.hostname \o a.port \o a.query

MakesCall ==
  \/ \E a \in Addresses : call = [f |-> "parse_url", url |-> a]
  \/ \E fmt \in Formats : \E vals \in [1..Len(fmt) -> Ulongs] :
       call = [f |-> "packet", fmt |-> fmt, vals |-> vals]
  \/ \E m \in Messages : call = [f |-> "crc8", ctx |-> m]
  \/ \E s \in Strings : call = [f |-> "maxcomsubstr", str |-> s]
PureInit == MakesCall /\ answered = FALSE /\ reply = NoCall

Called(f) == call.f = f /\ ~answered /\ answered' = TRUE /\ UNCHANGED call

CallParseUrl == Called("parse_url") /\ reply' = parse_url(Url(call.url))
CallPacket ==
  /\ Called("packet")
  /\ LET packed == pack(call.fmt, call.vals)
     IN  reply' = [packed |-> packed, back |-> unpack(call.fmt, packed.bytes)]
CallCrc8 == Called("crc8") /\ reply' = <<crc8_1(call.ctx), crc8_2(call.ctx)>>
CallComSubstr == Called("maxcomsubstr") /\ reply' = maxcomsubstr(call.str)

PureNext == CallParseUrl \/ CallPacket \/ CallCrc8 \/ CallComSubstr

------------------------------------------------------------------------------
(* Properties.                                                              *)

Returned(f) == call.f = f /\ answered

\* A url taken apart gives the parts it was made of, with 80 for a port that is not
\* there, and without a "/" at the end too, as in the last example of fetch.c:34; a
\* scheme other than http is refused, and a url without a query gives none, and "0" for
\* the host if there is no port either (fetch.c:37-73).  With a port the host is left
\* standing, where fetch.c:29 has "0" for it.  But a ":" in the query is taken for the
\* port's if there is none, and "://" in it for the scheme's.
TakenApart(u, r) ==
  IF u.scheme # <<>> /\ u.scheme[1] # "http" THEN r.hostname = <<>> /\ r.query = <<>>
  ELSE IF u.query = <<>>
       THEN r.query = <<>> /\ (u.port = <<>> => r.hostname = <<"0">>)
  ELSE (/\ Has(u.query, ":") => u.port # <<>>
        /\ HasScheme(u.query) => u.scheme # <<>>) =>
       /\ r.hostname = u.hostname /\ r.query = u.query
       /\ r.port = IF u.port = <<>> THEN DefaultPort ELSE Tail(u.port)
UrlParsed == Returned("parse_url") => TakenApart(call.url, reply)

\* What is unpacked is what was packed, with the same number of bytes used, those
\* the letters ask for: exactly, if it is in the range of its letter, and otherwise cut
\* to its width.  This is said of a long only if its 32nd bit is clear: see
\* UnpackReverses for the others.  A letter that is none ends both with -1
\* (packet.c:13-92).
Cut(f, v) ==
  CASE f = "c" -> Ulong("zeros", 0, v.lo % 256)
    [] f = "s" -> Ulong("zeros", 0, v.lo)
    [] f = "l" -> Ulong("zeros", v.hi, v.lo)
Count(fmt, f) == Cardinality({i \in DOMAIN fmt : fmt[i] = f})
RoundTrip(fmt, vals, r) ==
  LET bad == {i \in DOMAIN fmt : fmt[i] \notin FmtLetters}
      upto == IF bad = {} THEN Len(fmt) ELSE Min(bad) - 1
  IN  /\ r.packed.n = r.back.n
      /\ bad # {} => r.packed.n = -1
      /\ bad = {} =>
           /\ r.packed.n = Len(r.packed.bytes)
           /\ r.packed.n = Count(fmt, "c") + 2 * Count(fmt, "s") + 4 * Count(fmt, "l")
      /\ Len(r.back.vals) = upto
      /\ \A i \in 1..upto :
           (fmt[i] = "l" => vals[i].hi < 32768) => r.back.vals[i] = Cut(fmt[i], vals[i])
PacketRoundTrip == Returned("packet") => RoundTrip(call.fmt, call.vals, reply)

\* unpack gives back what pack was given, whenever each value fits its letter: a byte for
\* an unsigned char, two for an unsigned short, four for an unsigned long
\* (packet.c:5-12, 46-58).  But `*pbuf++<<24' is an int (packet.c:80).
FitsLetter(f, v) == v = Cut(f, v)
UnpackReverses ==
  (Returned("packet") /\ \A i \in DOMAIN call.fmt :
      call.fmt[i] \in FmtLetters /\ FitsLetter(call.fmt[i], call.vals[i])) =>
    reply.back.vals = call.vals

\* Both programs compute the same checksum, 0x7a for "01234" as they assert, and
\* messages that differ in one bit have different ones (crc8-1.c:17-43,
\* crc8-2.c:20-53).
Flip(m, i, k) == [m EXCEPT ![i][k] = 1 - @]
Digits01234 == [i \in 1..5 |-> <<0, 0, 1, 1, 0>> \o
  (<<<<0, 0, 0>>, <<0, 0, 1>>, <<0, 1, 0>>, <<0, 1, 1>>, <<1, 0, 0>>>>)[i]]
AgreesAndDetects(m, r) ==
  /\ r[1] = r[2]
  /\ m = Digits01234 => r[2] = <<0, 1, 1, 1, 1, 0, 1, 0>>
  /\ \A i \in DOMAIN m, k \in 1..8 :
       Flip(m, i, k)[i] # Zeros(8) => crc8_2(Flip(m, i, k)) # r[2]
CrcAgreesAndDetects == Returned("crc8") => AgreesAndDetects(call.ctx, reply)

\* The result is in the string at two places, which may overlap, and nothing longer
\* is: looking at neighbours of the sorted suffixes is enough
\* (maxcomsubstr.c:31-41).
Twice(s, sub) ==
  \E i, j \in 1..Len(s) - Len(sub) + 1 :
    /\ i # j
    /\ SubSeq(s, i, i + Len(sub) - 1) = sub /\ SubSeq(s, j, j + Len(sub) - 1) = sub
Longest(str, r) ==
  /\ r = <<>> \/ Twice(str, r)
  /\ \A i \in DOMAIN str :
       LET longer == SubSeq(str, i, i + Len(r))
       IN  i + Len(r) <= Len(str) => ~Twice(str, longer)
LongestRepeat == Returned("maxcomsubstr") => Longest(call.str, reply)
=============================================================================
