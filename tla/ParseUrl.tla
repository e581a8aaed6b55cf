------------------------------ MODULE ParseUrl -------------------------------
(***************************************************************************)
(* parse_url of net/fetch and thread/fetchall.  A url is the sequence of   *)
(* its separators ":" and "/" and the names between them.  An empty        *)
(* hostname stands for hostname[0]='\0', an empty query for NULL.          *)
(***************************************************************************)
EXTENDS Integers, Sequences

DefaultPort == <<"80">>

From(s, i) == SubSeq(s, i, Len(s))
Has(s, x) == \E i \in 1..Len(s) : s[i] = x
\* Where x comes first in s, or one past the end.
First(s, x) ==
  CHOOSE i \in 1..Len(s) + 1 :
    /\ i <= Len(s) => s[i] = x
    /\ \A j \in 1..i - 1 : s[j] # x

Parts(hostname, port, query) == [hostname |-> hostname, port |-> port, query |-> query]

\* "://" may be anywhere, also in the query.
HasScheme(url) == \E i \in 1..Len(url) - 2 : SubSeq(url, i, i + 2) = <<":", "/", "/">>
IsHttp(url) == Len(url) >= 4 /\ SubSeq(url, 1, 4) = <<"http", ":", "/", "/">>

\* The first ":" is taken for the port's, wherever it is.  With nothing between it
\* and the next "/" the query begins at the ":".
WithPort(url) ==
  LET colon == First(url, ":")
      after == From(url, colon + 1)
      slash == First(after, "/")
      host == SubSeq(url, 1, colon - 1)
  IN  IF slash = 1 THEN Parts(host, DefaultPort, From(url, colon))
      ELSE Parts(host, SubSeq(after, 1, slash - 1), From(after, slash))

WithoutPort(url) ==
  IF ~Has(url, "/") THEN Parts(<<"0">>, <<>>, <<>>)
  ELSE Parts(SubSeq(url, 1, First(url, "/") - 1), DefaultPort, From(url, First(url, "/")))

\* Slip: the scheme's ":" is not skipped.
parse_url_KeepsScheme(url) ==
  IF HasScheme(url) /\ ~IsHttp(url) THEN Parts(<<>>, <<>>, <<>>)
  ELSE IF Has(url, ":") THEN WithPort(url) ELSE WithoutPort(url)
parse_url(url) ==
  LET rest == IF HasScheme(url) THEN From(url, 5) ELSE url
  IN  IF HasScheme(url) /\ ~IsHttp(url) THEN Parts(<<>>, <<>>, <<>>)
      ELSE IF Has(rest, ":") THEN WithPort(rest) ELSE WithoutPort(rest)
=============================================================================
