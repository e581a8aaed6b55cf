---------------------------- MODULE MCAlgorithms -----------------------------
(* Inputs for the pure functions.                                              *)
EXTENDS Algorithms

Words(n, S) == UNION {[1..k -> S] : k \in 0..n}
\* Every array of up to five values, with all orders and all ties.
SmallArrays == Words(4, 0..3) \cup [1..5 -> 0..2]
\* Parts put together in every way, a query of up to three further separators.
UrlParts ==
  [scheme : {<<>>, <<"http", ":", "/", "/">>, <<"ftp", ":", "/", "/">>},
   hostname : {<<"a">>, <<"b">>}, port : {<<>>, <<":", "8080">>},
   query : {<<>>} \cup {<<"/">> \o q : q \in Words(4, {"/", ":", "x"})}]
SmallFormats == Words(2, {"c", "s", "l", "x"})
\* Around the limits of a char, a short, the sign of an int, and a long.
EdgeValues ==
  {Ulong("zeros", h, l) : h \in {0, 1, 32767, 32768, 65535}, l \in {0, 255, 256, 65535}}
    \cup {Ulong("ones", 65535, 65535), Ulong("other", 1, 2)}
Byte(b) == [k \in 1..8 |-> IF k \in b THEN 1 ELSE 0]
\* One byte of any bits; two and three; and the text both programs assert.
SmallMessages ==
  {<<Byte(b)>> : b \in SUBSET (1..8) \ {{}}}
    \cup [1..2 -> {Byte(b) : b \in {{8}, {1}, {1, 3, 6}, {4, 5}, 1..8, {2, 3, 7}}}]
    \cup [1..3 -> {Byte(b) : b \in {{8}, {1, 8}, {3, 4}}}]
    \cup {Digits01234}
SmallStrings == (Words(6, 1..2) \cup Words(5, 1..3)) \ {<<>>}

=============================================================================
