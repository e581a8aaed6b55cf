------------------------------- MODULE Packet --------------------------------
(***************************************************************************)
(* net/packet: values packed into bytes by a format, and unpacked.  A      *)
(* value is a ulong of 64 bits, written as its two halves of 32 bits and   *)
(* those as two of 16: <<hi, lo>> with hi and lo in Half stand for         *)
(* the low half; ext is the upper half, "zeros", "ones" or "other".        *)
(***************************************************************************)
EXTENDS Integers, Sequences

Half == {h \in Nat : h < 65536}
Ulong(ext, hi, lo) == [ext |-> ext, hi |-> hi, lo |-> lo]
High(h) == h \div 256
Low(h) == h % 256

\* What each letter of the format takes of a value; s and c are converted to int by
\* the call.
PackOne(f, v) ==
  CASE f = "c" -> <<Low(v.lo)>>
    [] f = "s" -> <<High(v.lo), Low(v.lo)>>
    [] f = "l" -> <<High(v.hi), Low(v.hi), High(v.lo), Low(v.lo)>>
Width(f) == CASE f = "c" -> 1 [] f = "s" -> 2 [] f = "l" -> 4

\* *pbuf++<<24 is an int: from 128 on it is negative, and fills the upper half with
\* ones when it becomes a ulong.
\* Slip: the second and third byte change places.
UnpackOne_Swapped(f, b) ==
  CASE f = "c" -> Ulong("zeros", 0, b[1])
    [] f = "s" -> Ulong("zeros", 0, b[1] * 256 + b[2])
    [] f = "l" -> Ulong(IF b[1] >= 128 THEN "ones" ELSE "zeros",
                        b[1] * 256 + b[3], b[2] * 256 + b[4])
UnpackOne(f, b) ==
  CASE f = "c" -> Ulong("zeros", 0, b[1])
    [] f = "s" -> Ulong("zeros", 0, b[1] * 256 + b[2])
    [] f = "l" -> Ulong(IF b[1] >= 128 THEN "ones" ELSE "zeros",
                        b[1] * 256 + b[2], b[3] * 256 + b[4])

FmtLetters == {"c", "s", "l"}

\* What is in the buffer after each letter, and what is returned if the format ends
\* there: -1 from the first letter that is none.
pack(fmt, vals) ==
  LET after[i \in 0..Len(fmt)] ==
        IF i = 0 THEN [bytes |-> <<>>, n |-> 0]
        ELSE IF after[i - 1].n = -1 \/ fmt[i] \notin FmtLetters
             THEN [bytes |-> after[i - 1].bytes, n |-> -1]
        ELSE [bytes |-> after[i - 1].bytes \o PackOne(fmt[i], vals[i]),
              n |-> after[i - 1].n + Width(fmt[i])]
  IN  after[Len(fmt)]
unpack(fmt, bytes) ==
  LET after[i \in 0..Len(fmt)] ==
        IF i = 0 THEN [vals |-> <<>>, n |-> 0]
        ELSE IF after[i - 1].n = -1 \/ fmt[i] \notin FmtLetters
             THEN [vals |-> after[i - 1].vals, n |-> -1]
        ELSE LET n == after[i - 1].n
             IN  [vals |-> Append(after[i - 1].vals,
                                  UnpackOne(fmt[i], SubSeq(bytes, n + 1, n + Width(fmt[i])))),
                  n |-> n + Width(fmt[i])]
  IN  after[Len(fmt)]
=============================================================================
