------------------------------ MODULE Highlight ------------------------------
(***************************************************************************)
(* graphic/highlight: prints a C source with colours.  highlight() looks   *)
(* at one character and calls the function for what begins there, which    *)
(* reads on to its end; a character read too far is pushed back.  A text   *)
(* is a sequence of characters, a run of letters being one of them; every  *)
(* step reads at most one.                                                 *)
(***************************************************************************)
EXTENDS Integers, Sequences

CONSTANT Texts   \* the files that are read

\* The characters, by what the program tells apart.  "inc" is a run of letters that
\* "include" begins with; "int" is one that occurs in keywords[]; "@" a byte that is
\* none of space, punctuation, letter and digit: a control or a non-ASCII character.
Spaces == {" ", "\n"}
Letters == {"include", "inc", "int", "x"}
InWord == Letters \cup {"9", "_"}
Puncts == {"#", "'", "\"", "/", "*", "\\", "<", ">", "(", "_"}
Chars == Spaces \cup InWord \cup Puncts \cup {"@"}

RunsApart(s) == \A k \in 1..Len(s) - 1 : ~(s[k] \in Letters /\ s[k + 1] \in Letters)
ASSUME TextsAssumption == Texts \subseteq Seq(Chars) /\ \A s \in Texts : RunsApart(s)

VARIABLES
  text,       \* what istream holds
  read,       \* characters of it read and not pushed back
  out,        \* what was printed, each character with the colour it has
  colour,     \* the colour turned on, or "off"
  mode,       \* the function that runs, or what it has just read
  isheader,
  wbuf        \* of word()

highlightVars == <<text, read, out, colour, mode, isheader, wbuf>>

AtEnd == read = Len(text)
c == text[read + 1]   \* what fgetc returns next
Sees(S) == ~AtEnd /\ c \in S

Enter(m, col) == mode' = m /\ colour' = col
\* The character is printed in colour col.
Echo(col) == read' = read + 1 /\ out' = Append(out, <<c, col>>)
Peek == UNCHANGED <<read, out>>   \* read and pushed back
Return == Enter("highlight", "off")

\* Every function ends the program at the end of the file.
close_app(modes) ==
  /\ mode \in modes /\ AtEnd
  /\ Enter("done", "off")
  /\ UNCHANGED <<text, read, out, isheader, wbuf>>

------------------------------------------------------------------------------
\* What begins at c; the opening character is printed by the function called.
highlight ==
  /\ mode = "highlight" /\ ~AtEnd
  /\ \/ c = "#" /\ Enter("macro_space", "MACRO") /\ Echo("MACRO") /\ UNCHANGED isheader
     \/ c = "'" /\ Enter("character", "CHAR") /\ Echo("CHAR") /\ UNCHANGED isheader
     \/ c = "<" /\ isheader /\ Enter("header", "HEADER") /\ Echo("HEADER")
        /\ UNCHANGED isheader
     \/ c = "/" /\ Enter("comment", "COMMENT") /\ Echo("COMMENT") /\ UNCHANGED isheader
     \/ c = "\"" /\ LET col == IF isheader THEN "HEADER" ELSE "STRING"
                    IN  Enter("string", col) /\ Echo(col) /\ isheader' = FALSE
     \/ c \in Spaces /\ Enter("space", "off") /\ Peek /\ UNCHANGED isheader
     \/ /\ c \in Puncts \ {"#", "'", "/", "\""} /\ ~(c = "<" /\ isheader)
        /\ Enter("punct", "PUNCT") /\ Peek /\ UNCHANGED isheader
     \/ c \in (InWord \ Puncts) \cup {"@"} /\ Enter("word", "off") /\ Peek /\ UNCHANGED isheader
  /\ UNCHANGED <<text, wbuf>>

\* Called by highlight and, in the macro's colour, by macro.
space ==
  /\ mode \in {"space", "macro_space"} /\ ~AtEnd
  /\ \/ c \in Spaces /\ Echo(colour) /\ UNCHANGED <<mode, colour, isheader>>
     \/ c \notin Spaces /\ mode = "space" /\ Return /\ Peek /\ UNCHANGED isheader
     \/ c \notin Spaces /\ mode = "macro_space" /\ Enter("macro", colour) /\ Peek
        /\ isheader' = TRUE
  /\ UNCHANGED <<text, wbuf>>

punct ==
  /\ mode = "punct" /\ ~AtEnd
  /\ IF c \in Puncts \ {"#", "'", "\"", "/"} THEN Echo(colour) /\ UNCHANGED <<mode, colour>>
                                             ELSE Return /\ Peek
  /\ UNCHANGED <<text, isheader, wbuf>>

\* The directive's name: isheader stays set as long as it is one with "include".
macro ==
  /\ mode = "macro" /\ ~AtEnd
  /\ IF c \in Letters
     THEN Echo(colour) /\ isheader' = (c \in {"include", "inc"}) /\ UNCHANGED <<mode, colour>>
     ELSE Return /\ Peek /\ UNCHANGED isheader
  /\ UNCHANGED <<text, wbuf>>

\* character and string: up to the quote, the character after a backslash unseen.
Quote(m) == IF m = "character" THEN "'" ELSE "\""
quoted(m, escaped) ==
  /\ ~AtEnd
  /\ \/ mode = escaped /\ Echo(colour) /\ Enter(m, colour)
     \/ mode = m /\ Echo(colour)
        /\ IF c = Quote(m) THEN Return
           ELSE Enter(IF c = "\\" THEN escaped ELSE m, colour)
  /\ UNCHANGED <<text, isheader, wbuf>>
character == quoted("character", "char_escaped")
string == quoted("string", "string_escaped")

header ==
  /\ mode = "header" /\ ~AtEnd /\ Echo(colour)
  /\ IF c = ">" THEN Return /\ isheader' = FALSE ELSE UNCHANGED <<mode, colour, isheader>>
  /\ UNCHANGED <<text, wbuf>>

\* What is not a comment is left to word, which is where a division ends up; the
\* colour stays on while word reads.
comment ==
  /\ mode = "comment" /\ ~AtEnd
  /\ \/ c = "/" /\ Echo(colour) /\ Enter("line", colour)
     \/ c = "*" /\ Echo(colour) /\ Enter("block", colour)
     \/ c \notin {"/", "*"} /\ Peek /\ Enter("word", colour)
  /\ UNCHANGED <<text, isheader, wbuf>>
LineComment ==
  /\ mode = "line" /\ ~AtEnd /\ Echo(colour)
  /\ IF c = "\n" THEN Return ELSE UNCHANGED <<mode, colour>>
  /\ UNCHANGED <<text, isheader, wbuf>>
\* Slip: the "*" of the opening closes too.
BlockComment_Early ==
  /\ mode = "block" /\ ~AtEnd /\ Echo(colour)
  /\ IF c = "/" THEN Return ELSE Enter(IF c = "*" THEN "star" ELSE "block", colour)
  /\ UNCHANGED <<text, isheader, wbuf>>
BlockComment ==
  /\ mode = "block" /\ ~AtEnd /\ Echo(colour)
  /\ Enter(IF c = "*" THEN "star" ELSE "block", colour)
  /\ UNCHANGED <<text, isheader, wbuf>>
\* The character after a "*" is not looked at again when it is not "/".
Star ==
  /\ mode = "star" /\ ~AtEnd /\ Echo(colour)
  /\ IF c = "/" THEN Return ELSE Enter("block", colour)
  /\ UNCHANGED <<text, isheader, wbuf>>

\* The colour of a word.  Anything longer than a letter that occurs in keywords[]
\* is one.
WordColour ==
  IF wbuf = <<"int">> THEN "KEYWORD" ELSE IF Sees({"("}) THEN "FUNC" ELSE "VARIANT"
word ==
  /\ mode = "word"
  /\ IF Sees(InWord)
     THEN read' = read + 1 /\ wbuf' = Append(wbuf, c) /\ UNCHANGED <<out, mode, colour>>
     ELSE /\ out' = out \o [k \in 1..Len(wbuf) |-> <<wbuf[k], WordColour>>]
          /\ wbuf' = <<>> /\ UNCHANGED read
          /\ IF AtEnd THEN Enter("done", "off") ELSE Return
  /\ UNCHANGED <<text, isheader>>

------------------------------------------------------------------------------
Modes ==
  {"highlight", "space", "macro_space", "punct", "macro", "character", "char_escaped",
   "string", "string_escaped", "header", "comment", "line", "block", "star"}

HighlightInit ==
  /\ text \in Texts /\ read = 0 /\ out = <<>> /\ colour = "off"
  /\ mode = "highlight" /\ isheader = FALSE /\ wbuf = <<>>
HighlightNext ==
  \/ highlight \/ space \/ punct \/ macro \/ character \/ string \/ header
  \/ comment \/ LineComment \/ BlockComment \/ Star \/ word
  \/ close_app(Modes)
HighlightSpec == HighlightInit /\ [][HighlightNext]_highlightVars

------------------------------------------------------------------------------
(* Properties.                                                              *)

Colours == {"off", "MACRO", "PUNCT", "CHAR", "STRING", "HEADER", "COMMENT"}
Coloured == Chars \X (Colours \cup {"KEYWORD", "FUNC", "VARIANT"})
HighlightTypeOK ==
  /\ text \in Texts /\ read \in 0..Len(text)
  /\ out \in Seq(Coloured)
  /\ colour \in Colours
  /\ mode \in Modes \cup {"word", "done"}
  /\ isheader \in BOOLEAN /\ wbuf \in Seq(InWord)

\* The program prints the file it reads, whatever it takes its parts for and however
\* often it pushes a character back: nothing is lost, repeated or out of order, at
\* the end of the file either (c.c:67-290).  What is printed is what was read, but for
\* the word in wbuf.
KeepsText ==
  /\ \A k \in DOMAIN out : out[k][1] = text[k]
  /\ Len(out) + Len(wbuf) = read
  /\ mode = "done" => Len(out) = Len(text)
\* Between two parts of the text, and at its end, no colour is left on.
ColourOff == mode \in {"highlight", "space", "done"} => colour = "off"

\* Where the comment that begins at k ends: at the first "*/" after its "/*".
Ends(k) == {j \in k + 3..Len(text) : text[j - 1] = "*" /\ text[j] = "/"}
\* A comment is coloured up to its first "*/" and no further (c.c:202-218), in a text
\* without "**".  The character after a "*" is not looked at again, so that the
\* "**/" of a text with it can be missed.
CommentsEnd ==
  (mode = "done" /\ \A k \in 1..Len(text) - 1 : ~(text[k] = "*" /\ text[k + 1] = "*")) =>
    \A k \in 1..Len(text) - 1, j \in 1..Len(text) :
      (/\ out[k] = <<"/", "COMMENT">> /\ text[k + 1] = "*"
       /\ k > 1 => out[k - 1][2] # "COMMENT"
       /\ j \in Ends(k) /\ \A i \in Ends(k) : j <= i) =>
        /\ \A i \in k..j : out[i][2] = "COMMENT"
        /\ j < Len(text) /\ out[j + 1][2] = "COMMENT" => text[j + 1] = "/"
\* What the program prints is its input, coloured part by part.
Highlighted == KeepsText /\ ColourOff /\ CommentsEnd
=============================================================================
