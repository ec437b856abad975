----------------------------- MODULE ParseArgs ------------------------------
(***************************************************************************)
(* parse_args() of lib/CT_cmdstream.js: how the operands of a command line *)
(* are told apart.  A text is a sequence of characters, of which only the  *)
(* quote and the blank matter to the scanner; all is a word that matters   *)
(* to a validator, taken as one character.  The blank stands for the space *)
(* and the tab, at which both ways of splitting cut.  Other white space is *)
(* left out: \s+ cuts there too in a text without a quote, but the loop,   *)
(* in a text with one, takes it for a part of the argument.                *)
(***************************************************************************)
EXTENDS Naturals, FiniteSets, SequencesExt

Char == {"x", "all", " ", "'"}

Unquoted(str) == FlattenSeq([i \in DOMAIN str |-> IF str[i] = "'" THEN <<>> ELSE <<str[i]>>])

(* The maximal runs of positions outside seps, in order: those that begin  *)
(* at 1, at 2 and so on.                                                   *)
Within(str, seps) == DOMAIN str \ seps
EndOf(in, i) == CHOOSE j \in in : j >= i /\ j + 1 \notin in /\ i .. j \subseteq in
PieceAt(str, in, i) ==
  IF i \in in /\ i - 1 \notin in THEN <<SubSeq(str, i, EndOf(in, i))>> ELSE <<>>
Pieces(str, seps) ==
  FlattenSeq([i \in DOMAIN str |-> PieceAt(str, Within(str, seps), i)])

(* str.split(/\s+/), for a text that neither begins nor ends with a blank. *)
Split(str) == Pieces(str, {i \in DOMAIN str : str[i] = " "})

(* The loop, when there is a quote: what it keeps is the start of the      *)
(* argument it is in, whether it is in quotes, and the arguments so far.   *)
ScanAlways(s, str, i) ==  \* mutant: a blank in quotes separates too
  IF str[i] = "'" THEN [s EXCEPT !.in_quote = ~@]
  ELSE IF str[i] = " "
  THEN [s EXCEPT !.start = i + 1,
                 !.args = IF i > s.start
                          THEN Append(@, Unquoted(SubSeq(str, s.start, i - 1))) ELSE @]
  ELSE s
Scan(s, str, i) ==
  IF s.in_quote THEN [s EXCEPT !.in_quote = str[i] # "'"]
  ELSE IF str[i] = "'" THEN [s EXCEPT !.in_quote = TRUE]
  ELSE IF str[i] = " "
  THEN [s EXCEPT !.start = i + 1,
                 !.args = IF i > s.start
                          THEN Append(@, Unquoted(SubSeq(str, s.start, i - 1))) ELSE @]
  ELSE s

Scanned(str) ==
  FoldLeftDomain(LAMBDA s, i : Scan(s, str, i),
                 [start |-> 1, in_quote |-> FALSE, args |-> <<>>], str)

Failed == [err |-> TRUE, args |-> <<>>]

parse_args(str) ==
  IF "'" \notin ToSet(str) THEN [err |-> FALSE, args |-> Split(str)]
  ELSE LET s == Scanned(str)
           rest == SubSeq(str, s.start, Len(str))
       IN IF s.in_quote THEN Failed
          ELSE [err |-> FALSE,
                args |-> IF rest = <<>> THEN s.args ELSE Append(s.args, Unquoted(rest))]

-----------------------------------------------------------------------------
(* What it should compute ("break a possibly-quoted string into multiple   *)
(* arguments, similarly to how a shell would"): a blank separates if the   *)
(* quotes before it are balanced, and quotes are not part of an argument.  *)

QuotesBefore(str, i) == Cardinality({j \in DOMAIN str : j < i /\ str[j] = "'"})

Separators(str) == {i \in DOMAIN str : str[i] = " " /\ QuotesBefore(str, i) % 2 = 0}

Reference(str) ==
  LET pieces == Pieces(str, Separators(str))
  IN IF QuotesBefore(str, Len(str) + 1) % 2 = 1 THEN Failed
     ELSE [err |-> FALSE, args |-> [k \in DOMAIN pieces |-> Unquoted(pieces[k])]]
=============================================================================
