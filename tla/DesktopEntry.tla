---------------------------- MODULE DesktopEntry -----------------------------
(***************************************************************************)
(* The parser of session desktop files (session_catalog.rs): the keys of   *)
(* the [Desktop Entry] group, the escapes of values, and the splitting of  *)
(* an Exec value into an argument vector.  A value is a sequence of        *)
(* characters, a character a string of length one.  A file is a sequence   *)
(* of lines, told apart by what the parser does with them.                 *)
(***************************************************************************)
EXTENDS Naturals, Sequences, SequencesExt

GroupLine(name) == [kind |-> "group", key |-> name, value |-> <<>>]
FieldLine(key, value) == [kind |-> "field", key |-> key, value |-> value]

\* Comments, localized keys and lines without an equals sign.
IgnoredLine == [kind |-> "ignored", key |-> "", value |-> <<>>]

EntryGroup == "[Desktop Entry]"

\* str::to_owned of what an escaped character stands for.
Unescaped(char) ==
  CASE char = "s" -> " "
    [] char = "n" -> "\n"
    [] char = "t" -> "\t"
    [] char = "r" -> "\r"
    [] OTHER -> char

UnescapeStep(state, char) ==
  IF state.escaped THEN [out |-> Append(state.out, Unescaped(char)), escaped |-> FALSE]
  ELSE IF char = "\\" THEN [state EXCEPT !.escaped = TRUE]
  ELSE [state EXCEPT !.out = Append(@, char)]

UnescapeDesktopValue(value) ==
  LET end == FoldLeft(UnescapeStep, [out |-> <<>>, escaped |-> FALSE], value) IN
  IF end.escaped THEN Append(end.out, "\\") ELSE end.out

\* The last assignment to a key of the group wins.
ParseLine(state, line) ==
  IF line.kind = "group" THEN [state EXCEPT !.inside = (line.key = EntryGroup)]
  ELSE IF line.kind = "field" /\ state.inside
  THEN [state EXCEPT !.fields =
          [key \in DOMAIN @ \cup {line.key} |->
             IF key = line.key THEN UnescapeDesktopValue(line.value) ELSE @[key]]]
  ELSE state

ParseDesktopEntry(lines) ==
  FoldLeft(ParseLine, [inside |-> FALSE, fields |-> <<>>], lines).fields

-----------------------------------------------------------------------------
(* Exec.                                                                   *)

Whitespace == {" ", "\n", "\t", "\r"}
Quotes == {"'", "\""}
NoQuote == ""

\* (fault) an argument begins with its first character, so '' is none
TokenizeStepSkipsEmpty(state, char) ==
  IF state.escaped
  THEN [state EXCEPT !.token = Append(@, char), !.escaped = FALSE, !.started = TRUE]
  ELSE IF char = "\\" THEN [state EXCEPT !.escaped = TRUE]
  ELSE IF char = state.quote THEN [state EXCEPT !.quote = NoQuote]
  ELSE IF state.quote = NoQuote /\ char \in Quotes THEN [state EXCEPT !.quote = char]
  ELSE IF state.quote = NoQuote /\ char \in Whitespace
  THEN IF state.started
       THEN [state EXCEPT !.tokens = Append(@, state.token), !.token = <<>>, !.started = FALSE]
       ELSE state
  ELSE [state EXCEPT !.token = Append(@, char), !.started = TRUE]

\* One character of an Exec value.
TokenizeStep(state, char) ==
  LET starts == state.quote # NoQuote \/ char \notin Whitespace
      next == [state EXCEPT !.started = @ \/ starts]
  IN
  IF state.escaped
  THEN [state EXCEPT !.token = Append(@, char), !.escaped = FALSE]
  ELSE IF char = "\\" THEN [next EXCEPT !.escaped = TRUE]
  ELSE IF state.quote # NoQuote
  THEN IF char = state.quote THEN [next EXCEPT !.quote = NoQuote]
       ELSE [next EXCEPT !.token = Append(@, char)]
  ELSE IF char \in Quotes THEN [next EXCEPT !.quote = char]
  ELSE IF char \in Whitespace
  THEN IF state.started
       THEN [next EXCEPT !.tokens = Append(@, state.token), !.token = <<>>, !.started = FALSE]
       ELSE next
  ELSE [next EXCEPT !.token = Append(@, char)]

\* Whether the value is well formed, and its argument vector: an open quote or a
\* trailing escape is malformed.
TokenizeExec(value) ==
  LET start == [tokens |-> <<>>, token |-> <<>>, quote |-> NoQuote,
                escaped |-> FALSE, started |-> FALSE]
      end == FoldLeft(TokenizeStep, start, value)
  IN
  [ ok   |-> ~end.escaped /\ end.quote = NoQuote,
    argv |-> IF end.started THEN Append(end.tokens, end.token) ELSE end.tokens ]
=============================================================================
