------------------------------ MODULE ParcelText ------------------------------
(***************************************************************************)
(* The text in which the arguments of a request travel: built by           *)
(* ParcelString and IntentString of dtu/src/app_server from the words of a *)
(* command line, or by the copy of them in dtu-py from Python's values,    *)
(* and read by ParcelString.kt on the device.                              *)
(*                                                                         *)
(* A word and a text are sequences of characters, in which the name of a   *)
(* type, a prefix of four letters, "true" and "false" are one character    *)
(* each.  A value is [kind, head, of]: of holds the characters of a string *)
(* or a path, the digits of a number or a byte array, the values of a list *)
(* or a combination, the pairs of a map or a bundle; head the numbers of a *)
(* message, whose bundle of has.  Maps are written in the order in which   *)
(* they happen to be; numbers are in the range of their type.              *)
(***************************************************************************)
EXTENDS Naturals, Sequences, TLC, SequencesExt

CONSTANT Foreign \* characters that are not ASCII

Decimals == <<"0", "1", "2", "3", "4", "5", "6", "7", "8", "9">>
Digit == [c \in ToSet(Decimals) |-> CHOOSE n \in 0 .. 9 : Decimals[n + 1] = c]

Value(kind, of) == [kind |-> kind, head |-> <<>>, of |-> of]
Bad == Value("error", <<>>)

Numbers == {"int", "long", "short", "bool", "float", "double", "barr"}
Texts == {"str", "rfd", "wfd"}
Marks == {"binder", "null"}

(* The prefixes that are written; the device reads the last one otherwise. *)
Prefix ==
  [int |-> "_INT", long |-> "LONG", short |-> "SHRT", bool |-> "BOOL", float |-> "_FLT",
   double |-> "DUBL", barr |-> "BARR", byte |-> "BYTE", str |-> "_STR", rfd |-> "RDFD",
   wfd |-> "WRFD", binder |-> "BIND", null |-> "NULL", bundle |-> "BUND", map |-> "_MAP",
   msg |-> "_MSG", comb |-> "_CMB", list |-> "_LST"]
ReadPrefix == [Prefix EXCEPT !.list = "LIST"]

-------------------------------------------------------------------------------
(* The command line: parse_single and its like.  What they make of words   *)
(* is a value, the end of what they read, or an error, and the words left. *)

Named ==
  [str |-> "str", f64 |-> "double", f32 |-> "float", i64 |-> "long", i32 |-> "int",
   i16 |-> "short", u8 |-> "byte", z |-> "bool", wfd |-> "wfd", rfd |-> "rfd", barr |-> "barr"]

Made(is, value, rest) == [is |-> is, value |-> value, rest |-> rest]
Wrong == Made("error", Bad, <<>>)

Number(word) == word # <<>> /\ ToSet(word) \subseteq ToSet(Decimals) \cup {"-"}

(* Whether a word is a value of a kind.                                    *)
Fits(kind, word) ==
  CASE kind \in Texts -> TRUE
    [] kind = "bool" -> word \in {<<"true">>, <<"false">>}
    [] kind = "barr" -> Len(word) % 2 = 0 /\ (word = <<>> \/ Number(word))
    [] kind = "byte" -> Number(word) /\ "-" \notin ToSet(word)
    [] OTHER -> Number(word)

RECURSIVE ParseSingle(_), ParseMany(_, _)
ParseSingle(words) ==
  LET name == Head(words)
      rest == Tail(words)
      many(kind, head, left) ==
        LET all == ParseMany(kind, left)
        IN IF all.is = "error" THEN Wrong
           ELSE Made("value", [kind |-> kind, head |-> head, of |-> all.value], all.rest)
  IN CASE words = <<>> -> Made("end", Bad, <<>>)
       [] words # <<>> /\ name = <<"end">> -> Made("end", Bad, rest)
       [] words # <<>> /\ name = <<"bind">> -> Made("value", Value("binder", <<>>), rest)
       [] words # <<>> /\ name = <<"null">> -> Made("value", Value("null", <<>>), rest)
       [] words # <<>> /\ name = <<"list">> -> many("list", <<>>, rest)
       [] words # <<>> /\ name = <<"map">> -> many("map", <<>>, rest)
       [] words # <<>> /\ name = <<"bund">> -> many("bundle", <<>>, rest)
       [] words # <<>> /\ name = <<"msg">> ->
            IF Len(rest) < 4 \/ \E i \in 1 .. 3 : ~Number(rest[i]) THEN Wrong
            ELSE LET head == SubSeq(rest, 1, 3)
                     left == SubSeq(rest, 5, Len(rest))
                 IN CASE rest[4] = <<"end">> ->
                           Made("value", [kind |-> "msg", head |-> head, of |-> <<>>], left)
                      [] rest[4] = <<"bund">> ->
                           LET all == ParseMany("bundle", left)
                           IN IF all.is = "error" THEN Wrong
                              ELSE Made("value", [kind |-> "msg", head |-> head, of |-> all.value], all.rest)
                      [] OTHER -> Wrong
       [] words # <<>> /\ Len(name) = 1 /\ name[1] \in DOMAIN Named ->
            IF rest = <<>> \/ ~Fits(Named[name[1]], Head(rest)) THEN Wrong
            ELSE Made("value", Value(Named[name[1]], Head(rest)), Tail(rest))
       [] OTHER -> Wrong

(* A key of a bundle, or of an intent, where "end" is a key like another.  *)
ParseKey(kind, words) ==
  CASE words = <<>> -> IF kind = "intent" THEN Made("end", Bad, <<>>) ELSE Wrong
    [] words # <<>> /\ kind = "bundle" /\ Head(words) = <<"end">> -> Made("end", Bad, Tail(words))
    [] OTHER -> Made("value", Head(words), Tail(words))

ParseMany(kind, words) ==
  LET keyed == kind \in {"bundle", "intent"}
      first == IF keyed THEN ParseKey(kind, words) ELSE ParseSingle(words)
      last == IF kind = "list" THEN first ELSE ParseSingle(first.rest)
      item == IF kind = "list" THEN first.value ELSE <<first.value, last.value>>
      later == ParseMany(kind, last.rest)
  IN CASE first.is = "error" -> Wrong
       [] first.is = "end" -> Made("value", <<>>, first.rest)
       [] first.is = "value" ->
            IF last.is # "value" \/ later.is = "error" THEN Wrong
            ELSE Made("value", <<item>> \o later.value, later.rest)

(* parse_parcel_string and parse_intent_string.  The former stops at an    *)
(* "end" that ends nothing, and leaves what follows.                       *)
ParseWords(form, words) == ParseMany(IF form = "parcel" THEN "list" ELSE "intent", words)

-------------------------------------------------------------------------------
(* Writing.                                                                *)

Separators == {"=", ",", ":", "|", ">", "%"}

(* Fault: the escapes Rust adds are not added.                             *)
EscapeSeparators(chars, by) ==
  FlattenSeq([i \in DOMAIN chars |->
    IF chars[i] \in Separators THEN <<"\\", chars[i]>> ELSE <<chars[i]>>])

(* escape_string: Rust's escape_default, and then the separators; Python's *)
(* values have no messages, and no escape for their separator.             *)
Escape(chars, by) ==
  LET escape(c) ==
        IF c \in {"\\", "'", "\""} \cup (Separators \ (IF by = "python" THEN {"%"} ELSE {}))
        THEN <<"\\", c>>
        ELSE IF c = "\n" THEN <<"\\", "n">>
        ELSE IF c \in Foreign THEN <<"\\", "u", "{", c, "}">>
        ELSE <<c>>
  IN FlattenSeq([i \in DOMAIN chars |-> escape(chars[i])])

Joined(texts, separator) ==
  FlattenSeq([i \in DOMAIN texts |-> IF i = 1 THEN texts[1] ELSE <<separator>> \o texts[i]])

(* A message that is given an empty bundle is written like one without a   *)
(* bundle here.  The code ends it with one more %, behind which the reader *)
(* finds nothing; a build that checks overflow panics there, at len() - 1. *)
RECURSIVE Encode(_, _)
Encode(v, by) ==
  LET each(text(_), separator) == Joined([i \in DOMAIN v.of |-> text(v.of[i])], separator)
      value(w) == Encode(w, by)
      entry(e) == Escape(e[1], by) \o <<"=">> \o value(e[2])
  IN <<Prefix[v.kind]>> \o
     CASE v.kind \in Texts -> Escape(v.of, by)
       [] v.kind = "list" -> each(value, ":")
       [] v.kind = "comb" -> each(value, "|")
       [] v.kind = "bundle" -> each(entry, ":")
       [] v.kind = "map" -> each(LAMBDA e : value(e[1]) \o <<"=">> \o value(e[2]), ":")
       [] v.kind = "msg" -> Joined(v.head, "%")
                            \o (IF v.of = <<>> THEN <<>> ELSE <<"%">> \o each(entry, ":"))
       [] OTHER -> v.of

ParcelString(values, by) == Joined([i \in DOMAIN values |-> Encode(values[i], by)], ",")
IntentString(extras, by) ==
  Joined([i \in DOMAIN extras |->
            Escape(extras[i][1], by) \o <<">">> \o Encode(extras[i][2], by)], ",")

-------------------------------------------------------------------------------
(* Reading.                                                                *)

(* SimpleEscapeSplitter: the escape of the separator it splits at is taken *)
(* away, others stay.  A separator at the end begins no part.              *)
Split(text, separator) ==
  LET start == [parts |-> <<>>, part |-> <<>>, escaped |-> FALSE, open |-> FALSE]
      take(s, c) ==
        IF s.escaped
        THEN [s EXCEPT !.part = @ \o (IF c = separator THEN <<c>> ELSE <<"\\", c>>),
                       !.escaped = FALSE]
        ELSE IF c = "\\" THEN [s EXCEPT !.escaped = TRUE, !.open = TRUE]
        ELSE IF c = separator
        THEN [start EXCEPT !.parts = Append(s.parts, s.part)]
        ELSE [s EXCEPT !.part = Append(@, c), !.open = TRUE]
      end(s) == IF s.open THEN Append(s.parts, s.part) ELSE s.parts
  IN end(FoldLeft(take, start, text))

Each(op(_), texts) == [i \in DOMAIN texts |-> op(texts[i])]
Entries(text, separator, inner) == Each(LAMBDA e : Split(e, inner), Split(text, separator))

(* unescapeString, <<>> or the characters.  The braces that Rust puts      *)
(* after \u are no hex digits.                                             *)
Unescape(text) ==
  LET take(s, c) ==
        IF s.bad THEN s
        ELSE IF ~s.escaped
        THEN IF c = "\\" THEN [s EXCEPT !.escaped = TRUE] ELSE [s EXCEPT !.out = Append(@, c)]
        ELSE IF c \in {"\\", "'", "\""} \cup Separators
        THEN [s EXCEPT !.escaped = FALSE, !.out = Append(@, c)]
        ELSE IF c = "n" THEN [s EXCEPT !.escaped = FALSE, !.out = Append(@, "\n")]
        ELSE [s EXCEPT !.bad = TRUE]
      end(s) == IF s.bad THEN <<>> ELSE <<s.out>>
  IN end(FoldLeft(take, [out |-> <<>>, escaped |-> FALSE, bad |-> FALSE], text))

Decimal(n) ==
  (IF n > 99 THEN <<ToString(n \div 100)>> ELSE <<>>)
  \o (IF n > 9 THEN <<ToString((n \div 10) % 10)>> ELSE <<>>) \o <<ToString(n % 10)>>

(* VByte: the first two characters are read as hex digits.                 *)
DecodeByte(text) ==
  IF Len(text) < 2 THEN Bad
  ELSE Value("byte", Decimal(16 * Digit[text[1]] + Digit[text[2]]))

TextOf(kind, chars) == IF chars = <<>> THEN Bad ELSE Value(kind, chars[1])

AnyBad(values) == \E i \in DOMAIN values : values[i].kind = "error"

(* What putString and the others of a Bundle accept.                       *)
Bundled == (Numbers \cup {"byte", "str", "binder", "bundle"})

(* VList, VCombined and VMap: values that are good; VBundle: keys that     *)
(* can be read, with values it can hold; VMessage: three numbers and the   *)
(* bundle.                                                                 *)
ListOf(kind, values) == IF AnyBad(values) THEN Bad ELSE Value(kind, values)
MapOf(pairs) == IF \E i \in DOMAIN pairs : AnyBad(pairs[i]) THEN Bad ELSE Value("map", pairs)
BundleOf(pairs) ==
  IF \E i \in DOMAIN pairs : pairs[i][1] = <<>> \/ pairs[i][2].kind \notin Bundled THEN Bad
  ELSE Value("bundle", [i \in DOMAIN pairs |-> <<pairs[i][1][1], pairs[i][2]>>])
MessageOf(parts, data) ==
  IF data = Bad THEN Bad ELSE [kind |-> "msg", head |-> SubSeq(parts, 1, 3), of |-> data.of]

KindsOf(text) == {k \in DOMAIN ReadPrefix : text # <<>> /\ ReadPrefix[k] = text[1]}

RECURSIVE Decode(_)
Decode(text) ==
  LET kind == CHOOSE k \in KindsOf(text) : TRUE
      rest == Tail(text)
      values(separator) == ListOf(kind, Each(Decode, Split(rest, separator)))
      pair(e) == IF Len(e) = 2 THEN Each(Decode, e) ELSE <<Bad>>
      keyed(e) == IF Len(e) = 2 THEN <<Unescape(e[1]), Decode(e[2])>> ELSE <<<<>>, Bad>>
      bundle(body) == BundleOf(Each(keyed, Entries(body, ":", "=")))
      message(parts) ==
        MessageOf(parts, bundle(IF Len(parts) > 3 THEN parts[4] ELSE <<>>))
  IN CASE KindsOf(text) = {} -> Bad
       [] KindsOf(text) # {} ->
            CASE kind \in Texts -> TextOf(kind, Unescape(rest))
              [] kind = "byte" -> DecodeByte(rest)
              [] kind = "bundle" -> bundle(rest)
              [] kind = "msg" -> message(Split(rest, "%"))
              [] kind = "map" -> MapOf(Each(pair, Entries(rest, ":", "=")))
              [] kind = "list" -> values(":")
              [] kind = "comb" -> values("|")
              [] OTHER -> Value(kind, rest)

(* ParcelString.parse and IntentString.parse: <<>> where they throw.       *)
ParcelOf(values) == IF AnyBad(values) THEN <<>> ELSE <<values>>
ParseParcel(text) == ParcelOf(Each(Decode, Split(text, ",")))

ExtrasRead(pairs) ==
  IF \E i \in DOMAIN pairs : pairs[i][1] = <<>> \/ pairs[i][2].kind = "error" THEN <<>>
  ELSE <<[i \in DOMAIN pairs |-> <<pairs[i][1][1], pairs[i][2]>>]>>
ParseIntent(text) ==
  LET extra(e) == IF Len(e) = 2 THEN <<Unescape(e[1]), Decode(e[2])>> ELSE <<<<>>, Bad>>
  IN ExtrasRead(Each(extra, Entries(text, ",", ">")))

-------------------------------------------------------------------------------
(* What a value puts into a parcel, as the calls that write it.            *)

RECURSIVE Written(_)
Written(v) ==
  LET each == FlattenSeq([i \in DOMAIN v.of |-> Written(v.of[i])])
      entries == FlattenSeq([i \in DOMAIN v.of |-> <<"key">> \o v.of[i][1] \o Written(v.of[i][2])])
  IN CASE v.kind = "short" -> <<"int">> \o v.of
       [] v.kind = "list" -> <<"int", ToString(Len(v.of))>> \o each
       [] v.kind = "comb" -> each
       [] v.kind = "map" ->
            <<"int", ToString(Len(v.of))>>
            \o FlattenSeq([i \in DOMAIN v.of |-> Written(v.of[i][1]) \o Written(v.of[i][2])])
       [] v.kind \in {"bundle", "msg"} -> <<v.kind>> \o FlattenSeq(v.head) \o entries \o <<"end">>
       [] OTHER -> <<v.kind>> \o v.of

WrittenAll(values) == FlattenSeq([i \in DOMAIN values |-> Written(values[i])])

(* What putExtra accepts: of lists, arrays of strings or of integers.      *)
Extra(v) ==
  /\ v.kind \notin {"binder", "null", "map", "comb", "msg"}
  /\ v.kind = "list" => \E k \in {"str", "int"} : \A i \in DOMAIN v.of : v.of[i].kind = k

(* Each extra is put under its key.  A key that begins with #m: calls the  *)
(* method of the intent that it names instead, if there is one; such keys  *)
(* are left out.                                                           *)
ExtrasOf(extras) ==
  FlattenSeq([i \in DOMAIN extras |-> <<"extra">> \o extras[i][1] \o Written(extras[i][2])])

(* The values that reach the other side as they are: no byte and no list,  *)
(* ASCII, what a bundle can hold, and no separator of a value inside a     *)
(* value that is split at the same one.                                    *)
SplitAt(kind) ==
  CASE kind \in {"bundle", "map"} -> {":", "="}
    [] kind = "msg" -> {"%", ":", "="}
    [] kind = "comb" -> {"|"}
    [] OTHER -> {}

Ascii(chars) == \A i \in DOMAIN chars : chars[i] \notin Foreign

RECURSIVE Travels(_, _)
Travels(v, outer) ==
  LET inner == outer \cup SplitAt(v.kind)
      fits(w) == w.kind \in Bundled /\ Travels(w, inner)
  IN /\ v.kind \notin {"byte", "list"}
     /\ v.kind \in Texts => Ascii(v.of)
     /\ SplitAt(v.kind) \cap outer = {}
     /\ v.kind = "comb" => \A i \in DOMAIN v.of : Travels(v.of[i], inner)
     /\ v.kind = "map" => \A i \in DOMAIN v.of :
          Travels(v.of[i][1], inner) /\ Travels(v.of[i][2], inner)
     /\ v.kind \in {"bundle", "msg"} => \A i \in DOMAIN v.of :
          Ascii(v.of[i][1]) /\ fits(v.of[i][2])
===============================================================================
