----------------------------- MODULE AppArguments -----------------------------
(***************************************************************************)
(* The requests of AppServer with the arguments they are made with: what   *)
(* the command line or a Python program asks for, the text it is sent as   *)
(* and what the device makes of that (ParcelText).                         *)
(***************************************************************************)
EXTENDS AppServer, ParcelText

(* A payload is [form, by, of]: form is "parcel" or "intent", by "cli" or  *)
(* "python", of the words, or the values (of an intent, pairs of a key and *)
(* a value).                                                               *)
Asked(p) ==
  IF p.by = "python" THEN Made("value", p.of, << >>) ELSE ParseWords(p.form, p.of)
Text(p, values) ==
  IF p.form = "parcel" THEN ParcelString(values, p.by) ELSE IntentString(values, p.by)
ReadText(p, text) == IF p.form = "parcel" THEN ParseParcel(text) ELSE ParseIntent(text)

\* What is made of values: a parcel, or the extras of an intent
Usable(form, values) == form = "intent" => \A i \in DOMAIN values : Extra(values[i][2])
Arguments(form, values) == IF form = "parcel" THEN WrittenAll(values) ELSE ExtrasOf(values)

(* The arguments of a payload: the values asked for, or the error in them, *)
(* and what the callee is given where the device does not throw.           *)
ArgsOf(p) ==
  LET made == Asked(p)
      read == ReadText(p, Text(p, made.value))
      good == made.is = "value" /\ read # << >>
  IN [is |-> made.is, form |-> p.form, values |-> made.value, readable |-> good,
      usable |-> good /\ Usable(p.form, read[1]),
      read |-> IF good THEN Arguments(p.form, read[1]) ELSE << >>]

-------------------------------------------------------------------------------
(* What the callee is given is what was asked for.  Arguments whose values *)
(* travel (ParcelText: no byte and no list, ASCII, nothing nested that is  *)
(* split at the same separator) are read by the device, and a call that    *)
(* succeeds was made with them: no character of a string or a key was      *)
(* taken for a separator or an escape, at any depth.                       *)
ArgsArrive ==
  \A r \in Requests :
    LET values == args[r].values
        travels == \A i \in DOMAIN values :
                     IF args[r].form = "parcel" THEN Travels(values[i], {","})
                     ELSE Ascii(values[i][1]) /\ Travels(values[i][2], {",", ">"})
    IN args[r].is = "value" /\ travels =>
         /\ answer[r].why # "payload"
         /\ result[r] = "ok" => given[r] = Arguments(args[r].form, values)
===============================================================================
