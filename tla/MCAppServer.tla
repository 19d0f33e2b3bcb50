------------------------------ MODULE MCAppServer -----------------------------
EXTENDS AppArguments

CONSTANTS r1, r2, r3, s1, s2

(* Words of command lines: strings with each character that means anything *)
(* to the text, alone, after a backslash and inside nested values.         *)
Special == <<",", ":", "=", ">", "%", "|", "\\", "'", "\n", "u">>
Odd(c) == <<"a", c, "\\", c>>

OfWords(form, words) == [form |-> form, by |-> "cli", of |-> words]
OfValues(form, values) == [form |-> form, by |-> "python", of |-> values]

Strings == [i \in DOMAIN Special |->
  OfWords("parcel", <<<<"str">>, Odd(Special[i]), <<"i32">>, <<"-", "1">>>>)]
Bundles == [i \in DOMAIN Special |->
  OfWords("parcel", <<<<"bund">>, Odd(Special[i]), <<"str">>, Odd(Special[i]),
                      <<"b">>, <<"z">>, <<"true">>, <<"end">>, <<"rfd">>, <<"a">>>>)]
Messages == [i \in DOMAIN Special |->
  OfWords("parcel", <<<<"msg">>, <<"1">>, <<"2">>, <<"3">>, <<"bund">>, Odd(Special[i]),
                      <<"str">>, Odd(Special[i]), <<"end">>, <<"null">>>>)]
Maps == [i \in DOMAIN Special |->
  OfWords("parcel", <<<<"map">>, <<"str">>, Odd(Special[i]), <<"bind">>, <<"end">>>>)]
Intents == [i \in DOMAIN Special |->
  OfWords("intent", <<Odd(Special[i]), <<"str">>, Odd(Special[i]), <<"end">>, <<"i64">>, <<"9">>>>)]
Combinations == [i \in DOMAIN Special |->
  OfValues("parcel", <<Value("comb", <<Value("str", Odd(Special[i])), Value("short", <<"1">>)>>),
                       Value("str", Odd(Special[i]))>>)]
Others ==
  <<OfWords("parcel", <<<<"u8">>, <<"1", "6">>>>), OfWords("parcel", <<<<"u8">>, <<"9">>>>),
    OfWords("parcel", <<<<"list">>, <<"i32">>, <<"1">>, <<"end">>>>),
    OfWords("parcel", <<<<"str">>, <<"eacute">>>>),
    OfWords("parcel", <<<<"bund">>, <<"a">>, <<"bund">>, <<"b">>, <<"i32">>, <<"1">>, <<"end">>, <<"end">>>>),
    OfWords("parcel", <<<<"bund">>, <<"a">>, <<"null">>, <<"end">>>>),
    OfWords("parcel", <<<<"bund">>, <<"a">>, <<"i32">>, <<"1">>>>),
    OfWords("parcel", <<<<"i32">>, <<"a">>>>), OfWords("parcel", <<<<"barr">>, <<"1", "2", "0">>>>),
    OfWords("parcel", <<<<"msg">>, <<"1">>, <<"2">>, <<"3">>, <<"end">>, <<"end">>, <<"bind">>>>),
    OfWords("intent", <<<<"a">>, <<"null">>>>), OfWords("intent", <<<<"a">>>>)>>

Asks ==
  Strings \o Bundles \o Messages \o Maps \o Intents \o Combinations \o Others
MCPayloads == [i \in DOMAIN Asks |-> ArgsOf(Asks[i])]

Mix(kinds, s, p) ==
  [kind    |-> (r1 :> kinds[1] @@ r2 :> kinds[2] @@ r3 :> kinds[3]),
   service |-> (r1 :> s1 @@ r2 :> s @@ r3 :> s1),
   payload |-> (r1 :> p @@ r2 :> 0 @@ r3 :> 0)]

MCMixes ==
  {Mix(<<"shell", "shell", "none">>, s1, 0), Mix(<<"shell", "shell", "none">>, s2, 0),
   Mix(<<"bind", "none", "sh">>, s1, 0), Mix(<<"call", "sh", "sh">>, s1, 0)}
  \cup {Mix(<<"call", "none", "none">>, s1, p) : p \in DOMAIN Asks}
===============================================================================
