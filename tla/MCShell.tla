------------------------------ MODULE MCShell ------------------------------
(***************************************************************************)
(* Three letters and the blank; each command's name is made of them, some  *)
(* names being the beginning of others.  All lines of up to four           *)
(* characters, and some that were cut or have a NUL inside.                *)
(***************************************************************************)
EXTENDS Shell

MCNames ==
  [echo |-> <<"e">>, help |-> <<"e", "s">>, panic |-> <<"s", "e">>, uname |-> <<"e", "%">>,
   uptime |-> <<"s">>, clear |-> <<"s", "s">>, cpuid |-> <<"%", "e">>]

MCHelps == [c \in CommandNames |-> IF c = "echo" THEN <<"%", "s">> ELSE <<"Help">>]

Keys == {"e", "s", "%", " "}

MCLetters == Keys \cup {"\n", NUL}

Text(n) == [1..n -> Keys]

MCLines ==
  {text \o <<"\n">> : text \in UNION {Text(n) : n \in 0..4}}
    \cup {<<"e", " ">> \o text : text \in Text(4)}
    \cup {<<"e", " ", NUL, "s", "\n">>, <<"e", "\n", "e", "\n">>, <<NUL, "e", "\n">>}

MCTimes == {<<0, 0, 0>>, <<1, 59, 8>>, <<120, 7, 30>>, <<999, 59, 59>>}

MCCpus ==
  [vendor : {<<"GenuineIntel">>}, brand : {<<"%", "s">>, << >>},
   features : [{1, 2} -> BOOLEAN]]

MCFeatureNames == <<<<"S", "1">>, <<"A">>>>
=============================================================================
