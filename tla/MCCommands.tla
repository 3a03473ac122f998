---------------------------- MODULE MCCommands -----------------------------
(* Commands for TLC: eight-bit numbers.  255 is UMAX; 25 followed by 5, 6 or *)
(* 9, and 26 followed by 0, fit exactly or overflow the sum.                 *)
EXTENDS Commands

Strings(S, n) == UNION {[1..k -> S] : k \in 1..n}

\* Every way to break a short line into words.
Splits == Strings({Space, Tab, 1, Names.uptime}, 5)

\* More words than argv holds.
Crowded ==
  {w \o <<Space>> \o x \o <<Tab>> \o y \o <<Space, 1>> \o z :
     w \in {<<Names.uptime>>, <<1>>}, x, y \in {<<1>>, <<1, 1>>, <<Space, 1>>},
     z \in {<<>>, <<Space>>, <<1, Tab, 1>>}}

OneArgument ==
  {<<Names[c], Space>> \o a : c \in {"memtest", "sleep"}, a \in Strings({0, 2, 5, 6, 9, 15, Other}, 3)}

Addresses == {<<0, X, a, b>> : a, b \in {0, 1, 7, 14, 15}} \cup {<<14, 15>>, <<15, 15, 15>>, <<X>>}
Lengths == Strings({0, 1, 3, 9}, 2) \cup {<<2, 5, 5>>, <<2, 5, 6>>, <<9, 9, 9>>}
Dumps == {<<Names.hexdump, Space>> \o a \o <<Tab>> \o n : a \in Addresses, n \in Lengths}

MCLines == Splits \cup Crowded \cup OneArgument \cup Dumps
           \cup {<<Names[c]>> : c \in DOMAIN Names} \cup {<<Names.hexdump, Space, 1>>}
=============================================================================
