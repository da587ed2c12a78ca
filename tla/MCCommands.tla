----------------------------- MODULE MCCommands -----------------------------
(***************************************************************************)
(* Commands with names of one or two letters, words of 8 bits, names of at *)
(* most 2 characters and at most 3 arguments.  A minute has 3 seconds and  *)
(* an hour 3 minutes, so that every unit occurs.  There are 16 pages, and  *)
(* the heap's range begins with the 13th; 200 is a negative char.          *)
(***************************************************************************)
EXTENDS Commands

MCSpelling ==
  [echo |-> <<101>>, exit |-> <<101, 120>>, uptime |-> <<117>>, memdump |-> <<100>>,
   memtest |-> <<116>>, mia |-> <<109>>, mmap |-> <<109, 109>>, peek |-> <<112>>,
   poke |-> <<107>>, setprompt |-> <<115>>, help |-> <<104>>, fetch |-> <<102>>,
   clear |-> <<99>>, crash |-> <<120>>, reboot |-> <<114>>]

\* [%u%@%o%$ for PROMPT_TEMPLATE
MCUserToken == <<37, 117, 37>>
MCOsToken == <<37, 111, 37>>
MCTemplate == <<91>> \o MCUserToken \o <<64>> \o MCOsToken \o <<36>>

Opt(f) == <<Minus, f>>
Spaced(words) ==
  LET upto[k \in 0 .. Len(words)] ==
        IF k = 0 THEN << >> ELSE (IF k = 1 THEN << >> ELSE upto[k - 1] \o <<SP>>) \o words[k]
  IN  upto[Len(words)]

Echoes ==
  {Spaced(<<<<101>>>> \o w) : w \in
     {<< >>, <<<<98>>, <<66, 98>>>>, <<Opt(110), <<98>>>>, <<Opt(110), Opt(104)>>, <<Opt(98)>>, <<Opt(110)>>, <<<<98>>, Opt(110)>>,
      <<<<49>>, <<50>>, <<51>>, <<52>>>>, <<<<200, 98>>, <<98>>>>}}
  \cup {<<SP, TAB, 101, SP, SP, 98, SP>>, <<101, TAB, 98>>, <<101, SP, TAB, 98, TAB, SP>>}
Uptimes ==
  {Spaced(<<<<117>>>> \o w) : w \in
     {<< >>, <<Opt(114)>>, <<Opt(115)>>, <<Opt(112)>>, <<Opt(112), Opt(115)>>, <<Opt(112), Opt(104)>>, <<<<98>>, Opt(114)>>}}
Numbers ==
  {Spaced(w) : w \in
     {<<<<100>>, <<57>>>>, <<<<100>>, <<49, 50>>>>, <<<<100>>, <<98>>>>, <<<<100>>, <<49, 51>>>>, <<<<100>>, <<Minus, 49>>>>, <<<<100>>, <<50, 53, 55>>>>,
      <<<<112>>, <<48, 120, 56, 48>>>>, <<<<112>>, <<70, 56, 49>>>>, <<<<112>>, <<48, 120, 48, 48>>>>,
      <<<<107>>, <<56, 48>>, <<49, 98>>>>, <<<<107>>, <<57>>, <<49>>>>}}
  \cup {Spaced(<<<<112>>, terminal_print_hex(a)>>) : a \in {128, 160, 208, 229}}
  \cup {Spaced(<<<<107>>, terminal_print_hex(a), terminal_print_hex(7)>>) : a \in {160, 230}}
Names ==
  {Spaced(<<<<115>>>> \o w) : w \in {<<<<98>>>>, <<<<98, 66, 98>>>>, <<<<37, 111, 37>>>>, <<<<200>>, <<66>>>>}}
Others == {<< >>, <<SP, TAB, SP>>, <<66>>, <<101, 101>>}
  \cup {MCSpelling[c] : c \in DOMAIN MCSpelling}

MCLines == Echoes \cup Uptimes \cup Numbers \cup Names \cup Others
MCUser == <<114>>
MCOs == <<111, 115>>
=============================================================================
