------------------------------ MODULE Commands ------------------------------
(***************************************************************************)
(* What a line typed at the prompt makes the kernel answer: shell_parse and *)
(* shell_execute of src/src/kernel/shell.c and the commands of             *)
(* src/src/commands, on the memory they work in.                           *)
(*                                                                         *)
(* The memory is the line buffer and the two names of the prompt, one      *)
(* behind the other; literals stand behind it.  An answer is a sequence of *)
(* what is written, where a fixed text is only named.  Of the machine's    *)
(* memory it is kept which pages are there; what a command does to the     *)
(* frames, the heap and the page tables is in the modules of these.        *)
(***************************************************************************)
EXTENDS Strings, SequencesExt

CONSTANTS
  BufferSize,      \* BUFFER_SIZE: 256
  NameSize,        \* NAME_SIZE: 64
  MaxArgs,         \* MAX_CMD_ARGS: 16
  MaxDump,         \* 16384, the most memdump takes
  BitmapBytes,     \* bytes of the frame bitmap
  TicksPerSecond,  \* 1000
  Sixty,           \* seconds in a minute, minutes in an hour
  Bytes,           \* values of a byte: 256
  PageSize,        \* 4096
  HeapStart,       \* HEAP_START: 0xD0000000
  Present,         \* the pages that are there when the shell starts
  BadAddress,      \* 0x00A00000, where mia reads
  HeapBlocks,      \* addresses malloc can hand to memtest
  Spelling,        \* command |-> its name
  UserToken, OsToken,      \* "%user%" and "%os%"
  PromptTemplate,          \* PROMPT_TEMPLATE
  DefaultUser, DefaultOs,  \* "root" and "auri-os"
  Lines,           \* lines that are typed
  MaxLines,        \* bound: how many of them
  Ticks            \* values of the timer when a line is entered

ASSUME CommandConstants ==
  /\ {BufferSize, NameSize, MaxArgs, MaxDump, Sixty, Bytes} \subseteq Nat \ {0}
  /\ TicksPerSecond \in Nat /\ TicksPerSecond > 1 /\ Bytes <= Words
  /\ BufferSize + 2 * NameSize <= Size
  /\ Lines \cup {DefaultUser, DefaultOs} \subseteq Seq(Char)
  /\ \A line \in Lines : Len(line) < BufferSize
  /\ Len(DefaultUser) < NameSize /\ Len(DefaultOs) < NameSize
  /\ DOMAIN Spelling = {"echo", "exit", "uptime", "memdump", "memtest", "mia", "mmap", "peek", "poke",
                         "setprompt", "help", "fetch", "clear", "crash", "reboot"}
  /\ \A c, d \in DOMAIN Spelling : Spelling[c] = Spelling[d] => c = d
  /\ \A c \in DOMAIN Spelling : Spelling[c] \in Seq(Char \ {NUL})
  /\ PageSize \in Nat \ {0}
  /\ Ticks \cup HeapBlocks \cup {BadAddress, HeapStart} \subseteq 0 .. (Words - 1)

VARIABLES
  mem,      \* address |-> character
  pages,    \* the pages that are there
  ticks,    \* the timer's count
  shown,    \* what the last line was answered, nothing while one is typed
  running,  \* the shell has not stopped the machine
  typed     \* lines typed so far

commandVars == <<mem, pages, ticks, shown, running, typed>>

Buffer == 1
prompt_user == BufferSize + 1
prompt_os == BufferSize + NameSize + 1

Padded(t, n) == [i \in 1 .. n |-> IF i <= Len(t) THEN t[i] ELSE NUL]

\* strcmp with a literal.
Is(m, s, literal) == strcmp(m \o Stored(literal), s, Len(m) + 1) = 0

Say(text) == <<"say", text>>
writestring(m, s) == <<"string", SubSeq(m, s, s + strlen(m, s) - 1)>>
NewLine == Say("newline")

-----------------------------------------------------------------------------
\* shell_parse: the words are cut out of the line where it stands.

\* A slip: a word that is not ended where the next blank stands.
WordLeft(m, i) == m
WordEnded(m, i) == IF m[i] = SP THEN [m EXCEPT ![i] = NUL] ELSE m

shell_parse(m, cmd) ==
  LET trimmed == str_trim(m, cmd)
      parse[k \in 0 .. MaxArgs] ==
        IF k = 0 THEN [mem |-> trimmed.mem, at |-> trimmed.ret, args |-> << >>]
        ELSE LET p   == parse[k - 1]
                 end == p.at + First(LAMBDA j : p.mem[p.at + j] \in {NUL, SP})
             IN  IF p.mem[p.at] = NUL THEN p
                 ELSE [mem  |-> WordEnded(p.mem, end),
                       at   |-> end + First(LAMBDA j : p.mem[end + j] # SP),
                       args |-> Append(p.args, p.at)]
  IN  parse[MaxArgs]

-----------------------------------------------------------------------------
\* src/src/commands.  Each is the set of what it can write for its arguments,
\* args[1] being its own name.

\* The first argument behind those that are one of the flags.
FirstBehind(m, args, flags) ==
  2 + First(LAMBDA k : k + 2 > Len(args) \/ ~\E f \in flags : Is(m, args[k + 2], <<Minus, f>>))

AsksHelp(m, args, j) == j <= Len(args) /\ Is(m, args[j], <<Minus, 104>>)
Flagged(m, args, j, f) == \E i \in 2 .. (j - 1) : Is(m, args[i], <<Minus, f>>)

echo(m, args) ==
  LET j == FirstBehind(m, args, {110})
      words == Loop(Len(args) + 1 - j, << >>,
                    LAMBDA out, k : out \o <<writestring(m, args[j + k]), Say("space")>>)
  IN  IF AsksHelp(m, args, j) THEN {<<Say("echo help")>>}
      ELSE {words \o (IF Flagged(m, args, j, 110) THEN << >> ELSE <<NewLine>>)}

Then(outs, nexts) == {o \o n : o \in outs, n \in nexts}
Several(n, unit, units) == IF n > 1 THEN units ELSE unit

uptime(m, args) ==
  LET j       == FirstBehind(m, args, {114, 115, 112})
      total_seconds == ticks \div TicksPerSecond
      total_minutes == total_seconds \div Sixty
      seconds == total_seconds % Sixty
      minutes == total_minutes % Sixty
      hours   == total_minutes \div Sixty
      pretty  == Then(IF hours # 0 THEN print_unit(hours, Several(hours, "hour", "hours")) ELSE {<< >>},
                      Then(print_unit(minutes, Several(minutes, "minute", "minutes")),
                           print_unit(seconds, Several(seconds, "second", "seconds"))))
      plain   == Then(print_unit(hours, "h"), Then(print_unit(minutes, "m"), print_unit(seconds, "s")))
  IN  IF AsksHelp(m, args, j) THEN {<<Say("uptime help")>>}
      ELSE IF Flagged(m, args, j, 114) THEN print_unit(ticks, "ms")
      ELSE IF Flagged(m, args, j, 115) THEN print_unit(total_seconds, "s")
      ELSE IF Flagged(m, args, j, 112) THEN pretty
      ELSE plain

memdump(m, args) ==
  LET size == atoi(m, args[2])
  IN  IF Len(args) # 2 THEN {<<Say("memdump usage")>>}
      ELSE IF size < 1 \/ size > MaxDump THEN {<<Say("memdump size")>>}
      ELSE {<<<<"dump", IF size < BitmapBytes THEN size ELSE BitmapBytes>>>>}

\* The third block has the size of the first, freed before it.
memtest == {<<Say("alloc"), Say("reuse")>> \o out : out \in UNION {print_unit(c, "addr") : c \in HeapBlocks}}

\* What a command writes that has written out and goes on, or stops the machine.
Done(out) == [out |-> out, returns |-> TRUE, pages |-> pages]
Stop(out) == [out |-> out, returns |-> FALSE, pages |-> pages]

\* An access to memory and what is written behind it.  isr_handler writes the
\* exception before it asks for the page, which is mapped in the heap's range if a
\* frame is left; otherwise the machine stops.
Access(addr, out) ==
  LET page  == addr \div PageSize
      fault == <<Say("page fault")>>
  IN  IF page \in pages THEN {Done(out)}
      ELSE {Stop(fault)} \cup
           IF addr < HeapStart THEN {} ELSE {[Done(fault \o out) EXCEPT !.pages = @ \cup {page}]}

peek(m, args) ==
  LET addr == htoi(m, args[2])
  IN  IF Len(args) # 2 THEN {Done(<<Say("peek usage")>>)}
      ELSE Access(addr, <<<<"peek", addr>>>>)

poke(m, args) ==
  LET addr  == htoi(m, args[2])
      value == htoi(m, args[3]) % Bytes
  IN  IF Len(args) # 3 THEN {Done(<<Say("poke usage")>>)}
      ELSE Access(addr, <<<<"poke", terminal_print_hex(value), terminal_print_hex(addr)>>>>)

\* A new line, then a read where nothing is mapped.
mia == {[run EXCEPT !.out = <<NewLine>> \o @] : run \in Access(BadAddress, << >>)}

help == <<Say("help")>>
fetch == <<Say("fetch")>>

\* The commands that end with the machine stopped, after what they write.
crash == {Stop(<< >>)}
reboot == {Stop(<<Say("rebooting")>>)}
poweroff == {Stop(<<Say("powering off")>>)}

\* The names setprompt leaves in memory.
setprompt(m, args) ==
  LET named == strlcpy(m, prompt_user, args[2], NameSize)
  IN  IF Len(args) < 2 THEN m
      ELSE IF Len(args) = 2 THEN named
      ELSE strlcpy(named, prompt_os, args[3], NameSize)

-----------------------------------------------------------------------------
\* shell_render_prompt, at character i of the template.
prompt_match(i, token) == IsPrefix(token, SubSeq(PromptTemplate, i, Len(PromptTemplate)))

\* "[%user%@%os%]$ " has each token once, one behind the other.
ASSUME TemplateConstants ==
  /\ PromptTemplate \in Seq(Char) /\ UserToken \in Seq(Char) \ {<< >>} /\ OsToken \in Seq(Char) \ {<< >>}
  /\ \E i, j \in DOMAIN PromptTemplate :
       /\ i + Len(UserToken) <= j
       /\ \A k \in DOMAIN PromptTemplate :
            (prompt_match(k, UserToken) <=> k = i) /\ (prompt_match(k, OsToken) <=> k = j)

shell_render_prompt(m) ==
  LET from[i \in 1 .. (Len(PromptTemplate) + 1)] ==
        IF i > Len(PromptTemplate) THEN << >>
        ELSE IF prompt_match(i, UserToken)
             THEN <<writestring(m, prompt_user)>> \o from[i + Len(UserToken)]
        ELSE IF prompt_match(i, OsToken)
             THEN <<writestring(m, prompt_os)>> \o from[i + Len(OsToken)]
        ELSE <<<<"string", <<PromptTemplate[i]>>>>>> \o from[i + 1]
  IN  from[1]

\* What executing the parsed line writes, leaves in memory, and whether it
\* returns.
Ran(m, runs) ==
  {[mem |-> m, out |-> r.out, returns |-> r.returns, pages |-> r.pages] : r \in runs}
Answered(m, outs) == Ran(m, {Done(o) : o \in outs})

Command(c, m, args) ==
  CASE c = "help" -> Answered(m, {help})
    [] c = "fetch" -> Answered(m, {fetch})
    [] c \in {"clear", "mmap"} -> Answered(m, {<<Say(c)>>})
    [] c = "crash" -> Ran(m, crash)
    [] c = "reboot" -> Ran(m, reboot)
    [] c = "exit" -> Ran(m, poweroff)
    [] c = "echo" -> Answered(m, echo(m, args))
    [] c = "uptime" -> Answered(m, uptime(m, args))
    [] c = "memdump" -> Answered(m, memdump(m, args))
    [] c = "memtest" -> Answered(m, memtest)
    [] c = "mia" -> Ran(m, mia)
    [] c = "peek" -> Ran(m, peek(m, args))
    [] c = "poke" -> Ran(m, poke(m, args))
    [] c = "setprompt" ->
         Answered(setprompt(m, args), {IF Len(args) < 2 THEN <<Say("setprompt usage")>> ELSE << >>})

Results(m, args) ==
  LET named == {c \in DOMAIN Spelling : Is(m, args[1], Spelling[c])}
  IN  IF args = << >> THEN Answered(m, {<< >>})
      ELSE IF named = {} THEN Answered(m, {<<Say("not found"), writestring(m, args[1]), NewLine>>})
      ELSE Command(CHOOSE c \in named : TRUE, m, args)

shell_execute == LET parsed == shell_parse(mem, Buffer) IN Results(parsed.mem, parsed.args)

-----------------------------------------------------------------------------
CommandsInit ==
  /\ mem = Padded(<< >>, BufferSize) \o Padded(DefaultUser, NameSize) \o Padded(DefaultOs, NameSize)
  /\ pages = Present /\ ticks = 0 /\ running = TRUE /\ typed = 0
  /\ shown = shell_render_prompt(mem)

\* The characters of a line are inserted one after the other, each with its NUL;
\* what an earlier line left behind them stays.
Type(line) ==
  /\ running /\ shown # << >> /\ typed < MaxLines
  /\ mem' = [i \in DOMAIN mem |-> IF i <= Len(line) + 1 THEN Stored(line)[i] ELSE mem[i]]
  /\ ticks' \in Ticks /\ shown' = << >> /\ typed' = typed + 1
  /\ UNCHANGED <<pages, running>>

\* '\n' in shell_handle_key, when the command returns and when it does not.
Enter ==
  /\ running /\ shown = << >>
  /\ \E r \in shell_execute :
       /\ r.returns
       /\ mem' = [r.mem EXCEPT ![Buffer] = NUL] /\ pages' = r.pages
       /\ shown' = <<NewLine>> \o r.out \o shell_render_prompt(r.mem)
  /\ UNCHANGED <<ticks, running, typed>>

EnterLast ==
  /\ running /\ shown = << >>
  /\ \E r \in shell_execute :
       /\ ~r.returns
       /\ mem' = r.mem /\ pages' = r.pages /\ shown' = <<NewLine>> \o r.out
  /\ running' = FALSE /\ UNCHANGED <<ticks, typed>>

CommandsNext == (\E line \in Lines : Type(line)) \/ Enter \/ EnterLast

CommandsSpec == CommandsInit /\ [][CommandsNext]_commandVars
-----------------------------------------------------------------------------
\* What the user typed, by position in the line

\* The maximal runs without a space between the line's outer blanks, as many as
\* a command is handed.
WordsOf(t) ==
  LET solid  == {k \in DOMAIN t : t[k] \notin Blank}
      inside == {k \in DOMAIN t : t[k] # SP /\ (\E i \in solid : i <= k) /\ \E j \in solid : k <= j}
      begins == {k \in inside : k - 1 \notin inside}
      number == Cardinality(begins)
      nth(n) == CHOOSE k \in begins : Cardinality({j \in begins : j <= k}) = n
      end(k) == CHOOSE e \in inside : k .. e \subseteq inside /\ k <= e /\ e + 1 \notin inside
  IN  [n \in 1 .. (IF number < MaxArgs THEN number ELSE MaxArgs) |->
         SubSeq(t, nth(n), end(nth(n)))]

\* The template with the names in the places of their tokens.
Prompt(user, os) ==
  LET at(token) == CHOOSE i \in DOMAIN PromptTemplate : prompt_match(i, token)
      behind(token) == at(token) + Len(token)
  IN  SubSeq(PromptTemplate, 1, at(UserToken) - 1) \o user
      \o SubSeq(PromptTemplate, behind(UserToken), at(OsToken) - 1) \o os
      \o SubSeq(PromptTemplate, behind(OsToken), Len(PromptTemplate))

Number(token, n) == token[1] = "number" /\ IsNumeral(token[2], n)
Options(w, flags) ==
  {k \in 2 .. Len(w) : \A j \in 2 .. k : \E f \in flags : w[j] = <<Minus, f>>}
LastOption(w, flags) == Cardinality(Options(w, flags)) + 1
Help(w, flags) == LastOption(w, flags) < Len(w) /\ w[LastOption(w, flags) + 1] = <<Minus, 104>>

EchoAnswer(w, out) ==
  LET n == LastOption(w, {110})
      said == SubSeq(w, n + 1, Len(w))
  IN  IF Help(w, {110}) THEN out = <<Say("echo help")>>
      ELSE out = FlattenSeq([k \in DOMAIN said |-> <<<<"string", said[k]>>, Say("space")>>])
                 \o [k \in 1 .. (IF n = 1 THEN 1 ELSE 0) |-> NewLine]

\* Hours, minutes and seconds add up to the time since the machine started.
UptimeAnswer(w, out) ==
  LET flags  == {114, 115, 112}
      asked  == {w[k][2] : k \in Options(w, flags)}
      parts  == [k \in 1 .. (Len(out) \div 2) |-> Decimal(out[2 * k - 1][2])]
      inSeconds[k \in 0 .. Len(parts)] == IF k = 0 THEN 0 ELSE Sixty * inSeconds[k - 1] + parts[k]
  IN  IF Help(w, flags) THEN out = <<Say("uptime help")>>
      ELSE IF 114 \in asked
           THEN Number(out[1], ticks) <=> ticks < Half
      ELSE IF 115 \in asked THEN Number(out[1], ticks \div TicksPerSecond)
      ELSE /\ inSeconds[Len(parts)] = ticks \div TicksPerSecond
           /\ \A k \in DOMAIN parts : k > Len(parts) - 2 => parts[k] < Sixty
           /\ Len(parts) = (IF 112 \in asked /\ ticks < TicksPerSecond * Sixty * Sixty THEN 2 ELSE 3)

\* A page that is there is accessed silently; one that is missing raises the
\* exception once, and is there afterwards or nothing runs any more.
AccessAnswer(v, row, out) ==
  LET page == v \div PageSize
  IN  IF page \in pages THEN running' /\ out = <<row>>
      ELSE IF running' THEN out = <<Say("page fault"), row>> /\ v >= HeapStart /\ page \in pages'
      ELSE out = <<Say("page fault")>>

AddressAnswer(w, out, show(_)) ==
  \A v \in 0 .. (Words - 1) : w[2] = terminal_print_hex(v) => AccessAnswer(v, show(v), out)

ArgumentsAnswer(w, out) ==
  CASE w[1] = Spelling["memdump"] /\ Len(w) = 2 ->
         \A n \in 0 .. (Half - 1) :
           IsNumeral(w[2], n) => (out # << >> /\ out[1][1] = "dump" <=> n \in 1 .. MaxDump)
    [] w[1] = Spelling["peek"] /\ Len(w) = 2 -> AddressAnswer(w, out, LAMBDA v : <<"peek", v>>)
    [] w[1] = Spelling["poke"] /\ Len(w) = 3 ->
         \A b \in 0 .. (Bytes - 1) : w[3] = terminal_print_hex(b) =>
           AddressAnswer(w, out, LAMBDA v : <<"poke", terminal_print_hex(b), terminal_print_hex(v)>>)
    [] OTHER -> TRUE

Answer(w, out) ==
  IF w = << >> THEN out = << >>
  ELSE CASE w[1] = Spelling["echo"] -> EchoAnswer(w, out)
         [] w[1] = Spelling["uptime"] -> UptimeAnswer(w, out)
         [] w[1] \notin Range(Spelling) -> out = <<Say("not found"), <<"string", w[1]>>, NewLine>>
         [] OTHER -> ArgumentsAnswer(w, out)

\* A line is answered as the words between its blanks ask, as many as fit in the
\* argument array: what is echoed, which uptime, size and address; an empty line
\* by nothing.  A peek or poke of a missing page raises its exception once, and of
\* a page that an earlier one brought in none.  The prompt behind the answer shows
\* the names as setprompt set them, cut off to their arrays, whatever characters
\* they are of.
AnswersLine ==
  [][shown = << >> /\ shown' # << >> =>
       LET w     == WordsOf(Text(mem, Buffer))
           names == w # << >> /\ w[1] = Spelling["setprompt"]
           user  == IF names /\ Len(w) > 1 THEN Cut(w[2], NameSize - 1) ELSE Text(mem, prompt_user)
           os    == IF names /\ Len(w) > 2 THEN Cut(w[3], NameSize - 1) ELSE Text(mem, prompt_os)
       IN  \E k \in 1 .. Len(shown') :
             /\ IF running'
                THEN /\ \A j \in (k + 1) .. Len(shown') : shown'[j][1] = "string"
                     /\ FlattenSeq([j \in 1 .. (Len(shown') - k) |-> shown'[k + j][2]]) = Prompt(user, os)
                ELSE k = Len(shown')
             /\ Answer(w, SubSeq(shown', 2, k))]_commandVars

\* The routines of src/src/lib hand back what their names promise for every
\* string and block of the line that is typed: an overlapping move loses
\* nothing, no copy passes the end it was given.
StringsAgree ==
  shown = << >> =>
    LET line == SubSeq(mem, 1, BufferSize)
    IN  ComparisonsAgree(line) /\ BlocksAgree(line) /\ CopiesAgree(line) /\ TrimsAgree(line)

\* The times and addresses the commands print and read survive it, but for what
\* an int has no room for.
NumbersAgree ==
  \A val \in {ticks, BadAddress, HeapStart} \cup HeapBlocks : HexAgrees(val) /\ DecimalAgrees(val)
=============================================================================
