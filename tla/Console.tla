------------------------------ MODULE Console ------------------------------
(***************************************************************************)
(* readline of bios/readline.c with its history and the completion of      *)
(* bios/complete.c: the line in the buffer, the ring of earlier lines, and *)
(* what the terminal shows of it.  A key is one step, with all it echoes.  *)
(***************************************************************************)
EXTENDS Integers, Sequences, SequencesExt, FiniteSetsExt

CONSTANTS
  Chars, Commands,          \* the names of the commands, in the order they are linked
  HIST_MAX, HIST_DEPTH, CREAD_HIST_CHAR,
  MaxLine,                  \* bound of the length of a line
  MaxEntered                \* bound: lines entered

ASSUME ConsoleAssumption ==
  /\ {HIST_MAX, HIST_DEPTH} \subseteq Nat \ {0} /\ {MaxLine, MaxEntered} \subseteq Nat
  /\ Commands \in Seq(Seq(Chars) \ {<< >>}) /\ "blank" \notin Chars
  /\ \A i, j \in DOMAIN Commands : IsPrefix(Commands[i], Commands[j]) => i = j

VARIABLES
  buf, num,                 \* the line; eol_num is its length
  insert,
  hist_lines, hist_max, hist_add_idx, hist_cur,
  tab_pressed,
  text, col,                \* the terminal: the row of the prompt behind it, the cursor
  lines                     \* bounds the model

histVars == <<hist_lines, hist_max, hist_add_idx, hist_cur>>
consoleVars == <<buf, num, insert, histVars, tab_pressed, text, col, lines>>

eol_num == Len(buf)

hist_init ==
  /\ hist_max = 0 /\ hist_add_idx = 0 /\ hist_cur = -1
  /\ hist_lines = [i \in 0 .. HIST_MAX - 1 |-> << >>]
ConsoleInit ==
  /\ buf = << >> /\ num = 0 /\ insert = TRUE /\ hist_init /\ tab_pressed = FALSE
  /\ text = << >> /\ col = 0 /\ lines = 0

-----------------------------------------------------------------------------
(* What is echoed: a character goes over the one at the cursor, and a row  *)
(* that ends in blanks looks like a shorter one.                           *)
Screen(t, c) == [text |-> t, col |-> c]
putnstr(s, string) ==
  LET end == s.col + Len(string) IN
  Screen([i \in 1 .. Max({end, Len(s.text)}) |->
            IF i \in s.col + 1 .. end THEN string[i - s.col] ELSE s.text[i]], end)
Blanks(n) == [i \in 1 .. n |-> "blank"]
Backspace(s, n) == [s EXCEPT !.col = @ - n]
Shows(s) ==
  LET last == {i \in DOMAIN s.text : s.text[i] # "blank"} IN
  text' = SubSeq(s.text, 1, IF last = {} THEN 0 ELSE Max(last)) /\ col' = s.col
Now == Screen(text \o Blanks(IF col > Len(text) THEN col - Len(text) ELSE 0), col)
NewPrompt == text' = << >> /\ col' = 0

Sub(a, b) == SubSeq(buf, a + 1, b)     \* buf[a] .. buf[b - 1]

-----------------------------------------------------------------------------
(* cread_add_char, for each of a string: state of the line and terminal.   *)
add_char_fault(l, c) ==                \* does not go back over what it has moved
  LET wlen == IF insert THEN Len(l.buf) - l.num + 1 ELSE 1
      new  == IF insert \/ l.num = Len(l.buf) THEN InsertAt(l.buf, l.num + 1, c)
              ELSE [l.buf EXCEPT ![l.num + 1] = c]
  IN [buf |-> new, num |-> l.num + 1,
      screen |-> putnstr(l.screen, SubSeq(new, l.num + 1, l.num + wlen))]
add_char(l, c) ==
  LET wlen == IF insert THEN Len(l.buf) - l.num + 1 ELSE 1
      new  == IF insert \/ l.num = Len(l.buf) THEN InsertAt(l.buf, l.num + 1, c)
              ELSE [l.buf EXCEPT ![l.num + 1] = c]
  IN [buf |-> new, num |-> l.num + 1,
      screen |-> Backspace(putnstr(l.screen, SubSeq(new, l.num + 1, l.num + wlen)), wlen - 1)]
AddEach(first, string) ==
  LET l[n \in 0 .. Len(string)] == IF n = 0 THEN first ELSE add_char(l[n - 1], string[n])
  IN l[Len(string)]
cread_add_char(screen, string) ==
  \E l \in {AddEach([buf |-> buf, num |-> num, screen |-> screen], string)} :
    Len(l.buf) <= MaxLine /\ buf' = l.buf /\ num' = l.num /\ Shows(l.screen)

Typed ==
  /\ \E c \in Chars : cread_add_char(Now, <<c>>)
  /\ UNCHANGED <<insert, histVars, tab_pressed, lines>>

(* The three ways to delete.                                               *)
DeleteUnder ==                         \* KEY_DEL and ^D
  /\ num < eol_num /\ buf' = RemoveAt(buf, num + 1) /\ UNCHANGED num
  /\ Shows(Backspace(putnstr(Now, Sub(num + 1, eol_num) \o Blanks(1)), eol_num - num))
DeleteBefore ==                        \* also for an escape sequence it does not know
  /\ num > 0 /\ buf' = RemoveAt(buf, num) /\ num' = num - 1
  /\ Shows(Backspace(putnstr(Backspace(Now, 1), Sub(num, eol_num) \o Blanks(1)), eol_num - num + 1))
Erased(s, n) == Backspace(putnstr(s, Blanks(eol_num - n)), eol_num - n)
ERASE_TO_EOL ==
  /\ num < eol_num /\ buf' = Sub(0, num) /\ UNCHANGED num /\ Shows(Erased(Now, num))
ERASE_LINE ==
  /\ eol_num > 0 /\ buf' = << >> /\ num' = 0 /\ Shows(Erased(Backspace(Now, num), 0))

Move ==
  /\ \/ num' \in {0, num - 1} /\ num > 0 /\ Shows(Backspace(Now, num - num'))
     \/ num' \in {num + 1, eol_num} /\ num < eol_num /\ Shows(putnstr(Now, Sub(num, num')))
  /\ UNCHANGED buf
Edited ==
  /\ DeleteUnder \/ DeleteBefore \/ ERASE_TO_EOL \/ ERASE_LINE \/ Move
  /\ UNCHANGED <<insert, histVars, tab_pressed, lines>>
KEY_INSERT == insert' = ~ insert /\ UNCHANGED <<buf, num, histVars, tab_pressed, text, col, lines>>

-----------------------------------------------------------------------------
(* complete: the candidates agree on a character if all that come before   *)
(* the first one that has ended there have it.                             *)
sl ==                                  \* their places in the table of the commands
  LET c == {i \in DOMAIN Commands : IsPrefix(Sub(0, num), Commands[i])} IN
  {i \in c : Cardinality({j \in c : j <= i}) <= HIST_DEPTH}
first_entry == Commands[Min(sl)]
Agree(pos) ==
  /\ pos < Len(first_entry)
  /\ \A i \in sl : \/ \E j \in sl : j <= i /\ Len(Commands[j]) <= pos
                  \/ Commands[i][pos + 1] = first_entry[pos + 1]
completestr ==
  IF sl = {} THEN << >>
  ELSE SubSeq(first_entry, num + 1, Min({p \in num .. Len(first_entry) : ~ Agree(p)}))

complete ==
  /\ LET listed == Cardinality(sl) > 1 /\ completestr = << >> /\ tab_pressed
     IN cread_add_char(IF listed THEN Backspace(putnstr(Screen(<< >>, 0), buf), eol_num - num) ELSE Now,
                       completestr)
  /\ tab_pressed' = (IF sl = {} THEN tab_pressed ELSE completestr = << >>)
  /\ UNCHANGED <<insert, histVars, lines>>

-----------------------------------------------------------------------------
Previous_fault(i) == IF i - 1 < 0 THEN HIST_MAX - 1 ELSE i - 1
Previous(i) == IF i - 1 < 0 THEN hist_max ELSE i - 1
Following(i) == IF i + 1 > hist_max THEN 0 ELSE i + 1
ShowRecalled(hline) ==
  /\ buf' = hline /\ num' = Len(hline)
  /\ Shows(putnstr(Erased(Backspace(Now, num), 0), hline))

hist_prev ==
  /\ hist_cur >= 0 /\ Previous(hist_cur) # hist_add_idx
  /\ hist_cur' = Previous(hist_cur) /\ ShowRecalled(hist_lines[hist_cur'])
hist_next ==
  /\ hist_cur >= 0 /\ hist_cur # hist_add_idx
  /\ hist_cur' = Following(hist_cur)
  /\ ShowRecalled(IF hist_cur' = hist_add_idx THEN << >> ELSE hist_lines[hist_cur'])
UpOrDown ==
  (hist_prev \/ hist_next)
    /\ UNCHANGED <<insert, hist_lines, hist_max, hist_add_idx, tab_pressed, lines>>

Newest(i) == IF i > hist_max THEN i ELSE hist_max
cread_add_to_hist ==
  /\ hist_lines' = [hist_lines EXCEPT ![hist_add_idx] = buf]
  /\ hist_add_idx' = (hist_add_idx + 1) % HIST_MAX
  /\ hist_max' = Newest(hist_add_idx')

EndOfLine == buf' = << >> /\ num' = 0 /\ insert' = TRUE /\ NewPrompt /\ UNCHANGED tab_pressed
Return ==
  /\ lines < MaxEntered /\ lines' = lines + 1
  /\ IF buf # << >> /\ Head(buf) # CREAD_HIST_CHAR THEN cread_add_to_hist
     ELSE UNCHANGED <<hist_lines, hist_add_idx, hist_max>>
  /\ hist_cur' = hist_add_idx' /\ EndOfLine
Break == EndOfLine /\ UNCHANGED <<histVars, lines>>

readline ==
  \/ Typed \/ Edited \/ KEY_INSERT \/ complete \/ UpOrDown \/ Return \/ Break

ConsoleSpec == ConsoleInit /\ [][readline]_consoleVars

-----------------------------------------------------------------------------
(* Whatever is edited, recalled or completed, the terminal shows the line  *)
(* and its cursor: no echo leaves a character behind or the cursor off.    *)
ShowsTheLine == text = buf /\ col = num

(* The ring of the history and its indices are a list of the last lines    *)
(* and a place in it, and completion adds exactly what the commands agree  *)
(* on that fit into its list: the console is the abstract editor.          *)
Editor == INSTANCE LineEditor WITH
  line <- buf, cursor <- num,
  Listed <- HIST_DEPTH, HistoryLength <- HIST_MAX - 1, Comment <- CREAD_HIST_CHAR,
  entered <- [k \in 1 .. hist_max |-> hist_lines[(hist_add_idx + k) % (hist_max + 1)]],
  back <- IF hist_cur < 0 THEN 0 ELSE (hist_add_idx - hist_cur) % (hist_max + 1)
EditsTheLine == Editor!EditorSpec
=============================================================================
