----------------------------- MODULE LineEditor -----------------------------
(***************************************************************************)
(* What the console of the BIOS promises to its user: a line with a cursor *)
(* in it, the lines entered before, newest last, and completion to what    *)
(* the commands that start like the line agree on, as far as there is room *)
(* for them.                                                               *)
(***************************************************************************)
EXTENDS Naturals, Sequences, SequencesExt, FiniteSetsExt

CONSTANTS Chars, Commands, Listed, HistoryLength, Comment

VARIABLES
  line, cursor,     \* cursor characters are left of it
  insert,
  entered, back     \* how far back in entered the user is; 0 is a new line

editorVars == <<line, cursor, insert, entered, back>>

EditorInit == line = << >> /\ cursor = 0 /\ insert = TRUE /\ entered = << >> /\ back = 0

Left  == SubSeq(line, 1, cursor)
Right == SubSeq(line, cursor + 1, Len(line))
From(s, n) == SubSeq(s, n, Len(s))

(* s goes to the cursor, between its neighbours or over those to the right. *)
Put(s) ==
  /\ line' = Left \o s \o (IF insert THEN Right ELSE From(Right, Len(s) + 1))
  /\ cursor' = cursor + Len(s)
Candidates ==
  LET starts == {i \in DOMAIN Commands : IsPrefix(Left, Commands[i])}
  IN {Commands[i] : i \in {k \in starts : Cardinality({j \in starts : j <= k}) <= Listed}}
Completion == IF Candidates = {} THEN << >> ELSE From(LongestCommonPrefix(Candidates), cursor + 1)

Edit ==
  \/ (\E c \in Chars : Put(<<c>>)) \/ Put(Completion)
  \/ Right # << >> /\ line' = Left \o Tail(Right) /\ UNCHANGED cursor
  \/ Left # << >> /\ line' = Front(Left) \o Right /\ cursor' = cursor - 1
  \/ line' = Left /\ UNCHANGED cursor
  \/ line' = << >> /\ cursor' = 0
  \/ cursor' \in {0, cursor - 1, cursor + 1, Len(line)} \cap 0 .. Len(line) /\ UNCHANGED line

Recall(b) ==
  /\ b \in 0 .. Len(entered) /\ b \in {back - 1, back + 1} /\ back' = b
  /\ line' = IF b = 0 THEN << >> ELSE entered[Len(entered) - b + 1]
  /\ cursor' = Len(line')

Enter ==
  /\ entered' = IF line = << >> \/ Head(line) = Comment THEN entered
                ELSE LET all == Append(entered, line)
                     IN From(all, Max({1, Len(all) - HistoryLength + 1}))
  /\ line' = << >> /\ cursor' = 0 /\ insert' = TRUE /\ back' = 0
Break == line' = << >> /\ cursor' = 0 /\ insert' = TRUE /\ UNCHANGED <<entered, back>>

EditorNext ==
  \/ Edit /\ UNCHANGED <<insert, entered, back>>
  \/ insert' = ~ insert /\ UNCHANGED <<line, cursor, entered, back>>
  \/ (\E b \in {back - 1, back + 1} : Recall(b)) /\ UNCHANGED <<insert, entered>>
  \/ Enter \/ Break

EditorSpec == EditorInit /\ [][EditorNext]_editorVars
=============================================================================
