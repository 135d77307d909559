----------------------------- MODULE ScoreUplink -----------------------------
(***************************************************************************)
(* The way of a result from the board to the database: the console of the  *)
(* board, a serial line, and usb_parser.py, which waits for the header     *)
(* that the game prints when it starts (PongMain) and from then on stores  *)
(* every line that is JSON.  Any exception, from the JSON parser or from   *)
(* the database, sends it back to waiting for a header.  The board can be  *)
(* reset at any time, in the middle of a line as well.                     *)
(***************************************************************************)
EXTENDS Naturals, Sequences, SequencesExt

CONSTANTS
  MaxGame,    \* bound: how often the board is started
  MaxLine     \* bound: lines on their way to the parser

VARIABLES
  device,     \* "reset", "bios", "playing", "over"
  game,       \* which game since the start, counted by resets
  serial,     \* lines under way
  parser,     \* "off", "header" (first loop), "scores" (second loop)
  stored,     \* the games in the database, oldest first
  attended,   \* history: games whose header was printed to a running parser
  printed,    \* history: games whose result was printed completely
  raised      \* history: games whose upload raised an exception

uplinkVars == <<device, game, serial, parser, stored, attended, printed, raised>>
board      == <<device, game, attended, printed>>

Noise     == [kind |-> "noise"]               \* anything that is not JSON
Header    == [kind |-> "header"]              \* "####", not JSON either
Result(g) == [kind |-> "result", game |-> g]

UplinkInit ==
  /\ device = "reset" /\ game = 1
  /\ serial = << >>
  /\ parser = "off"
  /\ stored = << >>
  /\ attended = {} /\ printed = {} /\ raised = {}

-----------------------------------------------------------------------------
(* The board.  The BIOS greets with lines of its own, and boots the game.  *)
PrintLine(line) == Len(serial) < MaxLine /\ serial' = Append(serial, line)


Greet ==
  /\ device = "reset"
  /\ PrintLine(Noise)
  /\ device' = "bios"
  /\ UNCHANGED <<game, parser, stored, attended, printed, raised>>

StartGame ==
  /\ device = "bios"
  /\ PrintLine(Header)
  /\ device' = "playing"
  /\ attended' = IF parser = "off" THEN attended ELSE attended \cup {game}
  /\ UNCHANGED <<game, parser, stored, printed, raised>>

EndGame ==
  /\ device = "playing"
  /\ PrintLine(Result(game))
  /\ device' = "over"
  /\ printed' = printed \cup {game}
  /\ UNCHANGED <<game, parser, stored, attended, raised>>

(* A reset may cut the line that is being printed; what is left of it ends *)
(* with the first line of the BIOS, and may be the whole result.  A line   *)
(* counts as printed when the UART has sent its last character.            *)
Cut == {Noise} \cup IF device = "playing" THEN {Result(game)} ELSE {}

Reset ==
  /\ device # "reset" /\ game < MaxGame
  /\ device' = "reset" /\ game' = game + 1
  /\ UNCHANGED serial \/ \E cut \in Cut : PrintLine(cut)
  /\ UNCHANGED <<parser, stored, attended, printed, raised>>

-----------------------------------------------------------------------------
(* usb_parser.py.                                                          *)
line == Head(serial)

Start ==
  /\ parser = "off" /\ parser' = "header"
  /\ UNCHANGED <<serial, stored, raised, board>>

(* Nobody listens yet.                                                     *)
Vanish ==
  /\ parser = "off" /\ serial # << >>
  /\ serial' = Tail(serial)
  /\ UNCHANGED <<parser, stored, raised, board>>

WaitForHeader ==
  /\ parser = "header" /\ serial # << >>
  /\ serial' = Tail(serial)
  /\ parser' = IF line = Header THEN "scores" ELSE "header"
  /\ UNCHANGED <<stored, raised, board>>

NotJson_exits ==                      \* no except clause
  /\ parser = "scores" /\ serial # << >> /\ line.kind # "result"
  /\ serial' = Tail(serial)
  /\ parser' = "off"
  /\ UNCHANGED <<stored, raised, board>>

NotJson ==
  /\ parser = "scores" /\ serial # << >> /\ line.kind # "result"
  /\ serial' = Tail(serial)
  /\ parser' = "header"
  /\ UNCHANGED <<stored, raised, board>>

(* ref.push().set(data): it may fail before or after it has been stored.   *)
Store_again ==                        \* the line is read again on failure
  /\ parser = "scores" /\ serial # << >> /\ line.kind = "result"
  /\ \/ /\ stored' = Append(stored, line.game)
        /\ serial' = Tail(serial)
        /\ UNCHANGED <<parser, raised>>
     \/ /\ stored' \in {stored, Append(stored, line.game)}
        /\ raised' = raised \cup {line.game}
        /\ UNCHANGED <<serial, parser>>
  /\ UNCHANGED board

Store ==
  /\ parser = "scores" /\ serial # << >> /\ line.kind = "result"
  /\ serial' = Tail(serial)
  /\ \/ /\ stored' = Append(stored, line.game)
        /\ UNCHANGED <<parser, raised>>
     \/ /\ stored' \in {stored, Append(stored, line.game)}
        /\ raised' = raised \cup {line.game}
        /\ parser' = "header"
  /\ UNCHANGED board

Parser == Vanish \/ WaitForHeader \/ NotJson \/ Store

UplinkNext == Greet \/ StartGame \/ EndGame \/ Reset \/ Start \/ Parser

UplinkSpec == UplinkInit /\ [][UplinkNext]_uplinkVars

(* The parser reads what is there.                                         *)
UplinkFairSpec == UplinkSpec /\ WF_uplinkVars(Parser)

-----------------------------------------------------------------------------
(* No result is stored twice, and the results are in the order in which    *)
(* the games were played.                                                  *)
StoredOnceInOrder ==
  \A i, j \in 1 .. Len(stored) : i < j => stored[i] < stored[j]

(* Every such result reaches the database at last, or fails to.            *)
ResultArrives ==
  \A g \in 1 .. MaxGame :
    (g \in attended /\ g \in printed) ~> (g \in raised \/ Contains(stored, g))
=============================================================================
