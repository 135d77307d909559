-------------------------------- MODULE Json --------------------------------
(***************************************************************************)
(* jsmn_parse of libbase/jsmn.h (without JSMN_STRICT and without           *)
(* JSMN_PARENT_LINKS, as bios/boot.c builds it) and the loop over its      *)
(* tokens that all *_from_json functions share.  A text is a sequence of   *)
(* symbols <<kind, name>>: a bracket, ":", ",", or a whole string.         *)
(***************************************************************************)
EXTENDS Naturals, Sequences, SequencesExt, FiniteSetsExt

CONSTANT MaxTokens                     \* of the array t

Brackets == [open |-> {"{", "["}, close |-> {"}", "]"}]
Opens(k) == IF k = "}" THEN "{" ELSE "["

(* tokens[i].end = -1 is "open"; toksuper is 0 when there is none.         *)
jsmn_init == [tokens |-> << >>, toksuper |-> 0, error |-> FALSE]

OpenTokens(p) == {i \in DOMAIN p.tokens : p.tokens[i].open}
Innermost(s) == IF s = {} THEN 0 ELSE Max(s)
Failed(p) == [p EXCEPT !.error = TRUE]

(* A new token, which counts as a child of toksuper.                       *)
Alloc(p, s, open) ==
  IF Len(p.tokens) = MaxTokens THEN Failed(p)
  ELSE [p EXCEPT !.tokens =
          Append([i \in DOMAIN p.tokens |->
                    IF i = p.toksuper THEN [p.tokens[i] EXCEPT !.size = @ + 1] ELSE p.tokens[i]],
                 [type |-> s[1], name |-> s[2], size |-> 0, open |-> open])]

Open(p, s) == [Alloc(p, s, TRUE) EXCEPT !.toksuper = Len(p.tokens) + 1]
Close(p, s) ==
  LET i == Innermost(OpenTokens(p)) IN
  IF i = 0 \/ p.tokens[IF i = 0 THEN 1 ELSE i].type # Opens(s[1]) THEN Failed(p)
  ELSE [p EXCEPT !.tokens[i].open = FALSE, !.toksuper = Innermost(OpenTokens(p) \ {i})]
Colon(p) == [p EXCEPT !.toksuper = Len(p.tokens)]
Comma(p) ==
  IF p.toksuper # 0 /\ p.tokens[p.toksuper].type \notin Brackets.open /\ OpenTokens(p) # {}
  THEN [p EXCEPT !.toksuper = Innermost(OpenTokens(p))] ELSE p

Symbol(p, s) ==
  CASE p.error -> p
    [] s[1] \in Brackets.open -> Open(p, s)
    [] s[1] \in Brackets.close -> Close(p, s)
    [] s[1] = ":" -> Colon(p)
    [] s[1] = "," -> Comma(p)
    [] OTHER -> Alloc(p, s, FALSE)

jsmn_parse(text) ==
  LET p == FoldLeft(Symbol, jsmn_init, text) IN IF OpenTokens(p) # {} THEN Failed(p) ELSE p

(* The loop: a string with one child is a key, the next token its value.   *)
KeysAndValues(p) ==
  LET t == p.tokens
      key(i) == t[i].type = "string" /\ t[i].size = 1
      keys == SetToSortSeq({i \in 1 .. (Len(t) - 1) : key(i)}, <)
  IN [n \in DOMAIN keys |-> <<t[keys[n]].name, t[keys[n] + 1].name>>]
=============================================================================
