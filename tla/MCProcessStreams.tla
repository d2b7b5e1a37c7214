--------------------------- MODULE MCProcessStreams ---------------------------
(***************************************************************************)
(* Calls and texts for TLC.                                                *)
(***************************************************************************)
EXTENDS ProcessStreams

\* The streams that can have a callback in each family of overloads: with
\* files stdout always has one, execute has none.
MayBeGiven(api) ==
  CASE api = "execute" -> {{}}
    [] api = "files" -> {{"stdout"}, Output}
    [] api = "each_line" -> SUBSET Output

AllCalls == {c \in Call : c.given \in MayBeGiven(c.api)}

TextsUpTo(n) == UNION {[1..k -> Char] : k \in 0..n}

LongTexts == TextsUpTo(4)
ShortTexts == TextsUpTo(2)
===============================================================================
