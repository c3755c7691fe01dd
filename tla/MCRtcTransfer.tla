----------------------------- MODULE MCRtcTransfer -----------------------------
(* Instances of RtcTransfer for TLC.                                       *)
EXTENDS RtcTransfer, TLC

CONSTANTS f1, f2

Both(sender, receiver) == [s \in Sides |-> IF s = "S" THEN sender ELSE receiver]

\* No demands; a PIN each; keys as expected; the key of another device; an
\* empty PIN; a receiver that pairs.
Plain == [pin |-> Both(NoPin, NoPin), expect |-> Both(NoKey, NoKey), pairs |-> FALSE]
MCConfigs ==
    {Plain,
     [Plain EXCEPT !.pin = Both("good", "good"), !.expect = Both(KeyOf("R"), KeyOf("S"))],
     [Plain EXCEPT !.expect = Both(generate_key("X"), NoKey)],
     [Plain EXCEPT !.expect = Both(NoKey, generate_key("X"))],
     [Plain EXCEPT !.pin = Both("", "")],
     [Plain EXCEPT !.pin = Both("good", NoPin), !.pairs = TRUE]}

\* Two chunks, and an empty file.
MCSize == (f1 :> 2) @@ (f2 :> 0)
=============================================================================
