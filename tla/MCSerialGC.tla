----------------------------- MODULE MCSerialGC -----------------------------
(* SerialGC with frames at the limits of ids, lengths and bytes.           *)
EXTENDS SerialGC

Standard(id, rtr, data) == [id |-> id, ext |-> FALSE, rtr |-> rtr, data |-> data]
Extended(id, rtr, data) == [id |-> id, ext |-> TRUE, rtr |-> rtr, data |-> data]

LimitFrames == {
  Standard(0, FALSE, <<>>), Standard(2047, FALSE, <<0, 255>>), Standard(1, TRUE, <<>>),
  Extended(2 ^ 29 - 1, FALSE, <<171, 0, 1, 2, 3, 4, 5, 160>>),
  Extended(2 ^ 18 + 2 ^ 17 + 1, TRUE, <<>>),
  Standard(2048, FALSE, <<>>), Extended(2 ^ 29, FALSE, <<>>),
  Standard(5, FALSE, <<1, 2, 3, 4, 5, 6, 7, 8, 9>>)}
=============================================================================
