---------------------------- MODULE MCDeliverSm ----------------------------
(* DeliverSm for TLC: which kinds of message the server has.                *)
EXTENDS DeliverSm

Kind(p, f, n, c) == [pdu |-> p, field |-> f, len |-> n, data_coding |-> c]

\* Lengths on both sides of every limit: none, odd, even.
Good == {Kind("good", "short", 1, 0), Kind("good", "short", 1, 8), Kind("good", "short", 2, 8)}
        \cup {Kind("good", "payload", n, c) : n \in {0, 2}, c \in {0, 8}}
Textless == {Kind("good", "none", 0, c) : c \in {0, 8}}
AnyKind == Good \cup Textless \cup {Kind("good", "short", 2, 4)}

\* What is not answered, and what is not read.
Unanswered == {Kind("garbled", "short", 2, 8), Kind("long", "payload", 2, 8)}

\* One message of any kind, and plain ones.
Special == CHOOSE m \in Messages : TRUE
OneOfAnyKind ==
  [m \in Messages |-> IF m = Special THEN AnyKind \cup Unanswered
                     ELSE {Kind("good", "short", 1, 0)}]
=============================================================================
