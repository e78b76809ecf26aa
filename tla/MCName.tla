------------------------------- MODULE MCName -------------------------------
(* Name with integers of 2, 3, 4 and 5 bits, so that 7 is (uint16_t) -1. *)
EXTENDS Name, TLC

CONSTANTS a1, a2

MCHalf == (8 :> 2) @@ (16 :> 4) @@ (32 :> 8) @@ (64 :> 16)
MCUnit == [KB |-> 2, MB |-> 4, GB |-> 8, TB |-> 16, PB |-> 32]

Plain(n, tail) ==
    [minus |-> n < 0, num |-> [b \in Bases |-> IF n < 0 THEN -n ELSE n], tail |-> [b \in Bases |-> tail],
     lead |-> CASE tail \in {"KB", "KBx"} -> "KB" [] tail \in {"GB", "GBfoo"} -> "GB" [] OTHER -> ""]

\* Decimal texts up to twice the largest integer, suffixes, "-0", "010" (with
\* eight for ten) and "0x10".
MCTexts ==
    {Plain(n, "") : n \in -66 .. 66}
    \cup {Plain(n, tail) : n \in {-1, 0, 3, 9, 20, 31, 40},
                           tail \in {"s", "sec", "%", "x", "KB", "KBx", "GB", "GBfoo", "PB"}}
    \cup {[Plain(0, "") EXCEPT !.minus = TRUE],
          [Plain(0, "") EXCEPT !.num = (0 :> 3) @@ (10 :> 4)],
          [Plain(0, "") EXCEPT !.num = (0 :> 9) @@ (10 :> 0), !.tail = (0 :> "") @@ (10 :> "x10")]}

\* The port is missing, in range, 65535, -1, too large or no number.
MCPorts == {NULL} \cup {Plain(n, "") : n \in {0, 3, 7, -1, 11}} \cup {Plain(0, "x")}

\* What the families depend on, and what the ports do.
MCOptions ==
    {[family |-> f, remote_host |-> h, connect_path |-> p, listen_path |-> p, bind_path |-> q,
      bind_address |-> b, remote_port |-> NULL, listen_port |-> NULL] :
        f \in {NULL, "other"} \cup DOMAIN FamilyNames, h \in BOOLEAN,
        p \in {NULL, "fits", "long"}, q \in {NULL, "fits", "long"}, b \in BOOLEAN}
    \cup {[family |-> "inet", remote_host |-> TRUE, connect_path |-> NULL, listen_path |-> NULL,
           bind_path |-> NULL, bind_address |-> FALSE, remote_port |-> s, listen_port |-> t] :
             s \in MCPorts, t \in MCPorts}

\* Host addresses are interchangeable.
Symmetry == Permutations({a1, a2})
=============================================================================
