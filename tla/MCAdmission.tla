---------------------------- MODULE MCAdmission ----------------------------
(* Admission on a small instance: three connections from four hosts, the   *)
(* last of which is not allowed in.                                        *)
EXTENDS Admission

MCConns == 1..3
MCIps == 1..4
MCAllowed == 1..3

\* Nothing tells two connections apart, or two allowed addresses: one assignment of each class
\* under renaming, the connections sorted, the allowed addresses in order of first use.
Rank(client) == 2 * client.ip + IF client.via = "tcp" THEN 0 ELSE 1
MCClients ==
    {who \in [MCConns -> [ip : MCIps, via : {"tcp", "quic"}]] :
        /\ \A c \in 1..2 : Rank(who[c]) <= Rank(who[c + 1])
        /\ \A c \in MCConns : who[c].ip \in MCAllowed \ {1} =>
              \E d \in MCConns : who[d].ip = who[c].ip - 1}
=============================================================================
