---------------------------- MODULE MCConnection ----------------------------
(* Connection with the mixes of calls that interact. Each call           *)
(* is one of a pair once, since calls differ in nothing else.              *)
EXTENDS Connection

CONSTANTS a, c1, c2

Mixes == {<<"select", "mutate">>, <<"mutate", "release">>,
          <<"read", "shutdown">>, <<"acquire", "release">>}

MCWorkloads == {[c \in {c1, c2} |-> IF c = c1 THEN m[1] ELSE m[2]] : m \in Mixes}

\* b may start at once, so this stands for every set that is not empty.
MCLaunched == {{a}}

=============================================================================
