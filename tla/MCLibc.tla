------------------------------- MODULE MCLibc -------------------------------
(* Libc for TLC: the formats of at most two directives, and two long ones.  *)
EXTENDS Libc

Pairs == {f \in Directives \X Directives :
            f[1] \in {"s", "ll"} /\ ~(f[2] \in {"d", "u", "x", "lld", "llu"} /\ f[1] = "ll")}
FewFormats ==
    {<< >>} \cup {<<d>> : d \in Directives} \cup Pairs
        \cup {<<"s", "c", "unknown", "%%", "ll">>, <<"unknown", "d", "s">>}
=============================================================================
