--------------------------- MODULE MCURLTestGroup ---------------------------
(* Model-checking instance of URLTestGroup: two members, of which one has   *)
(* no UDP.  Either may be faster, by the tolerance or by more, or answer in *)
(* no time.  Dials come one after another, as many as there may be.         *)
EXTENDS URLTestGroup

MCMembers == <<"o1", "o2">>
MCSupports == [o \in {"o1", "o2"} |-> IF o = "o1" THEN {"tcp", "udp"} ELSE {"tcp"}]
MCDelays == [o \in {"o1", "o2"} |-> IF o = "o1" THEN {0, 1, 4} ELSE {0, 2, 3}]
=============================================================================
