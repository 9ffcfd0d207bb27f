------------------------------ MODULE MCDocSync ------------------------------
(* A finite instance of DocSync: one file whose texts define, redefine as  *)
(* another kind or drop a symbol, one file that refers to it.              *)
EXTENDS DocSync

CONSTANTS d, r, def, redef, ref, blank, n, none, Redefines

MCUris == {d, r}
MCEdited == {d}
MCContents == {def, redef, ref, blank}
MCSymbols == {<<n, "k1">>, <<n, "k2">>}
MCNameOf == [s \in MCSymbols |-> s[1]]
MCTextsOf == [u \in MCUris |->
  IF u = d THEN {def, blank} \cup (IF Redefines THEN {redef} ELSE {}) ELSE {ref}]
MCDefines == [c \in MCContents |->
  IF c = def THEN {<<n, "k1">>} ELSE IF c = redef THEN {<<n, "k2">>} ELSE {}]
MCMentions == [c \in MCContents |-> IF c = ref THEN {<<n, "k1">>} ELSE {}]
=============================================================================
