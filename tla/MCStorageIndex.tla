----------------------------- MODULE MCStorageIndex -----------------------------
(***************************************************************************)
(* Constants of StorageIndex for TLC: a file outside and one inside the     *)
(* folders doc and docs, and a user without an account who has left files.  *)
(***************************************************************************)
EXTENDS StorageIndex

CONSTANTS c1, c2

MCCallers == {c1, c2}
MCUsers == {"ann", "gone"}
MCAccounts == {"ann"}
MCNameList == <<<<"a">>, <<"doc">>, <<"doc", ".init">>, <<"doc", "a">>,
                <<"docs">>, <<"docs", ".init">>, <<"docs", "a">>>>
MCBatches == {<<<<"a">>, <<"doc", "a">>>>}
MCMoves == {<<<<"a">>, <<"doc", "a">>>>, <<<<"a">>, <<"a">>>>}
MCRenames == {<<<<"a">>, <<"doc", "a">>>>, <<<<"doc">>, <<"docs">>>>}
MCFolders == {<<"doc">>}
MCStores == {[files |-> {<<"a">>, <<"docs", "a">>}, folders |-> {}, gallery |-> {<<"a">>}],
             [files |-> {<<"doc", "a">>}, folders |-> {}, gallery |-> {<<"doc", "a">>}]}
MCTextPrefixes == {<<"doc", "docs">>}
MCSymmetry == {[c \in MCCallers |-> c], [c \in MCCallers |-> IF c = c1 THEN c2 ELSE c1]}
===============================================================================
