------------------------------ MODULE MCKeyNames ------------------------------
(***************************************************************************)
(* Releases and their keys for TLC.                                        *)
(***************************************************************************)
CONSTANTS r1, r2, r3, k1, k2, k3

(* Each release renames the one word.                                      *)
MCKeysIn == [rel \in {r1, r2, r3} |-> CASE rel = r1 -> {k1} [] rel = r2 -> {k2} [] OTHER -> {k3}]

(* The second release presents the word under both names.                  *)
MCKeysAgain == [rel \in {r1, r2} |-> IF rel = r1 THEN {k1} ELSE {k1, k2}]

(* A word under one name, under two of them, and under a third.            *)
MCOffered == [rel \in {r1, r2, r3} |->
                CASE rel = r1 -> {k1} [] rel = r2 -> {k1, k2} [] OTHER -> {k3}]
==============================================================================
