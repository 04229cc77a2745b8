------------------------------ MODULE MCNames ------------------------------
(***************************************************************************)
(* Names scaled down: a limit of 10, a prefix of 2 characters, checksums   *)
(* of one to three binary digits, and one letter that is no digit, 2.      *)
(* Names of 7 characters are the first to be shortened; the checksum keeps *)
(* two or three of them at either end.                                     *)
(***************************************************************************)
EXTENDS Names, SequencesExt

SmallPrefix == <<2, Dash>>
SmallNamespace == <<0>>

LongNames == {n \in [1..7 -> {0, 1, Dash}] :
                 n[1] # Dash /\ n[7] # Dash /\ n[4] # Dash /\ n[5] # Dash}
ShortNames == UNION {{n \in [1..l -> {0, 1, Dash}] : n[1] # Dash /\ n[l] # Dash} : l \in 1..4}
DottedNames == {<<0, Dot, 1>>, <<1, 0, 0, Dot, 1, 1, 0, 1>>}
LongestNames == {<<0, 1, 1, 0, 0, 1, 0, 1, 1, 0, 1, 0>>, <<0, 1, 1, 0, 1, 1, 0, 1, 1, 0, 1, 0>>,
                 <<0, 1, 2, 0, 2, 1, 0, 2, 1, 0, 1, 2>>}
SomeNames == LongNames \cup ShortNames \cup DottedNames \cup LongestNames

\* A checksum that depends on every character and collides now and then.
SmallHash(s) == FoldLeft(LAMBDA h, c : (3 * h + c + 2) % 8, 1, s)

=============================================================================
