------------------------------ MODULE MCUpdate ------------------------------
(* A release 1 and a pre-release 2-rc; packages of two blocks, and a longer    *)
(* file under the same name.                                                  *)
EXTENDS UpdateInstall, TLC

V1   == <<<<1, 0>>>>
V2rc == <<<<2, 1>>>>

MCVersions  == {V1, V2rc}
MCPublished == [v \in MCVersions |-> IF v = V1 THEN <<"a", "b">> ELSE <<"c", "d">>]
MCStrays    == {<<"x", "y", "z">>}
MCNoted     == {<<2, V2rc>>}
Symmetry    == Permutations(Procs)
MCFiles     == <<"CommBox.exe", "README-Windows.txt">>

ASSUME MCUnmixable == Unmixable
=============================================================================
