-------------------------- MODULE MCConfigRuntime --------------------------
(* One process in full, which administers and rotates, beside others that    *)
(* write.                                                                    *)
EXTENDS ConfigRuntime
CONSTANTS P1, Code, Chat

MCProc == {P1}
MCEarly == {"providers"}
MCLate == {"oauth_credentials"}
MCPool == {Code, Chat}
=============================================================================
