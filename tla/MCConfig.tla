------------------------------ MODULE MCConfig ------------------------------
(***************************************************************************)
(* Values for the constants of EnvConfig that a .cfg cannot write down.    *)
(***************************************************************************)
EXTENDS EnvConfig

CONSTANTS A

Fresh == [Empty EXCEPT !.required = TRUE]

\* A file that requires a token and has none, with no account yet or with one, and
\* no secret.  The token comes from the launcher, or the user gives one or asks for
\* none; a secret comes from an edit or a save.
SomeFiles == {Fresh, [Fresh EXCEPT !.account = A]}
=============================================================================
