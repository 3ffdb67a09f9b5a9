----------------------------- MODULE MCFileHook -----------------------------
(***************************************************************************)
(* Instances of FileHook: one or two packages with a provider file, which  *)
(* has an account each, and a service file.                                *)
(***************************************************************************)
EXTENDS FileHook

CONSTANTS mail, web, acct1, acct2

AccountProviders == [a \in Account |-> IF a = acct1 THEN mail ELSE web]
BadService == {<<[type |-> "service", app |-> mail], 2>>}

=============================================================================
