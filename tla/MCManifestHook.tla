--------------------------- MODULE MCManifestHook ---------------------------
(***************************************************************************)
(* Instances of ManifestHook.  "mail" has a plugin, hence accounts of its  *)
(* own; "mailbox", whose name starts with "mail", has services for those   *)
(* accounts and, in its first version, for the accounts of "web".          *)
(***************************************************************************)
EXTENDS ManifestHook

CONSTANTS mail, mailbox, web, acct1, acct2

Services == [h \in App \X Version |->
  IF h[1] = mail THEN {} ELSE IF h[2] = 1 THEN {web, mail} ELSE {mail}]

\* Here "mail" has a service for its accounts, too.
BothHaveServices == [h \in App \X Version |-> {mail}]

Plugins == [h \in App \X Version |-> h[1] = mail]
AccountProviders == [a \in Account |-> mail]
OwnPrefix == [app \in App |-> {app}]
SharedPrefix == [app \in App |-> IF app = mail THEN {mail, mailbox} ELSE {mailbox}]

=============================================================================
