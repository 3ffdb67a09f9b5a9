------------------------------- MODULE MCParts -------------------------------
(***************************************************************************)
(* Model checking of the parts that are small and share no state with each *)
(* other: in a behaviour one of them runs, and the others stay in their    *)
(* initial state.                                                          *)
(***************************************************************************)
EXTENDS Ipc, LibaccountsService, OAuth, LoopbackServer, IdentityData,
        ApplicationManager

CONSTANTS
  Parts,  \* those that may run
  call1, call2, call3, call4, account1, google, yahoo

VARIABLE part  \* the one that does

partsVars == <<part, ipcVars, storeVars, oauth, loopbackVars, identityVars,
               appVars>>

Messages == <<2, 0, 3>>
Targets == [c \in StoreCall |-> IF c = call3 THEN NewAccount ELSE account1]
Applications == {<<"mail", "reader">>, <<"mail", "writer">>}
FileNames ==
  [a \in Applications |-> IF a[2] = "reader" THEN "short" ELSE "package"]
ServicesOf ==
  [a \in Applications |-> IF a[2] = "reader" THEN {"inbox", "search"} ELSE {a[2]}]
Providers == [i \in Identity |-> IF i = 1 THEN google ELSE yahoo]

\* Choices that are left to a part are made only when it runs.
PartsInit ==
  /\ part \in Parts
  /\ IpcInit /\ StoreInit /\ OAuthInit /\ LoopbackInit /\ IdentityInit /\ AppInit
  /\ part # "ipc" => ~throughFiles
  /\ part # "store" => ~sharing /\ loadable = {}
  /\ part # "oauth" => oauth.isNew
  /\ part # "loopback" => busy = {}
  /\ part # "identity" => dirs = <<>>

PartsNext ==
  /\ UNCHANGED part
  /\ \/ /\ part = "ipc" /\ IpcNext
        /\ UNCHANGED <<storeVars, oauth, loopbackVars, identityVars, appVars>>
     \/ /\ part = "store" /\ StoreNext
        /\ UNCHANGED <<ipcVars, oauth, loopbackVars, identityVars, appVars>>
     \/ /\ part = "oauth" /\ OAuthNext
        /\ UNCHANGED <<ipcVars, storeVars, loopbackVars, identityVars, appVars>>
     \/ /\ part = "loopback" /\ LoopbackNext
        /\ UNCHANGED <<ipcVars, storeVars, oauth, identityVars, appVars>>
     \/ /\ part = "identity" /\ IdentityNext
        /\ UNCHANGED <<ipcVars, storeVars, oauth, loopbackVars, appVars>>
     \/ /\ part = "applications" /\ AppNext
        /\ UNCHANGED <<ipcVars, storeVars, oauth, loopbackVars, identityVars>>

PartsSpec ==
  /\ PartsInit /\ [][PartsNext]_partsVars
  /\ part = "ipc" => IpcFairness
  /\ part = "store" => StoreFairness
  /\ part = "oauth" => OAuthFairness

=============================================================================
