------------------------- MODULE LibaccountsService -------------------------
(***************************************************************************)
(* AccountManager.store() of the daemon (libaccounts-service.cpp), through *)
(* which confined plugins write accounts.  The reply is delayed until the  *)
(* Account object that has the changes emits synced() or error(): meant-   *)
(* while m_pendingWrites has the caller, with the object as its key, and   *)
(* further calls are served.  Whether Manager::account() returns an object *)
(* that exists already is up to libaccounts-qt: both are modelled.         *)
(***************************************************************************)
EXTENDS Naturals, Sequences

CONSTANTS
  StoreCall,     \* the D-Bus calls, each made once
  StoredAccount, \* accounts they may be about
  Target,        \* call -> its account, or NewAccount when "created" is set
  NewAccount,
  Intruder,      \* calls from a peer whose profile is not the provider's
  NoCaller,
  SharesObjects  \* may objects be shared? a set of Booleans

ASSUME StoreAssumption ==
  /\ Target \in [StoreCall -> StoredAccount \union {NewAccount}]
  /\ NewAccount \notin StoredAccount /\ NoCaller \notin StoreCall
  /\ StoreCall \intersect StoredAccount = {} /\ Intruder \subseteq StoreCall
  /\ SharesObjects \subseteq BOOLEAN

VARIABLES
  sharing,       \* does Manager::account() return the object that exists?
  loadable,      \* accounts that account() can load
  callState,     \* call -> "none", "held" (reply delayed), "lost"
  pendingWrites, \* m_pendingWrites: object -> the call, or NoCaller
  syncs,         \* object -> the calls whose sync() is under way, in order
  connections,   \* object -> times onAccountSynced() is connected
  dying,         \* objects that wait for their deleteLater()
  storedCalls,   \* calls whose changes are in the database
  storeReplies   \* call -> its replies

storeVars == <<sharing, loadable, callState, pendingWrites, syncs, connections, dying,
               storedCalls, storeReplies>>

Object == StoreCall \union StoredAccount

StoreInit ==
  /\ sharing \in SharesObjects /\ loadable \in SUBSET StoredAccount
  /\ callState = [c \in StoreCall |-> "none"]
  /\ pendingWrites = [o \in Object |-> NoCaller]
  /\ syncs = [o \in Object |-> <<>>] /\ connections = [o \in Object |-> 0]
  /\ dying = {} /\ storedCalls = {}
  /\ storeReplies = [c \in StoreCall |-> <<>>]

\* A new account, or one that is not shared, has an object of its own.
ObjectOf(c) == IF sharing /\ Target[c] # NewAccount THEN Target[c] ELSE c

Answer(c, reply) == storeReplies' = [storeReplies EXCEPT ![c] = Append(@, reply)]

\* stripVersion() of the peer's profile is not the provider.
AccessDenied(c) ==
  /\ callState[c] = "none" /\ c \in Intruder
  /\ callState' = [callState EXCEPT ![c] = "held"]
  /\ Answer(c, "denied")
  /\ UNCHANGED <<sharing, loadable, pendingWrites, syncs, connections, dying, storedCalls>>

\* The account cannot be loaded: writeChanges() returns, without a reply.
Unloadable(c) ==
  /\ callState[c] = "none" /\ c \notin Intruder
  /\ Target[c] # NewAccount /\ Target[c] \notin loadable
  /\ callState' = [callState EXCEPT ![c] = "lost"]
  /\ UNCHANGED <<sharing, loadable, pendingWrites, syncs, connections, dying, storedCalls, storeReplies>>

\* The changes are set on the account, and sync() starts to write them.
WriteChanges(c) ==
  LET o == ObjectOf(c) IN
  /\ callState[c] = "none" /\ c \notin Intruder
  /\ Target[c] \in loadable \union {NewAccount}
  /\ callState' = [callState EXCEPT ![c] = "held"]
  /\ pendingWrites' = [pendingWrites EXCEPT ![o] = c]
  /\ connections' = [connections EXCEPT ![o] = @ + 1]
  /\ syncs' = [syncs EXCEPT ![o] = Append(@, c)]
  /\ UNCHANGED <<sharing, loadable, dying, storedCalls, storeReplies>>

\* Mutants of Erased: the pending write is left in m_pendingWrites; all go.
NotErased(o) == pendingWrites
AllErased(o) == [p \in Object |-> NoCaller]

Erased(o) == [pendingWrites EXCEPT ![o] = NoCaller]

Pending(o) == pendingWrites[o]

\* The first sync() of the object ends; onAccountSynced() or onAccountError()
\* runs once for each connection, but finds the call only the first time.
OnAccountSynced(o, reply) ==
  /\ syncs[o] # <<>> /\ connections[o] > 0
  /\ storedCalls' = IF reply = "stored" THEN storedCalls \union {Head(syncs[o])} ELSE storedCalls
  /\ syncs' = [syncs EXCEPT ![o] = Tail(@)]
  /\ dying' = dying \union {o}
  /\ IF Pending(o) # NoCaller THEN Answer(Pending(o), reply) ELSE UNCHANGED storeReplies
  /\ pendingWrites' = Erased(o)
  /\ UNCHANGED <<sharing, loadable, callState, connections>>

\* deleteLater(): what the object was writing is written, but no one is told.
\* A pending write keeps its key, which a later object may have as address.
DeleteAccount(o) ==
  /\ o \in dying
  /\ dying' = dying \ {o}
  /\ connections' = [connections EXCEPT ![o] = 0]
  /\ storedCalls' = storedCalls \union {syncs[o][i] : i \in DOMAIN syncs[o]}
  /\ syncs' = [syncs EXCEPT ![o] = <<>>]
  /\ UNCHANGED <<sharing, loadable, callState, pendingWrites, storeReplies>>

\* Another program removes an account.
AccountRemoved(a) ==
  /\ a \in loadable /\ loadable' = loadable \ {a}
  /\ UNCHANGED <<sharing, callState, pendingWrites, syncs, connections, dying, storedCalls, storeReplies>>

StoreNext ==
  \/ \E c \in StoreCall : AccessDenied(c) \/ Unloadable(c) \/ WriteChanges(c)
  \/ \E o \in Object : \/ \E reply \in {"stored", "error"} : OnAccountSynced(o, reply)
                       \/ DeleteAccount(o)
  \/ \E a \in StoredAccount : AccountRemoved(a)

\* libaccounts ends every write, and the event loop runs.
StoreFairness ==
  \A o \in Object : /\ WF_storeVars(\E reply \in {"stored", "error"} : OnAccountSynced(o, reply))
                    /\ WF_storeVars(DeleteAccount(o))

StoreSpec == StoreInit /\ [][StoreNext]_storeVars /\ StoreFairness

-----------------------------------------------------------------------------
StoreTypeOK ==
  /\ callState \in [StoreCall -> {"none", "held", "lost"}]
  /\ pendingWrites \in [Object -> StoreCall \union {NoCaller}]
  /\ storeReplies \in [StoreCall -> Seq({"denied", "stored", "error"})]
  /\ storedCalls \subseteq StoreCall \ Intruder

\* No call has a second reply, even when two share an Account object, whose
\* signals are then connected twice.
RepliedOnce == \A c \in StoreCall : Len(storeReplies[c]) <= 1

\* With objects of their own, callers are told of their own write only: the
\* changes of a call that is answered with an account are in the database.
StoredWhenToldSo ==
  ~sharing => \A c \in StoreCall : storeReplies[c] = <<"stored">> => c \in storedCalls

\* Every call is answered, whatever else happens to its account meanwhile.
StoreAnswered ==
  \A c \in StoreCall : callState[c] # "none" ~> storeReplies[c] # <<>>

\* The same, for the calls whose account could be loaded, when objects are
\* not shared.
LoadedIsAnswered ==
  \A c \in StoreCall : (callState[c] = "held" /\ ~sharing) ~> storeReplies[c] # <<>>

=============================================================================
