---------------------------- MODULE IdentityData ----------------------------
(***************************************************************************)
(* What browser requests keep on disk for an identity of signond, and what *)
(* the daemon reads and removes of it (signonui-service.cpp,               *)
(* browser-request.cpp).  The two agree on names only: the browser uses    *)
(* id-<identity>-<provider>, the daemon takes the most recent directory    *)
(* that matches id-<identity>*.                                            *)
(***************************************************************************)
EXTENDS Naturals, Sequences, SequencesExt

CONSTANTS
  Identity,    \* identities: numbers, which the file names have in decimal
  ProviderOf,  \* identity -> its provider
  OldProvider, \* stands for the names without provider of older versions
  MaxLogins,   \* bound: logins
  NoCookies

ASSUME IdentityAssumption == MaxLogins \in Nat /\ NoCookies \notin Nat

VARIABLES
  logins,     \* logins so far; each leaves other cookies
  dirs,       \* the directories, most recent first: <<identity, provider>>
  cookieFile, \* directory -> the login whose cookies it has, or NoCookies
  latest,     \* identity -> its last login since its data were removed
  answered    \* what the last cookiesForIdentity() was asked and returned

identityVars == <<logins, dirs, cookieFile, latest, answered>>

Own(i) == <<i, ProviderOf[i]>>
DirName == {Own(i) : i \in Identity} \union (Identity \X {OldProvider})

\* Older versions may have left a directory, with cookies.
IdentityInit ==
  /\ logins = 0
  /\ dirs \in {<<>>} \union {<<<<i, OldProvider>>>> : i \in Identity}
  /\ cookieFile = [d \in DirName |-> IF d \in ToSet(dirs) THEN 0 ELSE NoCookies]
  /\ latest = [i \in Identity |-> NoCookies]
  /\ answered = <<>>

Exists(d) == d \in ToSet(dirs)
Position(d) == CHOOSE n \in DOMAIN dirs : dirs[n] = d
MovedUp(d) == <<d>> \o RemoveAt(dirs, Position(d))

\* start() makes the directory; the engine writes into it.
BrowserStart(i) ==
  /\ ~Exists(Own(i))
  /\ dirs' = <<Own(i)>> \o dirs
  /\ UNCHANGED <<logins, cookieFile, latest, answered>>

\* setCookies(): nothing is written if the directory has been removed since.
\* A new file makes the directory the most recent.
SetCookies(i) ==
  /\ logins < MaxLogins /\ Exists(Own(i))
  /\ logins' = logins + 1
  /\ dirs' = IF cookieFile[Own(i)] = NoCookies THEN MovedUp(Own(i)) ELSE dirs
  /\ cookieFile' = [cookieFile EXCEPT ![Own(i)] = logins']
  /\ latest' = [latest EXCEPT ![i] = logins']
  /\ UNCHANGED answered

\* The file name filter.
HasPrefix(j, i) == \E k \in 0 .. 9 : j \div 10 ^ k = i

\* rootDirForIdentity(): the positions in dirs that match.
Matching(i) == {n \in DOMAIN dirs : HasPrefix(dirs[n][1], i)}

\* A mutant of Chosen: the oldest.
Oldest(m) == CHOOSE n \in m : \A k \in m : k <= n

Chosen(m) == CHOOSE n \in m : \A k \in m : n <= k

RootDirForIdentity(i) == dirs[Chosen(Matching(i))]

RemoveIdentityData(i) ==
  /\ Matching(i) # {}
  /\ dirs' = RemoveAt(dirs, Chosen(Matching(i)))
  /\ cookieFile' = [cookieFile EXCEPT ![RootDirForIdentity(i)] = NoCookies]
  /\ latest' = [latest EXCEPT ![i] = NoCookies]
  /\ UNCHANGED <<logins, answered>>

CookiesForIdentity(i) ==
  /\ answered' = <<i, IF Matching(i) = {} THEN NoCookies ELSE cookieFile[RootDirForIdentity(i)],
                   latest[i]>>
  /\ UNCHANGED <<logins, dirs, cookieFile, latest>>

IdentityNext ==
  \E i \in Identity :
    BrowserStart(i) \/ SetCookies(i) \/ RemoveIdentityData(i) \/ CookiesForIdentity(i)

IdentitySpec == IdentityInit /\ [][IdentityNext]_identityVars

-----------------------------------------------------------------------------
IdentityTypeOK == \A d \in DirName : cookieFile[d] # NoCookies => Exists(d)

\* Once there was a login, signond gets the cookies of the last one of that
\* identity, whatever other identities do and older versions left.
CookiesAreLatest ==
  answered # <<>> /\ answered[3] \in 1 .. MaxLogins => answered[2] = answered[3]

\* What is removed is the data of the identity, all of it.
DataRemoved ==
  [][\A i \in Identity :
       RemoveIdentityData(i) =>
         {d[1] : d \in ToSet(dirs')} = {d[1] : d \in ToSet(dirs)} \ {i}]_identityVars

=============================================================================
