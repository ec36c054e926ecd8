------------------------------ MODULE LoginProofs ------------------------------
(* Which keys the program uses, for any accounts, passwords and local key sets. *)
(* What matters of the vault is whose master keys it holds (VaultOK); from it   *)
(* follows that one name of a database always goes with one master key (DbOK).  *)
EXTENDS Login, TLAPS, FiniteSetTheorems

LocalList(n) == <<[of |-> n, IsLatest |-> TRUE, Version |-> 1]>>

(* The master key a program that opens the pair id uses *)
KeyFor(id) == IF id \in 1..MaxLocal THEN LocalList(id)[1] ELSE MasterKey(id, TRUE)

(* The master keys of a vault are of one pair; after a browser login they are   *)
(* those of the account whose session was saved.                                *)
VaultOK ==
    vault # NoVault =>
        /\ vault.method = "browser" =>
               vault.masterKeys = Absent \/ vault.masterKeys \in MasterLists(vault.uid)
        /\ \/ vault.masterKeys = Absent
           \/ \E a \in Names : vault.masterKeys \in MasterLists(a)
           \/ \E n \in 1..generated : vault.masterKeys = LocalList(n)

(* No database is named after a pair that was not generated yet. *)
DbOK ==
    /\ db \in [KeyIds -> MasterKeyType]
    /\ \A id \in KeyIds : db[id] # NoMaster => db[id] = KeyFor(id)
    /\ \A n \in generated + 1..MaxLocal : db[n] = NoMaster

AppOK ==
    /\ SyncKeysAreTheAccounts
    /\ app.store = "primary" => app.name \in KeyIds /\ app.key = KeyFor(app.name)
    /\ LocalDataReadable

KeysOK ==
    /\ generated \in 0..MaxLocal
    /\ config \in [enableSync : BOOLEAN, useFallbackStore : BOOLEAN]
    /\ VaultOK /\ DbOK /\ AppOK

-----------------------------------------------------------------------------
(* Which master key is used *)

LEMMA EntryOfOne == ASSUME NEW a PROVE masterKeyEntry(<<a>>) = a
<1>1. Tail(<<a>>) = <<>> /\ Head(<<a>>) = a /\ DOMAIN <<>> = {}
  OBVIOUS
<1> DEFINE step(iter, s) == IF s = {} THEN a
                            ELSE LET x == Max(s)
                                 IN  IF Better(iter[s \ {x}], <<>>[x]) THEN <<>>[x]
                                     ELSE iter[s \ {x}]
           g == [s \in SUBSET {} |-> a]
<1>2. g = [s \in SUBSET {} |-> step(g, s)]
  OBVIOUS
<1> QED  BY <1>1, <1>2 DEF masterKeyEntry, FoldLeft, MapThenFoldSet

LEMMA EntryOfTwo ==
    ASSUME NEW a, NEW b
    PROVE  masterKeyEntry(<<a, b>>) = IF Better(a, b) THEN b ELSE a
<1>1. Tail(<<a, b>>) = <<b>> /\ Head(<<a, b>>) = a /\ DOMAIN <<b>> = {1} /\ <<b>>[1] = b
  OBVIOUS
<1>2. Max({1}) = 1
  BY DEF Max
<1> DEFINE step(iter, s) == IF s = {} THEN a
                            ELSE LET x == Max(s)
                                 IN  IF Better(iter[s \ {x}], <<b>>[x]) THEN <<b>>[x]
                                     ELSE iter[s \ {x}]
           g == [s \in SUBSET {1} |-> IF s = {} THEN a ELSE IF Better(a, b) THEN b ELSE a]
           h == CHOOSE h : h = [s \in SUBSET {1} |-> step(h, s)]
<1>3. \A s \in SUBSET {1} : s = {} \/ s = {1}
  OBVIOUS
<1>4. {1} \ {1} = {} /\ {1} # {} /\ {} \in SUBSET {1} /\ {1} \in SUBSET {1}
  OBVIOUS
<1>5. g[{}] = a /\ g[{1}] = IF Better(a, b) THEN b ELSE a
  BY <1>4
<1>6. \A f : step(f, {}) = a
  OBVIOUS
<1>7. \A f : f[{}] = a => step(f, {1}) = IF Better(a, b) THEN b ELSE a
  BY <1>1, <1>2, <1>4
<1>8. g = [s \in SUBSET {1} |-> step(g, s)]
  <2>1. g = [s \in SUBSET {1} |-> g[s]]
    OBVIOUS
  <2> HIDE DEF step, g
  <2>2. \A s \in SUBSET {1} : g[s] = step(g, s)
    BY <1>3, <1>5, <1>6, <1>7
  <2> QED  BY <2>1, <2>2, Zenon
<1>9. h = [s \in SUBSET {1} |-> step(h, s)]
  <2> HIDE DEF step, g
  <2> QED  BY <1>8
<1>10. h[{1}] = IF Better(a, b) THEN b ELSE a
  <2> HIDE DEF step, h
  <2>1. h[{}] = a
    BY <1>9, <1>6, <1>4
  <2> QED  BY <2>1, <1>9, <1>7, <1>4
<1> QED  BY <1>1, <1>10 DEF masterKeyEntry, FoldLeft, MapThenFoldSet

LEMMA EntryOfAccount ==
    ASSUME NEW a, NEW list \in MasterLists(a)
    PROVE  masterKeyEntry(list) = MasterKey(a, TRUE) /\ list # Absent
  BY EntryOfTwo DEF MasterLists, MasterKey, Better, Absent

LEMMA EntryOfLocal ==
    ASSUME NEW n PROVE masterKeyEntry(LocalList(n)) = LocalList(n)[1] /\ LocalList(n) # Absent
  BY EntryOfOne DEF LocalList, Absent

LEMMA EntryOfVault ==
    ASSUME LoginBounds, VaultOK, generated \in 0..MaxLocal, vault # NoVault, NEW kp, NEW key,
           Opens(kp, key, vault.masterKeys)
    PROVE  /\ key.id \in KeyIds /\ key.id \in Names \cup 1..generated
           /\ masterKeyEntry(vault.masterKeys) = KeyFor(key.id)
<1>1. CASE \E a \in Names : vault.masterKeys \in MasterLists(a)
  <2> PICK a \in Names : vault.masterKeys \in MasterLists(a)  BY <1>1
  <2>1. masterKeyEntry(vault.masterKeys) = MasterKey(a, TRUE)  BY EntryOfAccount
  <2>2. key.id = a  BY <2>1 DEF Opens, MasterKey
  <2> QED  BY <2>1, <2>2, LoginBounds DEF KeyFor, KeyIds
<1>2. CASE \E n \in 1..generated : vault.masterKeys = LocalList(n)
  <2> PICK n \in 1..generated : vault.masterKeys = LocalList(n)  BY <1>2
  <2>1. masterKeyEntry(vault.masterKeys) = LocalList(n)[1]  BY EntryOfLocal
  <2>2. key.id = n  BY <2>1 DEF Opens, LocalList
  <2>3. n \in 1..MaxLocal  BY LoginBounds
  <2> QED  BY <2>1, <2>2, <2>3 DEF KeyFor, KeyIds
<1> QED  BY <1>1, <1>2 DEF VaultOK, Opens

LEMMA SyncEntry ==
    ASSUME VaultOK, vault # NoVault, vault.method = "browser", vault.masterKeys # Absent
    PROVE  LET key == masterKeyEntry(vault.masterKeys) IN key.of = vault.uid /\ key.IsLatest
<1>1. vault.masterKeys \in MasterLists(vault.uid)  BY DEF VaultOK
<1> QED  BY <1>1, EntryOfAccount DEF MasterKey

LEMMA KeyForType ==
    ASSUME LoginBounds, NEW id \in KeyIds
    PROVE  KeyFor(id) \in MasterKeyType /\ KeyFor(id) # NoMaster /\ KeyFor(id).of = id
  BY LoginBounds DEF KeyFor, KeyIds, MasterKeyType, MasterKey, LocalList, NoMaster

-----------------------------------------------------------------------------
(* Whose keys a browser login takes *)

LEMMA ListingNames ==
    ASSUME AccountsAssumption, NEW list \in Listings
    PROVE  list \in Seq(Names)
<1>1. IsFiniteSet(Names)
  <2>1. Accounts \in Surjection(1..Len(Accounts), Names)
    BY AccountsAssumption DEF Names, Surjection, Range
  <2> QED  BY <2>1, FS_Surjection, FS_Interval, AccountsAssumption
<1>2. \A S \in SUBSET Names : SetToSeq(S) \in Seq(Names)
  <2> TAKE S \in SUBSET Names
  <2>1. IsFiniteSet(S) /\ Cardinality(S) \in Nat /\ ExistsBijection(1..Cardinality(S), S)
    BY <1>1, FS_Subset, FS_CardinalityType
  <2>2. \E f \in [1..Cardinality(S) -> S] : IsInjective(f)
    BY <2>1 DEF ExistsBijection, Bijection, Injection
  <2>3. SetToSeq(S) \in [1..Cardinality(S) -> S]
    BY <2>2 DEF SetToSeq
  <2> QED  BY <2>1, <2>3
<1>3. \A s \in Seq(Names) : Reverse(s) \in Seq(Names)
  BY DEF Reverse
<1> QED  BY <1>2, <1>3 DEF Listings

LEMMA SavedMasterKeys ==
    ASSUME AccountsAssumption, NEW sync \in BOOLEAN, NEW t \in Extractions[sync],
           t.masterKeys # NoAccount
    PROVE  t.masterKeys = t.uid /\ t.masterKeys \in Names
<1>1. PICK b \in Browsers : Succeeds(b) /\ t = extractBrowserTokens(b, sync)
  BY DEF Extractions
<1>2. keyPassword(b) # NoAccount /\ masterKeys(b) # NoAccount /\ t.masterKeys = masterKeys(b)
      /\ t.uid = outputUid(b)
  BY <1>1 DEF extractBrowserTokens, masterKeys
<1>3. persistedSession(b) # NoAccount
  BY <1>2 DEF keyPassword
<1>4. t.masterKeys = t.uid
  BY <1>2, <1>3 DEF masterKeys, outputUid
<1>5. b.lumo \in Seq(Names)
  BY ListingNames DEF Browsers
<1>6. \A s : CookieOf(b.lumo, s) \in Names \cup {NoAccount}
  BY <1>5 DEF CookieOf, Range
<1>7. primaryLumoAuthCookie(b) \in Names \cup {NoAccount}
  BY <1>5, <1>6 DEF primaryLumoAuthCookie, FirstOf
<1> QED  BY <1>2, <1>4, <1>6, <1>7 DEF masterKeys, Or

-----------------------------------------------------------------------------
(* The steps *)

LEMMA InitKeysOK == ASSUME LoginBounds, Init PROVE KeysOK
<1>1. NoMaster \in MasterKeyType
  BY DEF NoMaster, MasterKeyType
<1>2. generated + 1..MaxLocal \subseteq KeyIds
  BY LoginBounds DEF Init, KeyIds
<1>3. DbOK
  BY <1>1, <1>2 DEF Init, DbOK
<1> QED  BY <1>3, LoginBounds DEF Init, KeysOK, VaultOK, AppOK, Stopped,
            SyncKeysAreTheAccounts, LocalDataReadable

LEMMA BrowserKeeps ==
    ASSUME AccountsAssumption, LoginBounds, KeysOK, runBrowserAuthentication PROVE KeysOK'
<1>1. PICK t \in Extractions[config.enableSync] :
         /\ \E masters \in IF t.masterKeys = NoAccount THEN {Absent} ELSE MasterLists(t.masterKeys) :
               vault' = [method |-> "browser", uid |-> t.uid,
                         keyPassword |-> PasswordOf(t.keyPassword),
                         userKey |-> KeyOf(t.userKeys), masterKeys |-> masters]
         /\ UNCHANGED <<password, generated, config, app, db>>
  BY DEF runBrowserAuthentication
<1>2. CASE t.masterKeys = NoAccount
  <2>1. VaultOK'  BY <1>1, <1>2 DEF VaultOK
  <2> QED  BY <2>1, <1>1 DEF KeysOK, DbOK, AppOK, SyncKeysAreTheAccounts, LocalDataReadable
<1>3. CASE t.masterKeys # NoAccount
  <2>1. t.masterKeys = t.uid /\ t.masterKeys \in Names
    BY <1>3, SavedMasterKeys DEF KeysOK
  <2>2. VaultOK'  BY <1>1, <1>3, <2>1 DEF VaultOK
  <2> QED  BY <2>2, <1>1 DEF KeysOK, DbOK, AppOK, SyncKeysAreTheAccounts, LocalDataReadable
<1> QED  BY <1>2, <1>3

LEMMA LocalKeeps ==
    ASSUME LoginBounds, KeysOK, NEW method, NEW kp, method # "browser",
           runLocalAuthentication(method, kp)
    PROVE  KeysOK'
<1>1. UNCHANGED <<app, db, config>>
  BY DEF runLocalAuthentication
<1>2. PICK read \in BOOLEAN :
         LET generate == existing(read).userKey = NoKey
             keys == IF generate THEN generateLocalKeys(kp, generated + 1) ELSE existing(read)
         IN  /\ generate => generated < MaxLocal
             /\ vault' = [method |-> method, uid |-> kp.acc, keyPassword |-> kp,
                          userKey |-> keys.userKey, masterKeys |-> keys.masterKeys]
             /\ generated' = IF generate THEN generated + 1 ELSE generated
  BY DEF runLocalAuthentication
<1>3. CASE existing(read).userKey = NoKey
  <2>1. generated < MaxLocal /\ generated' = generated + 1
    BY <1>2, <1>3
  <2>2. vault'.method = method /\ vault'.masterKeys = LocalList(generated + 1)
    BY <1>2, <1>3 DEF generateLocalKeys, LocalList
  <2>3. generated' \in 1..MaxLocal /\ generated' \in 1..generated'
    BY <2>1, LoginBounds DEF KeysOK
  <2>4. VaultOK'
    BY <2>1, <2>2, <2>3 DEF VaultOK
  <2>5. DbOK'
    <3>1. \A n \in generated' + 1..MaxLocal : n \in generated + 1..MaxLocal
      BY <2>1, <2>3, LoginBounds DEF KeysOK
    <3> QED  BY <1>1, <3>1 DEF KeysOK, DbOK
  <2> QED  BY <1>1, <2>3, <2>4, <2>5 DEF KeysOK, AppOK, SyncKeysAreTheAccounts, LocalDataReadable
<1>4. CASE existing(read).userKey # NoKey
  <2>1. vault # NoVault /\ generated' = generated /\ existing(read).masterKeys = vault.masterKeys
    BY <1>2, <1>4 DEF existing, Nothing
  <2>2. vault'.method = method /\ vault'.masterKeys = vault.masterKeys
    BY <1>2, <1>4, <2>1
  <2>3. VaultOK'
    BY <2>1, <2>2 DEF VaultOK, KeysOK
  <2> QED  BY <1>1, <2>1, <2>3 DEF KeysOK, DbOK, AppOK, SyncKeysAreTheAccounts, LocalDataReadable
<1> QED  BY <1>3, <1>4

LEMMA PrimaryKeeps ==
    ASSUME LoginBounds, KeysOK, vault # NoVault, PrimaryStarts, initializePrimaryStore,
           UNCHANGED <<vault, generated, config>>
    PROVE  KeysOK'
<1> DEFINE key == masterKeyEntry(vault.masterKeys)
           name == vault.userKey.id
<1>1. /\ name \in KeyIds /\ key = KeyFor(name) /\ vault.masterKeys # Absent
      /\ name \in Names \cup 1..generated
  BY EntryOfVault DEF PrimaryStarts, Opens, KeysOK
<1>2. /\ app' = [store |-> "primary", sync |-> supportsFullApi, uid |-> vault.uid,
                 key |-> key, name |-> name]
      /\ db' = [db EXCEPT ![name] = IF @ = NoMaster THEN key ELSE @]
  BY DEF initializePrimaryStore, getUserId
<1>3. supportsFullApi => key.of = vault.uid /\ key.IsLatest
  BY <1>1, SyncEntry DEF supportsFullApi, KeysOK
<1>4. key \in MasterKeyType /\ key # NoMaster
  BY <1>1, KeyForType
<1> HIDE DEF key, name
<1>5. DbOK' /\ db'[name] = key
  <2>1. db'[name] = key /\ db' \in [KeyIds -> MasterKeyType]
        /\ \A id \in KeyIds : id # name => db'[id] = db[id]
    BY <1>1, <1>2, <1>4 DEF DbOK, KeysOK
  <2>2. \A n \in generated + 1..MaxLocal : n \in KeyIds /\ n # name
    <3> SUFFICES ASSUME NEW n \in generated + 1..MaxLocal PROVE n \in KeyIds /\ n # name
      OBVIOUS
    <3>1. n \in 1..MaxLocal /\ n \notin 1..generated
      BY LoginBounds DEF KeysOK
    <3> QED  BY <1>1, <3>1, LoginBounds DEF KeyIds
  <2> QED  BY <1>1, <2>1, <2>2 DEF DbOK, KeysOK
<1>6. AppOK'
  BY <1>1, <1>2, <1>3, <1>5 DEF AppOK, SyncKeysAreTheAccounts, LocalDataReadable
<1> QED  BY <1>5, <1>6 DEF KeysOK, VaultOK

LEMMA SyncKeeps ==
    ASSUME LoginBounds, KeysOK, vault # NoVault, initializeSync, UNCHANGED <<vault, generated, config>>
    PROVE  KeysOK'
<1>1. PICK key \in UserKeySources, list \in MasterKeySources :
          LET on == config.enableSync /\ ~getSyncWarning /\ Opens(vault.keyPassword, key, list)
          IN  app' = [store |-> "fallback", sync |-> on, uid |-> vault.uid,
                      key |-> IF on THEN masterKeyEntry(list) ELSE NoMaster,
                      name |-> NoAccount]
  BY DEF initializeSync
<1>2. ASSUME ~getSyncWarning, list # Absent
      PROVE  masterKeyEntry(list).of = vault.uid /\ masterKeyEntry(list).IsLatest
  <2>1. vault.method = "browser"  BY <1>2 DEF getSyncWarning, supportsFullApi
  <2>2. list \in MasterLists(vault.uid)
    BY <1>1, <1>2, <2>1 DEF MasterKeySources, KeysOK, VaultOK
  <2> QED  BY <2>2, EntryOfAccount DEF MasterKey
<1>3. app'.store = "fallback" /\ SyncKeysAreTheAccounts'
  BY <1>1, <1>2 DEF SyncKeysAreTheAccounts, Opens
<1> QED  BY <1>3 DEF initializeSync, KeysOK, VaultOK, DbOK, AppOK, LocalDataReadable

LEMMA NextKeeps ==
    ASSUME AccountsAssumption, LoginBounds, KeysOK, [Next]_vars PROVE KeysOK'
<1>1. CASE runBrowserAuthentication
  BY <1>1, BrowserKeeps
<1>2. CASE \E a \in Names : runLoginAuthentication(a) \/ runRcloneAuthentication(a)
  BY <1>2, LocalKeeps DEF runLoginAuthentication, runRcloneAuthentication
<1>3. CASE Start
  BY <1>3, PrimaryKeeps, SyncKeeps DEF Start
<1>4. CASE Stop \/ Logout
  BY <1>4 DEF Stop, Logout, Stopped, KeysOK, VaultOK, DbOK, AppOK, SyncKeysAreTheAccounts,
              LocalDataReadable
<1>5. CASE Configure \/ (\E a \in Names : ChangePassword(a)) \/ UNCHANGED vars
  BY <1>5 DEF Configure, ChangePassword, vars, KeysOK, VaultOK, DbOK, AppOK,
              SyncKeysAreTheAccounts, LocalDataReadable
<1> QED  BY <1>1, <1>2, <1>3, <1>4, <1>5 DEF Next

LEMMA AlwaysKeysOK == Spec => []KeysOK
<1>1. Init => KeysOK
  BY LoginBounds, InitKeysOK
<1>2. KeysOK /\ [Next]_vars => KeysOK'
  BY LoginBounds, AccountsAssumption, NextKeeps
<1> QED  BY <1>1, <1>2, PTL DEF Spec

-----------------------------------------------------------------------------
(* Whatever is uploaded is encrypted under the latest master key of the account *)
(* whose session uploads it, for any number of accounts and whatever logins     *)
(* came before (browser/authenticate.ts, key-manager.ts).                       *)
THEOREM UploadsUnderOwnKey == Spec => []SyncKeysAreTheAccounts
<1>1. KeysOK => SyncKeysAreTheAccounts  BY DEF KeysOK, AppOK
<1> QED  BY <1>1, AlwaysKeysOK, PTL

(* The primary store never opens a database with another master key than its    *)
(* rows were written under (conversations/index.ts, key-manager.ts).            *)
THEOREM LocalDataOpens == Spec => []LocalDataReadable
<1>1. KeysOK => LocalDataReadable  BY DEF KeysOK, AppOK
<1> QED  BY <1>1, AlwaysKeysOK, PTL

(* A login or rclone authentication keeps a vault that opens a store able to    *)
(* open one: the same store, or an empty one of its own if the vault could not  *)
(* be read, for any accounts, passwords and number of key sets                  *)
(* (login/authenticate.ts:32-60, rclone/authenticate.ts:74-106).                *)
THEOREM ReloginsOpenStore == Spec => ReloginOpensStore
<1> DEFINE Relogin == /\ vault # NoVault /\ vault' # NoVault /\ vault'.method # "browser"
                      /\ StoreOpens(vault) /\ vault'.keyPassword = vault.keyPassword
           Same == vault'.userKey = vault.userKey /\ vault'.masterKeys = vault.masterKeys
           Fresh == vault'.userKey # vault.userKey /\ db[vault'.userKey.id] = NoMaster
           Kept == (vault # NoVault /\ vault' # NoVault /\ vault'.method # "browser"
                    /\ StoreOpens(vault) /\ vault'.keyPassword = vault.keyPassword
                    => /\ StoreOpens(vault')
                       /\ IF generated' = generated
                          THEN vault'.userKey = vault.userKey /\ vault'.masterKeys = vault.masterKeys
                          ELSE vault'.userKey # vault.userKey /\ db[vault'.userKey.id] = NoMaster)
<1>1. vault' = vault /\ generated' = generated => Kept
  OBVIOUS
<1>2. ASSUME LoginBounds, KeysOK, NEW method, NEW kp, runLocalAuthentication(method, kp)
      PROVE  Kept
  <2> SUFFICES ASSUME Relogin
               PROVE  StoreOpens(vault') /\ IF generated' = generated THEN Same ELSE Fresh
    OBVIOUS
  <2>1. PICK read \in BOOLEAN :
           LET generate == existing(read).userKey = NoKey
               keys == IF generate THEN generateLocalKeys(kp, generated + 1) ELSE existing(read)
           IN  /\ generate => generated < MaxLocal
               /\ vault' = [method |-> method, uid |-> kp.acc, keyPassword |-> kp,
                            userKey |-> keys.userKey, masterKeys |-> keys.masterKeys]
               /\ generated' = IF generate THEN generated + 1 ELSE generated
    BY <1>2 DEF runLocalAuthentication
  <2>2. vault'.keyPassword = kp /\ kp # NoPassword /\ kp = vault.keyPassword
    BY <2>1 DEF StoreOpens
  <2>3. CASE existing(read).userKey # NoKey
    <3>1. existing(read) = [userKey |-> vault.userKey, masterKeys |-> vault.masterKeys]
      BY <2>3 DEF existing, Nothing
    <3>2. Same /\ generated' = generated
      BY <2>1, <2>3, <3>1
    <3> QED  BY <2>2, <3>2 DEF StoreOpens
  <2>4. CASE existing(read).userKey = NoKey
    <3> DEFINE n == generated + 1
    <3>1. generated < MaxLocal /\ generated' = n /\ generated \in Nat
      BY <1>2, <2>1, <2>4, LoginBounds DEF KeysOK
    <3>2. n \in 1..MaxLocal /\ n \in generated + 1..MaxLocal /\ n \notin 1..generated /\ n # generated
      BY <1>2, <3>1
    <3>3. /\ vault'.userKey = [id |-> n, acc |-> kp.acc, pw |-> kp.pw]
          /\ vault'.masterKeys = LocalList(n)
      BY <2>1, <2>4 DEF generateLocalKeys, LocalList
    <3> HIDE DEF n
    <3>4. n \notin Names \cup {NoAccount}
      BY <1>2, <3>2 DEF LoginBounds
    <3>5. Opens(kp, vault'.userKey, vault'.masterKeys)
      <4>1. masterKeyEntry(LocalList(n)) = LocalList(n)[1] /\ LocalList(n) # Absent
        BY EntryOfLocal
      <4>2. vault'.userKey # NoKey
        BY <3>3, <3>4 DEF NoKey
      <4> QED  BY <3>3, <4>1, <4>2 DEF Opens, LocalList
    <3>6. vault.userKey.id \in Names \cup 1..generated
      BY <1>2, EntryOfVault DEF KeysOK, StoreOpens
    <3>7. vault'.userKey # vault.userKey
      BY <3>2, <3>3, <3>4, <3>6
    <3>8. db[vault'.userKey.id] = NoMaster
      BY <1>2, <3>2, <3>3 DEF KeysOK, DbOK
    <3> QED  BY <2>2, <3>1, <3>2, <3>5, <3>7, <3>8 DEF StoreOpens
  <2> QED  BY <2>3, <2>4
<1>3. runBrowserAuthentication => Kept
  BY DEF runBrowserAuthentication
<1>4. Logout => Kept
  BY DEF Logout
<1> HIDE DEF Kept
<1>5. Start \/ Stop \/ Configure \/ (\E a \in Names : ChangePassword(a)) => Kept
  BY <1>1 DEF Start, Stop, Configure, ChangePassword
<1>6. KeysOK /\ (\E a \in Names : runLoginAuthentication(a) \/ runRcloneAuthentication(a)) => Kept
  BY <1>2, LoginBounds DEF runLoginAuthentication, runRcloneAuthentication
<1>7. KeysOK /\ [Next]_vars => [Kept]_vars
  BY <1>3, <1>4, <1>5, <1>6 DEF Next
<1>8. Spec => [][Kept]_vars
  BY <1>7, AlwaysKeysOK, PTL DEF Spec
<1> QED  BY <1>8 DEF Kept, ReloginOpensStore
=============================================================================
