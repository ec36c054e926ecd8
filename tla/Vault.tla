-------------------------------- MODULE Vault --------------------------------
(* The encrypted token file and the key that opens it: src/auth/vault/vault.ts  *)
(* and src/auth/vault/key-provider.ts.  A key is named after the place it comes *)
(* from; one of the wrong length is Bad.                                        *)

CONSTANTS NoVault   \* there is no vault file

VARIABLES
    vault,      \* NoVault, or the tokens in the file and the key they are under
    keychain,   \* what the OS keychain answers for the vault's account
    keyFile     \* the key file: no action changes it

vaultVars == <<vault, keychain, keyFile>>

None == "none"        \* no key
Bad == "bad"          \* a key that is not 32 bytes
Off == "unavailable"  \* keytar is missing, or the keychain does not work

KeychainValues == {Off, None, Bad, "stored", "generated"}
KeyFileValues == {None, Bad, "file"}
Keys == {None, Bad, "stored", "generated", "file"}

InKeychain == IF keychain = Off THEN None ELSE keychain

(* What a look at one source makes of the cached key: it is assigned before its *)
(* length is checked.                                                           *)
Look(source, cached) == IF source = None THEN cached ELSE source

Usable(key) == key \notin {None, Bad}

(* The key found (None: the call throws) and the module's cachedKey afterwards *)
getVaultKey(cached) ==
    LET first == Look(InKeychain, cached)
        second == Look(keyFile, first)
    IN  IF cached # None THEN [key |-> cached, cached |-> cached]
        ELSE IF Usable(InKeychain) THEN [key |-> InKeychain, cached |-> first]
        ELSE [key |-> IF Usable(keyFile) THEN keyFile ELSE None, cached |-> second]

isKeychainAvailable == keychain # Off

(* the key is used, and lost with the process *)
ensureVaultKey_KeptInMemory(cached) ==
    LET found == getVaultKey(cached)
    IN  IF found.key # None THEN [key |-> found.key, cached |-> found.cached, stored |-> keychain]
        ELSE IF isKeychainAvailable
             THEN [key |-> "generated", cached |-> "generated", stored |-> keychain]
        ELSE [key |-> None, cached |-> found.cached, stored |-> keychain]

(* ensureVaultKey and the setVaultKey it makes: a key is generated only when    *)
(* none was found and the keychain can hold it                                  *)
ensureVaultKey(cached) ==
    LET found == getVaultKey(cached)
    IN  IF found.key # None THEN [key |-> found.key, cached |-> found.cached, stored |-> keychain]
        ELSE IF isKeychainAvailable
             THEN [key |-> "generated", cached |-> "generated", stored |-> "generated"]
        ELSE [key |-> None, cached |-> found.cached, stored |-> keychain]

(* writeVault's key: its first failure sends it through ensureVaultKey *)
KeyToWrite(cached) ==
    LET found == getVaultKey(cached)
    IN  IF found.key # None
        THEN [key |-> found.key, cached |-> found.cached, stored |-> keychain]
        ELSE ensureVaultKey(found.cached)

(* writeVault: a new key file content, or nothing when the key is not usable.   *)
(* The file is replaced by a rename.                                            *)
writeVault(tokens, cached) ==
    LET with == KeyToWrite(cached)
    IN  /\ keychain' = with.stored
        /\ vault' = IF Usable(with.key) THEN [tokens |-> tokens, key |-> with.key] ELSE vault
        /\ UNCHANGED keyFile

Writable(cached) == Usable(KeyToWrite(cached).key)

(* readVault succeeds *)
Readable(cached) == vault # NoVault /\ getVaultKey(cached).key = vault.key

deleteVault == vault' = NoVault /\ UNCHANGED <<keychain, keyFile>>
=============================================================================
