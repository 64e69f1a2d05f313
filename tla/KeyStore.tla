------------------------------ MODULE KeyStore ------------------------------
(***************************************************************************)
(* Where the master key of a data directory is kept and how it is reached: *)
(* check_structure, ensure_structure_created, read_or_create_key and       *)
(* EncryptedFs::passwd (src/encryptedfs.rs), the key held in an            *)
(* ExpireValue, and the password held in the keyring by the command line   *)
(* program (src/main.rs, src/keyring.rs).                                  *)
(*                                                                         *)
(* A mount is a process of its own for every data directory, and passwd    *)
(* may run beside it; all share one keyring entry.  What is written to the *)
(* host goes step by step, so that a process may die in between.  A        *)
(* password stands for the key derived from it with the salt.              *)
(***************************************************************************)
EXTENDS Naturals

CONSTANTS
    DataDirs, Passwords,
    Masters,       \* bound: random master keys drawn
    Env,           \* "crash": processes die
    Absent, Torn

Dirs == 3          \* INODES_DIR, CONTENTS_DIR, SECURITY_DIR, made in this order

KeyFiles == [pw : Passwords, master : Masters]

ASSUME KeyStoreAssumption ==
    /\ Absent \notin Passwords \cup Masters \cup KeyFiles
    /\ Torn \notin KeyFiles \cup {Absent}
    /\ Env \subseteq {"crash"}

VARIABLES
    dirs,     \* dirs[d]: directories made in d
    salt,     \* salt[d]: the salt file
    key,      \* key[d]: the key file: a master key under a password
    data,     \* data[d]: the master key d's inodes and contents are encrypted with
    used,     \* master keys drawn
    keyring,  \* the password in the keyring, one entry for all mounts
    mount,    \* mount[d]: where the mount process of d is
    pw,       \* pw[d]: the password it took from the keyring
    cached,   \* cached[d]: the master key in its ExpireValue
    passwd    \* passwd[d]: what a running passwd is about to write

host == <<dirs, salt, key, data, used>>
keyVars == <<dirs, salt, key, data, used, keyring, mount, pw, cached, passwd>>

(* Files are absent, torn or complete; processes hold keys that exist.     *)
KeyTypeOK ==
    /\ dirs \in [DataDirs -> 0..Dirs]
    /\ salt \in [DataDirs -> {Absent, Torn, "salt"}]
    /\ key \in [DataDirs -> KeyFiles \cup {Absent, Torn}]
    /\ data \in [DataDirs -> Masters \cup {Absent}]
    /\ used \subseteq Masters
    /\ keyring \in Passwords \cup {Absent}
    /\ mount \in [DataDirs -> {"down", "check", "dirs", "salt", "key", "newkey", "root", "up"}]
    /\ pw \in [DataDirs -> Passwords \cup {Absent}]
    /\ cached \in [DataDirs -> Masters \cup {Absent}]
    /\ passwd \in [DataDirs -> KeyFiles \cup {Absent}]

KeyInit ==
    /\ dirs = [d \in DataDirs |-> 0]
    /\ salt = [d \in DataDirs |-> Absent]
    /\ key = [d \in DataDirs |-> Absent]
    /\ data = [d \in DataDirs |-> Absent]
    /\ used = {}
    /\ keyring = Absent
    /\ mount = [d \in DataDirs |-> "down"]
    /\ pw = [d \in DataDirs |-> Absent]
    /\ cached = [d \in DataDirs |-> Absent]
    /\ passwd = [d \in DataDirs |-> Absent]

-----------------------------------------------------------------------------
MountGoes(d, phase) == mount' = [mount EXCEPT ![d] = phase]

(* check_structure: all three directories with both files. *)
check_structure(d) == dirs[d] = Dirs /\ salt[d] # Absent /\ key[d] # Absent

(* Password p decrypts the key file of d. *)
Opens(d, p) == key[d] \in KeyFiles /\ key[d].pw = p

(* run_mount saves the password before anything is checked. *)
RunMount(d, p) ==
    /\ mount[d] = "down"
    /\ keyring' = p
    /\ MountGoes(d, "check")
    /\ UNCHANGED <<host, pw, cached, passwd>>

(* ensure_structure_created: an empty directory will do as well. *)
CheckStructure(d) ==
    /\ mount[d] = "check"
    /\ MountGoes(d, IF dirs[d] = 0 \/ check_structure(d) THEN "dirs" ELSE "down")
    /\ UNCHANGED <<host, keyring, pw, cached, passwd>>

(* ensure_structure_created that makes the directories whether they exist or not. *)
CreateDirAgain(d) ==
    /\ mount[d] = "dirs"
    /\ dirs' = [dirs EXCEPT ![d] = @ + 1]
    /\ UNCHANGED <<salt, key, data, used, keyring, mount, pw, cached, passwd>>

CreateDir(d) ==
    /\ mount[d] = "dirs" /\ dirs[d] < Dirs
    /\ dirs' = [dirs EXCEPT ![d] = @ + 1]
    /\ UNCHANGED <<salt, key, data, used, keyring, mount, pw, cached, passwd>>

(* KeyProvider::provide: the password comes from the keyring by now. *)
GetPassword(d) ==
    /\ mount[d] = "dirs" /\ dirs[d] = Dirs
    /\ pw' = [pw EXCEPT ![d] = keyring]
    /\ MountGoes(d, IF keyring = Absent THEN "down" ELSE "salt")
    /\ UNCHANGED <<host, keyring, cached, passwd>>

(* read_or_create_key, the salt: read, or created empty and then written.  *)
(* It is torn here only while this process writes it: a directory whose    *)
(* salt stayed torn has no key file and was refused.                       *)
Salt(d) ==
    /\ mount[d] = "salt"
    /\ salt' = [salt EXCEPT ![d] = IF @ = Absent THEN Torn ELSE "salt"]
    /\ MountGoes(d, IF salt[d] = Absent THEN "salt" ELSE "key")
    /\ UNCHANGED <<dirs, key, data, used, keyring, pw, cached, passwd>>

(* read_or_create_key, an existing key file; InvalidPassword if it does    *)
(* not decrypt.                                                            *)
ReadKey(d) ==
    /\ mount[d] = "key" /\ key[d] # Absent
    /\ IF Opens(d, pw[d])
       THEN cached' = [cached EXCEPT ![d] = key[d].master] /\ MountGoes(d, "root")
       ELSE MountGoes(d, "down") /\ UNCHANGED cached
    /\ UNCHANGED <<host, keyring, pw, passwd>>

(* The first time the key file is created empty ... *)
CreateKey(d) ==
    /\ mount[d] = "key" /\ key[d] = Absent
    /\ key' = [key EXCEPT ![d] = Torn]
    /\ MountGoes(d, "newkey")
    /\ UNCHANGED <<dirs, salt, data, used, keyring, pw, cached, passwd>>

(* ... and a random key written to it. *)
WriteKey(d) ==
    /\ mount[d] = "newkey"
    /\ \E m \in Masters \ used :
        /\ used' = used \cup {m}
        /\ key' = [key EXCEPT ![d] = [pw |-> pw[d], master |-> m]]
        /\ cached' = [cached EXCEPT ![d] = m]
    /\ MountGoes(d, "root")
    /\ UNCHANGED <<dirs, salt, data, keyring, pw, passwd>>

(* ensure_root_exists: the first data under the master key. *)
EnsureRoot(d) ==
    /\ mount[d] = "root"
    /\ data' = [data EXCEPT ![d] = IF @ = Absent THEN cached[d] ELSE @]
    /\ MountGoes(d, "up")
    /\ UNCHANGED <<dirs, salt, key, used, keyring, pw, cached, passwd>>

(* The ExpireValue drops the key after ten idle minutes ... *)
ExpireKey(d) ==
    /\ mount[d] = "up"
    /\ cached' = [cached EXCEPT ![d] = Absent]
    /\ UNCHANGED <<host, keyring, mount, pw, passwd>>

(* Reading the key again makes a new one when the stored one does not open. *)
ProvideNewKey(d) ==
    /\ mount[d] = "up" /\ cached[d] = Absent
    /\ keyring # Absent
    /\ \E m \in Masters \ used :
        /\ used' = used \cup {m}
        /\ cached' = [cached EXCEPT ![d] = IF Opens(d, keyring) THEN key[d].master ELSE m]
    /\ UNCHANGED <<dirs, salt, key, data, keyring, mount, pw, passwd>>

(* ... and the next operation reads it again, if the keyring has the       *)
(* password that opens it; otherwise the operation fails.                  *)
ProvideKey(d) ==
    /\ mount[d] = "up" /\ cached[d] = Absent
    /\ keyring # Absent /\ Opens(d, keyring)
    /\ pw' = [pw EXCEPT ![d] = keyring]
    /\ cached' = [cached EXCEPT ![d] = key[d].master]
    /\ UNCHANGED <<host, keyring, mount, passwd>>

Ended(d) == /\ MountGoes(d, "down")
            /\ pw' = [pw EXCEPT ![d] = Absent]
            /\ cached' = [cached EXCEPT ![d] = Absent]

(* The handler of SIGINT: remove_pass and unmount. *)
Exit(d) ==
    /\ mount[d] = "up"
    /\ keyring' = Absent
    /\ Ended(d)
    /\ UNCHANGED <<host, passwd>>

-----------------------------------------------------------------------------
(* EncryptedFs::passwd decrypts the master key with the old password ... *)
PasswdRead(d, old, new) ==
    /\ passwd[d] = Absent
    /\ check_structure(d) /\ salt[d] = "salt" /\ Opens(d, old)
    /\ passwd' = [passwd EXCEPT ![d] = [pw |-> new, master |-> key[d].master]]
    /\ UNCHANGED <<host, keyring, mount, pw, cached>>

(* passwd that writes into the key file itself. *)
PasswdWriteInPlace(d) ==
    /\ passwd[d] # Absent
    /\ key' = [key EXCEPT ![d] = IF @ = Torn THEN passwd[d] ELSE Torn]
    /\ passwd' = [passwd EXCEPT ![d] = IF key[d] = Torn THEN Absent ELSE @]
    /\ UNCHANGED <<dirs, salt, data, used, keyring, mount, pw, cached>>

(* ... and replaces the key file by one under the new password, atomically. *)
PasswdWrite(d) ==
    /\ passwd[d] # Absent
    /\ key' = [key EXCEPT ![d] = passwd[d]]
    /\ passwd' = [passwd EXCEPT ![d] = Absent]
    /\ UNCHANGED <<dirs, salt, data, used, keyring, mount, pw, cached>>

(* The mount process or passwd dies; the keyring outlives it. *)
Crash(d) ==
    /\ "crash" \in Env
    /\ \/ mount[d] # "down" /\ Ended(d) /\ UNCHANGED passwd
       \/ /\ passwd[d] # Absent
          /\ passwd' = [passwd EXCEPT ![d] = Absent]
          /\ UNCHANGED <<mount, pw, cached>>
    /\ UNCHANGED <<host, keyring>>

MountStep(d) ==
    \/ CheckStructure(d) \/ CreateDir(d) \/ GetPassword(d) \/ Salt(d)
    \/ ReadKey(d) \/ CreateKey(d) \/ WriteKey(d) \/ EnsureRoot(d)

KeyNext ==
    \E d \in DataDirs :
        \/ \E p \in Passwords : RunMount(d, p)
        \/ MountStep(d)
        \/ ExpireKey(d) \/ ProvideKey(d) \/ Exit(d)
        \/ \E old, new \in Passwords : PasswdRead(d, old, new)
        \/ PasswdWrite(d)
        \/ Crash(d)

KeySpec == KeyInit /\ [][KeyNext]_keyVars

-----------------------------------------------------------------------------
(* Once there is data, the key file decrypts to the master key the data is *)
(* encrypted with, whichever mounts and password changes follow each other *)
(* and wherever they die: data never becomes unreadable.                   *)
MasterKept == \A d \in DataDirs : data[d] # Absent => key[d] \in KeyFiles /\ key[d].master = data[d]

(* A mounted file system works with the key of its data, also after the    *)
(* key expired and was read again while the password changed: it never     *)
(* writes under a key that the next mount does not have.                   *)
MasterServed ==
    \A d \in DataDirs : cached[d] # Absent /\ data[d] # Absent => cached[d] = data[d]
=============================================================================
