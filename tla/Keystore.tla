------------------------------ MODULE Keystore ------------------------------
(***************************************************************************)
(* The keystore file of the trigger API (pkg/auth/keystore.go) with the    *)
(* two kinds of processes that use it: `netping --generate-api-key`, which *)
(* appends one key to the file (SaveKeyToStorePath, AddKey, saveLocked),   *)
(* and the listener, whose requests are judged by keys it keeps in memory  *)
(* and reloads when the file has changed (ValidateKey, Reload).            *)
(*                                                                         *)
(* A path leads to an inode and an inode carries the time of its last      *)
(* modification, because the code's correctness depends on both: rename    *)
(* moves an inode with its time, and a file that somebody renamed away is  *)
(* still written to by whoever has it open.  Each system call is an        *)
(* action; ks.mu orders the requests of the listener only.                 *)
(***************************************************************************)
EXTENDS Naturals, FiniteSets

CONSTANTS
  Generators,       \* runs of netping --generate-api-key, each named by its key
  Old,              \* the keys that the file holds at the beginning
  Requests          \* the authenticated requests that may be under way at once

Keys == Generators \cup Old

NoOne == "no one"

ASSUME KeystoreAssumption ==
  /\ Generators \cap Old = {}
  /\ IsFiniteSet(Generators) /\ Generators # {}
  /\ NoOne \notin Requests \cup Generators

(* One inode for the file of the beginning, two for every generator, one   *)
(* for the administrator's copy.                                           *)
Inodes == 1 .. 2 * Cardinality(Generators) + 2
NoInode == 0

VARIABLES
  clock,            \* time of the last modification of any inode
  inode,            \* contents and modification time of each inode
  clean, tmp,       \* the inodes at the keystore's path and at path.tmp
  gpc,              \* control state of each generator
  loaded,           \* the keys a generator has read
  fd,               \* the inode a generator has open
  keys,             \* the listener's ks.keys
  lastModTime,      \* its ks.lastModTime
  lock,             \* the request that holds ks.mu for writing
  rpc,              \* control state of each request
  info,             \* the modification time seen by the Stat of its Reload
  accepted,         \* the keys for which its ValidateKey returned true
  revoked,          \* the key that the administrator removed, if any
  overlap,          \* history variable: two processes wrote at the same time
  removedBy,        \* history variable: the generator whose fallback began and did not end
  calm,             \* history variable: the file is as when the request began
  stored            \* history variable: the keys whose generation succeeded

files == <<clock, inode, clean, tmp>>
generating == <<gpc, loaded, fd>>
listening == <<keys, lastModTime, lock, rpc, info, accepted>>
vars == <<files, generating, listening, revoked, overlap, removedBy, calm, stored>>

GPC == {"idle", "open", "write", "rename", "removeTmp", "removeFile",
        "reopen", "rewrite", "generated", "failed"}
RPC == {"idle", "stat", "reload", "read", "check"}

Writing == GPC \ {"idle", "generated", "failed"}

(* whole: a complete JSON document.  torn: one that json.Unmarshal rejects, *)
(* the empty file included.                                                *)
Content == [keys : SUBSET Keys, whole : BOOLEAN, mtime : Nat]
Torn(now) == [keys |-> {}, whole |-> FALSE, mtime |-> now]
Whole(K, now) == [keys |-> K, whole |-> TRUE, mtime |-> now]

(* What Reload finds at a path: nothing, a document, or a torn one.        *)
Parses(i) == i # NoInode /\ inode[i].whole

Init ==
  /\ clock = 1
  /\ \E exists \in BOOLEAN :
       /\ clean = IF exists THEN 1 ELSE NoInode
       /\ inode = [i \in Inodes |-> IF exists /\ i = 1 THEN Whole(Old, 1) ELSE Torn(0)]
       /\ keys = IF exists THEN Old ELSE {}
       /\ lastModTime = IF exists THEN 1 ELSE 0
       /\ stored = IF exists THEN Old ELSE {}
  /\ tmp = NoInode
  /\ gpc = [g \in Generators |-> "idle"]
  /\ loaded = [g \in Generators |-> {}]
  /\ fd = [g \in Generators |-> NoInode]
  /\ lock = NoOne
  /\ rpc = [r \in Requests |-> "idle"]
  /\ info = [r \in Requests |-> 0]
  /\ accepted = [r \in Requests |-> {}]
  /\ revoked = {}
  /\ overlap = FALSE
  /\ removedBy = NoOne
  /\ calm = [r \in Requests |-> FALSE]

Disturbed == calm' = [r \in Requests |-> FALSE]
Goto(g, label) == gpc' = [gpc EXCEPT ![g] = label]
-----------------------------------------------------------------------------
(* NewKeystore: reads what is there; no file, or one that disappears       *)
(* between Stat and ReadFile, is an empty keystore, a torn one an error.   *)
Load(g) ==
  /\ gpc[g] = "idle"
  /\ IF clean = NoInode \/ Parses(clean)
     THEN /\ loaded' = [loaded EXCEPT ![g] = IF clean = NoInode THEN {}
                                             ELSE inode[clean].keys]
          /\ Goto(g, "open")
     ELSE /\ Goto(g, "failed")
          /\ UNCHANGED loaded
  /\ overlap' = (overlap \/ \E h \in Generators : gpc[h] \in Writing)
  /\ UNCHANGED <<files, fd, listening, revoked, removedBy, calm, stored>>

(* An inode that no path and no open file refers to.                       *)
Free(i) == i \notin {clean, tmp} \cup {fd[g] : g \in Generators}
Fresh == CHOOSE i \in Inodes : Free(i)

(* os.WriteFile, first half: open with O_TRUNC and O_CREATE.               *)
Open(g, i) ==
  /\ clock' = clock + 1
  /\ inode' = [inode EXCEPT ![i] = Torn(clock')]
  /\ fd' = [fd EXCEPT ![g] = i]

(* os.WriteFile, second half.  Over the data of another process that has   *)
(* the same file open, the longer document leaves its tail behind.         *)
Write(g) ==
  /\ clock' = clock + 1
  /\ \E content \in {Whole(loaded[g] \cup {g}, clock')}
                    \cup (IF inode[fd[g]].whole THEN {Torn(clock')} ELSE {}) :
       inode' = [inode EXCEPT ![fd[g]] = content]
  /\ fd' = [fd EXCEPT ![g] = NoInode]

(* Mutant of OpenTmp: the keystore is written in place.                    *)
OpenInPlace(g) ==
  /\ gpc[g] = "open"
  /\ LET i == IF clean = NoInode THEN Fresh ELSE clean IN
       /\ Open(g, i)
       /\ clean' = i
  /\ Goto(g, "rewrite")
  /\ Disturbed
  /\ UNCHANGED <<tmp, loaded, listening, revoked, overlap, removedBy, stored>>

(* saveLocked: path.tmp is opened ...                                      *)
OpenTmp(g) ==
  /\ gpc[g] = "open"
  /\ LET i == IF tmp = NoInode THEN Fresh ELSE tmp IN
       /\ Open(g, i)
       /\ tmp' = i
  /\ Goto(g, "write")
  /\ UNCHANGED <<clean, loaded, listening, revoked, overlap, removedBy, calm, stored>>

(* ... written, perhaps after somebody renamed it to the keystore's path ... *)
WriteTmp(g) ==
  /\ gpc[g] = "write"
  /\ Write(g)
  /\ Goto(g, "rename")
  /\ UNCHANGED <<clean, tmp, loaded, listening, revoked, overlap, removedBy, calm, stored>>

(* ... and renamed.  A rename fails when somebody renamed path.tmp already, *)
(* or for a reason of the file system's.                                   *)
Rename(g) ==
  /\ gpc[g] = "rename"
  /\ \/ /\ tmp # NoInode
        /\ clean' = tmp
        /\ tmp' = NoInode
        /\ Goto(g, "generated")
        /\ stored' = stored \cup {g}
        /\ Disturbed
     \/ Goto(g, "removeTmp") /\ UNCHANGED <<clean, tmp, stored, calm>>
  /\ UNCHANGED <<clock, inode, loaded, fd, listening, revoked, overlap, removedBy>>

(* The fallback after whatever error: both paths are removed, whoever's    *)
(* files they are by now and if the system lets them be, and the keystore  *)
(* is written in place.                                                    *)
RemoveTmp(g) ==
  /\ gpc[g] = "removeTmp"
  /\ tmp' \in {tmp, NoInode}
  /\ Goto(g, "removeFile")
  /\ UNCHANGED <<clock, inode, clean, loaded, fd, listening, revoked, overlap, removedBy,
                 calm, stored>>

RemoveFile(g) ==
  /\ gpc[g] = "removeFile"
  /\ clean' \in {clean, NoInode}
  /\ Goto(g, "reopen")
  /\ removedBy' = IF removedBy = NoOne THEN g ELSE removedBy
  /\ Disturbed
  /\ UNCHANGED <<clock, inode, tmp, loaded, fd, listening, revoked, overlap, stored>>

OpenFile(g) ==
  /\ gpc[g] = "reopen"
  /\ LET i == IF clean = NoInode THEN Fresh ELSE clean IN
       /\ Open(g, i)
       /\ clean' = i
  /\ Goto(g, "rewrite")
  /\ Disturbed
  /\ UNCHANGED <<tmp, loaded, listening, revoked, overlap, removedBy, stored>>

WriteFile(g) ==
  /\ gpc[g] = "rewrite"
  /\ Write(g)
  /\ Goto(g, "generated")
  /\ stored' = stored \cup {g}
  /\ Disturbed
  /\ removedBy' = IF removedBy = g THEN NoOne ELSE removedBy
  /\ UNCHANGED <<clean, tmp, loaded, listening, revoked, overlap>>

(* A generator is killed, or an os.WriteFile of its fails, at its opening   *)
(* or with a part written.                                                 *)
Dies(g) ==
  /\ gpc[g] \in Writing
  /\ Goto(g, "failed")
  /\ fd' = [fd EXCEPT ![g] = NoInode]
  /\ UNCHANGED <<files, loaded, listening, revoked, overlap, removedBy, calm, stored>>

(* The administrator takes a key out of the file, once, and puts the edited *)
(* copy in its place.                                                      *)
Revoke ==
  /\ revoked = {} /\ Parses(clean)
  /\ \E k \in inode[clean].keys :
       /\ revoked' = {k}
       /\ clock' = clock + 1
       /\ inode' = [inode EXCEPT ![Fresh] = Whole(inode[clean].keys \ {k}, clock')]
       /\ clean' = Fresh
       /\ stored' = stored \ {k}
  /\ overlap' = (overlap \/ \E h \in Generators : gpc[h] \in Writing)
  /\ Disturbed
  /\ UNCHANGED <<tmp, generating, listening, removedBy>>

AddKey(g) ==
  \/ OpenTmp(g) \/ WriteTmp(g) \/ Rename(g) \/ RemoveTmp(g) \/ RemoveFile(g)
  \/ OpenFile(g) \/ WriteFile(g)
-----------------------------------------------------------------------------
GotoR(r, label) == rpc' = [rpc EXCEPT ![r] = label]

(* A request arrives (Server.authenticate).  It stands for one with any    *)
(* key: no step before the last depends on the key.                        *)
Begin(r) ==
  /\ rpc[r] = "idle"
  /\ GotoR(r, "stat")
  /\ accepted' = [accepted EXCEPT ![r] = {}]
  /\ calm' = [calm EXCEPT ![r] = TRUE]
  /\ UNCHANGED <<files, generating, keys, lastModTime, lock, info, revoked,
                 overlap, removedBy, stored>>

(* ValidateKey: Stat, and the read of lastModTime without the lock.        *)
Stat(r) ==
  /\ rpc[r] = "stat"
  /\ GotoR(r, IF clean # NoInode /\ inode[clean].mtime > lastModTime
              THEN "reload" ELSE "check")
  /\ UNCHANGED <<files, generating, keys, lastModTime, lock, info, accepted,
                 revoked, overlap, removedBy, calm, stored>>

(* Reload: the lock, and Stat once more; another request may have reloaded. *)
ReloadStat(r) ==
  /\ rpc[r] = "reload"
  /\ lock = NoOne
  /\ IF clean # NoInode /\ (inode[clean].mtime > lastModTime \/ keys = {})
     THEN /\ lock' = r
          /\ info' = [info EXCEPT ![r] = inode[clean].mtime]
          /\ GotoR(r, "read")
     ELSE /\ GotoR(r, "check")
          /\ UNCHANGED <<lock, info>>
  /\ UNCHANGED <<files, generating, keys, lastModTime, accepted, revoked,
                 overlap, removedBy, calm, stored>>

(* Mutant of ReloadRead: the time is taken after the file was read.        *)
ReloadReadLate(r) ==
  /\ rpc[r] = "read"
  /\ IF Parses(clean) THEN keys' = inode[clean].keys /\ lastModTime' = clock
     ELSE UNCHANGED <<keys, lastModTime>>
  /\ lock' = NoOne
  /\ info' = [info EXCEPT ![r] = 0]
  /\ GotoR(r, "check")
  /\ UNCHANGED <<files, generating, accepted, revoked, overlap, removedBy, calm,
                 stored>>

(* Mutant of ReloadRead: a document that does not parse empties the keys.  *)
ReloadReadTorn(r) ==
  /\ rpc[r] = "read"
  /\ IF clean # NoInode
     THEN keys' = inode[clean].keys /\ lastModTime' = info[r]
     ELSE UNCHANGED <<keys, lastModTime>>
  /\ lock' = NoOne
  /\ info' = [info EXCEPT ![r] = 0]
  /\ GotoR(r, "check")
  /\ UNCHANGED <<files, generating, accepted, revoked, overlap, removedBy, calm,
                 stored>>

(* Reload: ReadFile and Unmarshal; an error leaves the keys as they were.  *)
ReloadRead(r) ==
  /\ rpc[r] = "read"
  /\ IF Parses(clean) THEN keys' = inode[clean].keys /\ lastModTime' = info[r]
     ELSE UNCHANGED <<keys, lastModTime>>
  /\ lock' = NoOne
  /\ info' = [info EXCEPT ![r] = 0]
  /\ GotoR(r, "check")
  /\ UNCHANGED <<files, generating, accepted, revoked, overlap, removedBy, calm,
                 stored>>

(* The keys are compared under the read lock.                              *)
Check(r) ==
  /\ rpc[r] = "check"
  /\ lock = NoOne
  /\ accepted' = [accepted EXCEPT ![r] = keys]
  /\ GotoR(r, "idle")
  /\ UNCHANGED <<files, generating, keys, lastModTime, lock, info, revoked,
                 overlap, removedBy, calm, stored>>

ValidateKey(r) == Stat(r) \/ ReloadStat(r) \/ ReloadRead(r) \/ Check(r)

Next ==
  \/ \E g \in Generators : Load(g) \/ AddKey(g) \/ Dies(g)
  \/ Revoke
  \/ \E r \in Requests : Begin(r) \/ ValidateKey(r)

Spec == Init /\ [][Next]_vars
-----------------------------------------------------------------------------
TypeOK ==
  /\ clock \in Nat
  /\ inode \in [Inodes -> Content]
  /\ clean \in Inodes \cup {NoInode}
  /\ tmp \in Inodes \cup {NoInode}
  /\ gpc \in [Generators -> GPC]
  /\ loaded \in [Generators -> SUBSET Keys]
  /\ fd \in [Generators -> Inodes \cup {NoInode}]
  /\ keys \subseteq Keys
  /\ lastModTime \in Nat
  /\ rpc \in [Requests -> RPC]
  /\ lock \in {r \in Requests : rpc[r] = "read"} \cup {NoOne}
  /\ info \in [Requests -> Nat]
  /\ accepted \in [Requests -> SUBSET Keys]
  /\ revoked \subseteq Keys
  /\ overlap \in BOOLEAN
  /\ removedBy \in Generators \cup {NoOne}
  /\ calm \in [Requests -> BOOLEAN]
  /\ stored \subseteq Keys

FileKeys == IF clean = NoInode THEN {} ELSE inode[clean].keys

(* As long as keys are generated one after the other and no fallback is    *)
(* under way or was cut short, the file is a whole document with exactly   *)
(* the keys generated so far: while a key is being written to path.tmp,    *)
(* after a generator was killed there with whatever it left, after a       *)
(* rename that failed and a fallback that ended (saveLocked).              *)
FileIsExact ==
  ~overlap /\ removedBy = NoOne =>
    /\ clean # NoInode => inode[clean].whole
    /\ FileKeys = stored

(* docs/API_TRIGGER.md:413, hot reload: a request during which the file    *)
(* stays as it is is judged by that file, whatever other requests reload   *)
(* at the same time and whenever the file changed before; the exception is *)
(* the missing or torn file of a fallback, which leaves the listener with  *)
(* the keys it has (ValidateKey, Reload).                                  *)
JudgedByTheFile ==
  \A r \in Requests :
    ~overlap /\ rpc[r] = "idle" /\ calm[r] /\ (Parses(clean) \/ removedBy = NoOne)
      => accepted[r] = FileKeys

(* Even when generators overwrite each other's files, the listener that    *)
(* had keys keeps some: no moment at which the file is missing, empty or   *)
(* torn is taken for a keystore without keys (Reload).                     *)
NeverLeftWithoutKeys == [][keys # {} /\ revoked = {} => keys' # {}]_vars
=============================================================================
