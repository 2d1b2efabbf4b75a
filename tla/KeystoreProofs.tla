--------------------------- MODULE KeystoreProofs ---------------------------
(***************************************************************************)
(* Proofs about Keystore: for any number of generators, old keys and       *)
(* requests.                                                               *)
(***************************************************************************)
EXTENDS Keystore, FiniteSetTheorems, TLAPS

(* Who has which inode, and when it was modified.                          *)
InodeInv ==
  /\ \A g \in Generators :
       fd[g] # NoInode <=> gpc[g] \in {"write", "rewrite"}
  /\ tmp # NoInode => tmp # clean
  /\ clock >= 1
  /\ \A i \in Inodes : inode[i].mtime <= clock

(* Generators that run one after the other do not meet.                    *)
Exclusive ==
  ~overlap => \A g, h \in Generators :
    gpc[g] \in Writing /\ gpc[h] \in Writing => g = h

(* A fallback that is under way, or that ended with its generator.         *)
RemovalInv ==
  \A g \in Generators :
    removedBy = g => gpc[g] \in {"reopen", "rewrite", "failed"}

(* What the generator that runs alone has done so far.                     *)
WriterInvOf(g) ==
  /\ gpc[g] \in Writing /\ removedBy \in {NoOne, g} => loaded[g] = stored
  /\ gpc[g] = "write" => tmp # NoInode /\ fd[g] = tmp /\ ~inode[tmp].whole
  /\ gpc[g] = "rename" =>
       /\ tmp # NoInode /\ inode[tmp].whole
       /\ inode[tmp].keys = loaded[g] \cup {g}
       /\ clean # NoInode => inode[tmp].mtime > inode[clean].mtime
  /\ gpc[g] \in {"reopen", "rewrite"} => removedBy # NoOne
  /\ gpc[g] = "rewrite" =>
       clean # NoInode /\ fd[g] = clean /\ ~inode[clean].whole

WriterInv == ~overlap => \A g \in Generators : WriterInvOf(g)

(* The listener has seen no file that is younger than now, or than a       *)
(* document that waits for its rename.                                     *)
SeenBefore(now) ==
  /\ lastModTime < now
  /\ \A r \in Requests : rpc[r] = "read" => info[r] < now

TimeInv == SeenBefore(clock + 1)

YoungerInv ==
  ~overlap => \A g \in Generators :
    gpc[g] = "rename" => SeenBefore(inode[tmp].mtime)

(* The listener's keys are those of the file, or older than the file.      *)
CacheInv ==
  ~overlap =>
    /\ clean = NoInode /\ removedBy = NoOne => keys = {}
    /\ clean # NoInode =>
         /\ lastModTime <= inode[clean].mtime
         /\ lastModTime = inode[clean].mtime /\ inode[clean].whole
              => keys = inode[clean].keys
    /\ \A r \in Requests :
         /\ rpc[r] = "read" /\ clean # NoInode => info[r] <= inode[clean].mtime
         /\ rpc[r] = "read" /\ removedBy = NoOne => clean # NoInode
         /\ rpc[r] = "check" /\ calm[r] /\ (Parses(clean) \/ removedBy = NoOne)
              => keys = FileKeys

(* No document without keys takes the place of one with keys.              *)
NonEmptyInv ==
  revoked = {} => \A i \in Inodes :
    inode[i].whole /\ inode[i].keys = {} => i # tmp /\ (i = clean => keys = {})

IInv == /\ TypeOK
        /\ InodeInv
        /\ Exclusive
        /\ RemovalInv
        /\ WriterInv
        /\ FileIsExact
        /\ TimeInv
        /\ YoungerInv
        /\ CacheInv
        /\ JudgedByTheFile
        /\ NonEmptyInv
-----------------------------------------------------------------------------
LEMMA OneMoreAtMost ==
  ASSUME NEW S, NEW x, IsFiniteSet(S)
  PROVE  /\ IsFiniteSet(S \cup {x}) /\ Cardinality(S \cup {x}) \in Nat
         /\ Cardinality(S) \in Nat /\ Cardinality(S \cup {x}) <= Cardinality(S) + 1
<1>1. Cardinality(S) \in Nat
  BY FS_CardinalityType
<1> QED  BY <1>1, FS_AddElement

(* There is always an inode for who needs a new one.                       *)
LEMMA FreshIs ==
  ASSUME TypeOK
  PROVE  Fresh \in Inodes /\ Free(Fresh) /\ Fresh # NoInode
<1> DEFINE Opened == {fd[g] : g \in Generators}
<1> DEFINE G == Cardinality(Generators)
<1>1. IsFiniteSet(Generators) /\ G \in Nat /\ G # 0
  BY KeystoreAssumption, FS_CardinalityType, FS_EmptySet
<1>2. fd \in Surjection(Generators, Opened)
  BY DEF TypeOK, Surjection
<1>3. IsFiniteSet(Opened) /\ Cardinality(Opened) <= G
  BY <1>1, <1>2, FS_Surjection
<1>4. /\ IsFiniteSet(Opened \cup {clean}) /\ Cardinality(Opened \cup {clean}) \in Nat
      /\ Cardinality(Opened) \in Nat
      /\ Cardinality(Opened \cup {clean}) <= Cardinality(Opened) + 1
  BY <1>3, OneMoreAtMost
<1>5. Cardinality(Opened \cup {clean}) <= G + 1
  BY <1>1, <1>3, <1>4
<1> DEFINE Used == (Opened \cup {clean}) \cup {tmp}
<1>6. /\ IsFiniteSet(Used) /\ Cardinality(Used) \in Nat
      /\ Cardinality(Used) <= Cardinality(Opened \cup {clean}) + 1
  BY <1>4, OneMoreAtMost
<1>7. IsFiniteSet(Used) /\ Cardinality(Used) <= G + 2 /\ Cardinality(Used) \in Nat
  BY <1>1, <1>4, <1>5, <1>6
<1>8. Cardinality(Inodes) = 2 * G + 2
  <2>1. 2 * G + 2 \in Int /\ 1 <= 2 * G + 2
    BY <1>1
  <2> QED  BY <2>1, FS_Interval DEF Inodes
<1>9. ~(Inodes \subseteq Used)
  <2>1. ASSUME Inodes \subseteq Used
        PROVE  Cardinality(Inodes) <= Cardinality(Used)
    BY <1>7, <2>1, FS_Subset
  <2> QED  BY <1>1, <1>7, <1>8, <2>1
<1>10. \E i \in Inodes : Free(i)
  BY <1>9 DEF Free
<1>11. Fresh \in Inodes /\ Free(Fresh)
  BY <1>10 DEF Fresh
<1>12. \A i \in Inodes : i # NoInode
  BY DEF Inodes, NoInode
<1> QED  BY <1>11, <1>12

LEMMA FreshIsApart ==
  ASSUME TypeOK
  PROVE  Fresh # clean /\ Fresh # tmp /\ \A g \in Generators : fd[g] # Fresh
  BY FreshIs DEF Free

LEMMA TornIs ==
  ASSUME NEW now \in Nat
  PROVE  /\ Torn(now) \in Content /\ ~Torn(now).whole /\ Torn(now).mtime = now
         /\ Torn(now).keys = {}
  BY DEF Torn, Content

LEMMA WholeIs ==
  ASSUME NEW K \in SUBSET Keys, NEW now \in Nat
  PROVE  /\ Whole(K, now) \in Content /\ Whole(K, now).whole
         /\ Whole(K, now).keys = K /\ Whole(K, now).mtime = now
  BY DEF Whole, Content

LEMMA InitIInv == Init => IInv
<1> SUFFICES ASSUME Init  PROVE IInv
  OBVIOUS
<1>1. Cardinality(Generators) \in Nat
  BY KeystoreAssumption, FS_CardinalityType
<1>2. 1 \in Inodes /\ 0 \notin Inodes
  BY <1>1 DEF Inodes
<1>3. Old \in SUBSET Keys /\ 0 \in Nat /\ 1 \in Nat
  BY DEF Keys
<1>4. /\ Torn(0) \in Content /\ Torn(0).mtime = 0
      /\ Whole(Old, 1) \in Content /\ Whole(Old, 1).mtime = 1
  BY <1>3, TornIs, WholeIs
<1>5. PICK exists \in BOOLEAN :
       /\ clean = IF exists THEN 1 ELSE NoInode
       /\ inode = [i \in Inodes |-> IF exists /\ i = 1 THEN Whole(Old, 1) ELSE Torn(0)]
       /\ keys = IF exists THEN Old ELSE {}
       /\ lastModTime = IF exists THEN 1 ELSE 0
       /\ stored = IF exists THEN Old ELSE {}
  BY DEF Init
<1>6. inode \in [Inodes -> Content] /\ \A i \in Inodes : inode[i].mtime <= 1
  BY <1>4, <1>5
<1>7. clean # NoInode => /\ exists /\ clean = 1 /\ inode[clean] = Whole(Old, 1)
                         /\ inode[clean].whole /\ inode[clean].keys = Old
                         /\ inode[clean].mtime = 1
  BY <1>2, <1>3, <1>5, TornIs, WholeIs
<1>8. clean = NoInode => ~exists
  BY <1>5 DEF NoInode
<1>9. TypeOK
  <2>1. /\ clean \in Inodes \cup {NoInode} /\ keys \subseteq Keys
        /\ lastModTime \in Nat /\ stored \subseteq Keys
    BY <1>2, <1>3, <1>5
  <2>2. "idle" \in GPC /\ "idle" \in RPC
    BY DEF GPC, RPC
  <2> QED  BY <1>6, <2>1, <2>2 DEF Init, TypeOK
<1>10. InodeInv
  BY <1>6 DEF Init, InodeInv, NoInode
<1>11. Exclusive /\ RemovalInv /\ WriterInv /\ YoungerInv
  BY KeystoreAssumption DEF Init, Exclusive, RemovalInv, WriterInv, WriterInvOf, YoungerInv,
                            Writing
<1>16. TimeInv
  BY <1>5 DEF Init, TimeInv, SeenBefore
<1>12. FileIsExact
  BY <1>5, <1>7, <1>8 DEF FileIsExact, FileKeys
<1>13. CacheInv
  BY <1>5, <1>7, <1>8 DEF Init, CacheInv
<1>14. JudgedByTheFile
  BY DEF Init, JudgedByTheFile
<1>15. NonEmptyInv
  BY <1>2, <1>5, <1>7, <1>6, <1>3, TornIs, WholeIs DEF Init, NonEmptyInv, NoInode
<1> QED  BY <1>9, <1>10, <1>11, <1>12, <1>13, <1>14, <1>15, <1>16
     DEF IInv
-----------------------------------------------------------------------------
(* Opening and writing, of whatever inode.                                 *)
LEMMA OpenIs ==
  ASSUME TypeOK, InodeInv, NEW g \in Generators, NEW i \in Inodes, Open(g, i)
  PROVE  /\ clock' = clock + 1 /\ clock' \in Nat
         /\ inode' \in [Inodes -> Content] /\ fd' \in [Generators -> Inodes \cup {NoInode}]
         /\ ~inode'[i].whole /\ inode'[i].mtime = clock'
         /\ \A j \in Inodes \ {i} : inode'[j] = inode[j]
         /\ fd'[g] = i /\ \A h \in Generators \ {g} : fd'[h] = fd[h]
         /\ \A j \in Inodes : inode'[j].mtime <= clock'
<1>1. clock \in Nat /\ inode \in [Inodes -> Content]
      /\ fd \in [Generators -> Inodes \cup {NoInode}]
  BY DEF TypeOK
<1>2. clock' = clock + 1 /\ clock' \in Nat
  BY <1>1 DEF Open
<1>4. Torn(clock') \in Content /\ ~Torn(clock').whole /\ Torn(clock').mtime = clock'
  BY <1>2, TornIs
<1>5. inode' = [inode EXCEPT ![i] = Torn(clock')] /\ fd' = [fd EXCEPT ![g] = i]
  BY DEF Open
<1>6. \A j \in Inodes : inode[j].mtime <= clock /\ inode[j].mtime \in Nat
  BY <1>1 DEF InodeInv, Content
<1>7. inode'[i] = Torn(clock') /\ \A j \in Inodes \ {i} : inode'[j] = inode[j]
  BY <1>1, <1>5
<1>8. \A j \in Inodes : inode'[j].mtime <= clock'
  BY <1>1, <1>2, <1>4, <1>6, <1>7
<1> QED  BY <1>1, <1>2, <1>4, <1>5, <1>7, <1>8

LEMMA WriteIs ==
  ASSUME TypeOK, InodeInv, NEW g \in Generators, fd[g] # NoInode, Write(g)
  PROVE  /\ clock' = clock + 1 /\ clock' \in Nat
         /\ inode' \in [Inodes -> Content] /\ fd' \in [Generators -> Inodes \cup {NoInode}]
         /\ inode'[fd[g]].mtime = clock'
         /\ inode'[fd[g]].whole => inode'[fd[g]].keys = loaded[g] \cup {g}
         /\ ~inode[fd[g]].whole => inode'[fd[g]].whole
         /\ \A j \in Inodes \ {fd[g]} : inode'[j] = inode[j]
         /\ fd'[g] = NoInode /\ \A h \in Generators \ {g} : fd'[h] = fd[h]
         /\ \A j \in Inodes : inode'[j].mtime <= clock'
<1>1. clock \in Nat /\ inode \in [Inodes -> Content]
      /\ fd \in [Generators -> Inodes \cup {NoInode}] /\ fd[g] \in Inodes
  BY DEF TypeOK
<1>2. clock' = clock + 1 /\ clock' \in Nat
  BY <1>1 DEF Write
<1>3. loaded[g] \cup {g} \in SUBSET Keys
  BY DEF TypeOK, Keys
<1>4. PICK c : /\ c \in {Whole(loaded[g] \cup {g}, clock')}
                         \cup (IF inode[fd[g]].whole THEN {Torn(clock')} ELSE {})
               /\ inode' = [inode EXCEPT ![fd[g]] = c]
  BY DEF Write
<1>10. /\ Whole(loaded[g] \cup {g}, clock') \in Content
       /\ Whole(loaded[g] \cup {g}, clock').whole
       /\ Whole(loaded[g] \cup {g}, clock').mtime = clock'
       /\ Whole(loaded[g] \cup {g}, clock').keys = loaded[g] \cup {g}
  BY <1>2, <1>3, TornIs, WholeIs
<1>12. /\ Torn(clock') \in Content /\ ~Torn(clock').whole /\ Torn(clock').mtime = clock'
  BY <1>2, TornIs
<1>13. \/ c = Whole(loaded[g] \cup {g}, clock')
       \/ c = Torn(clock') /\ inode[fd[g]].whole
  BY <1>4
<1>5. /\ c \in Content /\ c.mtime = clock'
      /\ c.whole => c.keys = loaded[g] \cup {g}
      /\ ~inode[fd[g]].whole => c.whole
  BY <1>10, <1>12, <1>13
<1>6. inode'[fd[g]] = c /\ \A j \in Inodes \ {fd[g]} : inode'[j] = inode[j]
  BY <1>1, <1>4
<1>7. \A j \in Inodes : inode[j].mtime <= clock /\ inode[j].mtime \in Nat
  BY <1>1 DEF InodeInv, Content
<1>8. \A j \in Inodes : inode'[j].mtime <= clock'
  BY <1>1, <1>2, <1>5, <1>6, <1>7
<1>9. fd' = [fd EXCEPT ![g] = NoInode]
  BY DEF Write
<1> QED  BY <1>1, <1>2, <1>4, <1>5, <1>6, <1>8, <1>9

LEMMA GotoIs ==
  ASSUME TypeOK, NEW g \in Generators, NEW label \in GPC, Goto(g, label)
  PROVE  /\ gpc' \in [Generators -> GPC] /\ gpc'[g] = label
         /\ \A h \in Generators \ {g} : gpc'[h] = gpc[h]
  BY DEF TypeOK, Goto

LEMMA GLabels ==
  /\ {"idle", "open", "write", "rename", "removeTmp"} \subseteq GPC
  /\ {"removeFile", "reopen", "rewrite", "generated", "failed"} \subseteq GPC
  BY DEF GPC

(* What the steps of a generator do to the paths and the files.            *)
LEMMA OpenTmpIs ==
  ASSUME TypeOK, InodeInv, NEW g \in Generators, OpenTmp(g)
  PROVE  \E i \in Inodes :
           /\ Open(g, i) /\ tmp' = i /\ clean' = clean /\ i # clean
           /\ \A h \in Generators : tmp = NoInode => fd[h] # i
<1>1. OpenTmp(g) => LET i == IF tmp = NoInode THEN Fresh ELSE tmp IN
                      Open(g, i) /\ tmp' = i /\ clean' = clean
  BY DEF OpenTmp
<1>2. CASE tmp = NoInode
  BY <1>1, <1>2, FreshIs, FreshIsApart
<1>3. CASE tmp # NoInode
  BY <1>1, <1>3 DEF TypeOK, InodeInv
<1> QED  BY <1>2, <1>3

LEMMA OpenFileIs ==
  ASSUME TypeOK, InodeInv, NEW g \in Generators, OpenFile(g)
  PROVE  \E i \in Inodes : Open(g, i) /\ clean' = i /\ tmp' = tmp /\ i # tmp
<1>1. OpenFile(g) => LET i == IF clean = NoInode THEN Fresh ELSE clean IN
                       Open(g, i) /\ clean' = i /\ tmp' = tmp
  BY DEF OpenFile
<1>2. CASE clean = NoInode
  BY <1>1, <1>2, FreshIs, FreshIsApart
<1>3. CASE clean # NoInode
  BY <1>1, <1>3 DEF TypeOK, InodeInv
<1> QED  BY <1>2, <1>3

LEMMA RevokeIs ==
  ASSUME TypeOK, InodeInv, Revoke
  PROVE  \E i \in Inodes, k \in Keys :
           /\ clean # NoInode /\ inode[clean].whole /\ k \in inode[clean].keys
           /\ revoked = {} /\ revoked' = {k} /\ clock' = clock + 1 /\ clean' = i
           /\ i # clean /\ i # tmp /\ tmp' = tmp /\ stored' = stored \ {k}
           /\ \A j \in Inodes \ {i} : inode'[j] = inode[j]
           /\ inode' \in [Inodes -> Content]
           /\ inode'[i].whole /\ inode'[i].keys = inode[clean].keys \ {k}
           /\ inode'[i].mtime = clock'
<1>1. clean # NoInode /\ inode[clean].whole /\ clean \in Inodes
  BY DEF Revoke, Parses, TypeOK
<1>2. inode[clean].keys \subseteq Keys /\ inode \in [Inodes -> Content] /\ clock \in Nat
  BY <1>1 DEF TypeOK, Content
<1>3. PICK k \in inode[clean].keys :
        /\ revoked' = {k} /\ clock' = clock + 1
        /\ inode' = [inode EXCEPT ![Fresh] = Whole(inode[clean].keys \ {k}, clock')]
        /\ clean' = Fresh /\ stored' = stored \ {k}
  BY DEF Revoke
<1>4. clock' \in Nat /\ inode[clean].keys \ {k} \in SUBSET Keys
  BY <1>2, <1>3
<1>5. PICK c : c = Whole(inode[clean].keys \ {k}, clock')
  OBVIOUS
<1>6. c \in Content /\ c.whole /\ c.keys = inode[clean].keys \ {k} /\ c.mtime = clock'
  BY <1>4, <1>5, WholeIs
<1>7. Fresh \in Inodes /\ Fresh # clean /\ Fresh # tmp
  BY FreshIs, FreshIsApart
<1>8. /\ inode' \in [Inodes -> Content] /\ inode'[Fresh] = c
      /\ \A j \in Inodes \ {Fresh} : inode'[j] = inode[j]
  BY <1>2, <1>3, <1>5, <1>6, <1>7
<1>9. revoked = {} /\ tmp' = tmp
  BY DEF Revoke
<1> QED  BY <1>1, <1>2, <1>3, <1>6, <1>7, <1>8, <1>9
-----------------------------------------------------------------------------
(* A request leaves the files and the generators alone.                    *)
LEMMA RequestLeaves ==
  ASSUME NEW r \in Requests, Begin(r) \/ ValidateKey(r)
  PROVE  UNCHANGED <<files, generating, revoked, overlap, removedBy, stored>>
<1> USE DEF files, generating
<1>1. CASE Begin(r) \/ Stat(r) \/ ReloadStat(r)
  BY <1>1 DEF Begin, Stat, ReloadStat
<1>2. CASE ReloadRead(r) \/ Check(r)
  BY <1>2 DEF ReloadRead, Check
<1> QED  BY <1>1, <1>2 DEF ValidateKey

(* A generator and the administrator leave the listener alone.             *)
LEMMA WriterLeaves ==
  ASSUME (\E g \in Generators : Load(g) \/ AddKey(g) \/ Dies(g)) \/ Revoke
  PROVE  UNCHANGED listening
<1> USE DEF listening
<1>1. ASSUME NEW g \in Generators, Load(g) \/ OpenTmp(g) \/ WriteTmp(g) \/ Rename(g)
      PROVE  UNCHANGED listening
  BY <1>1 DEF Load, OpenTmp, WriteTmp, Rename
<1>2. ASSUME NEW g \in Generators, RemoveTmp(g) \/ RemoveFile(g) \/ OpenFile(g)
                                    \/ WriteFile(g) \/ Dies(g)
      PROVE  UNCHANGED listening
  BY <1>2 DEF RemoveTmp, RemoveFile, OpenFile, WriteFile, Dies
<1> QED  BY <1>1, <1>2 DEF Revoke, AddKey

LEMMA ListenerType ==
  ASSUME TypeOK, UNCHANGED listening, calm' = calm \/ Disturbed
  PROVE  /\ keys' \subseteq Keys /\ lastModTime' \in Nat
         /\ rpc' \in [Requests -> RPC]
         /\ lock' \in {r \in Requests : rpc'[r] = "read"} \cup {NoOne}
         /\ info' \in [Requests -> Nat] /\ accepted' \in [Requests -> SUBSET Keys]
         /\ calm' \in [Requests -> BOOLEAN]
  BY DEF TypeOK, listening, Disturbed

LEMMA GeneratorType ==
  ASSUME TypeOK, InodeInv, NEW g \in Generators, Load(g) \/ AddKey(g) \/ Dies(g)
  PROVE  TypeOK'
<1>1. calm' = calm \/ Disturbed
  BY DEF Load, AddKey, OpenTmp, WriteTmp, Rename, RemoveTmp, RemoveFile, OpenFile, WriteFile,
         Dies
<1>2. UNCHANGED listening
  BY WriterLeaves
<1>3. /\ keys' \subseteq Keys /\ lastModTime' \in Nat
      /\ rpc' \in [Requests -> RPC]
      /\ lock' \in {r \in Requests : rpc'[r] = "read"} \cup {NoOne}
      /\ info' \in [Requests -> Nat] /\ accepted' \in [Requests -> SUBSET Keys]
      /\ calm' \in [Requests -> BOOLEAN]
  BY <1>1, <1>2, ListenerType
<1>4. g \in Keys
  BY DEF Keys
<1>12. removedBy' \in Generators \cup {NoOne}
  <2>1. removedBy' \in {removedBy, g, NoOne}
    BY DEF Load, AddKey, OpenTmp, WriteTmp, Rename, RemoveTmp, RemoveFile, OpenFile,
           WriteFile, Dies
  <2> QED  BY <2>1 DEF TypeOK
<1>5. CASE Load(g)
  <2>1. gpc' \in [Generators -> GPC]
    BY <1>5, GotoIs, GLabels DEF Load
  <2>2. loaded' \in [Generators -> SUBSET Keys]
    <3>1. clean # NoInode => inode[clean].keys \in SUBSET Keys
      BY DEF TypeOK, Content
    <3>2. \/ loaded' = loaded
          \/ loaded' = [loaded EXCEPT ![g] = IF clean = NoInode THEN {} ELSE inode[clean].keys]
      BY <1>5 DEF Load
    <3> QED  BY <3>1, <3>2 DEF TypeOK
  <2>3. overlap' \in BOOLEAN
    BY <1>5 DEF Load, TypeOK
  <2> QED  BY <1>3, <1>12, <1>5, <2>1, <2>2, <2>3 DEF Load, TypeOK, files
<1>6. CASE OpenTmp(g)
  <2>1. PICK i \in Inodes : Open(g, i) /\ tmp' = i /\ clean' = clean
    BY <1>6, OpenTmpIs
  <2>2. /\ clock' \in Nat /\ inode' \in [Inodes -> Content]
        /\ fd' \in [Generators -> Inodes \cup {NoInode}]
    BY <2>1, OpenIs
  <2>3. gpc' \in [Generators -> GPC]
    BY <1>6, GotoIs, GLabels DEF OpenTmp
  <2> QED  BY <1>3, <1>12, <1>6, <2>1, <2>2, <2>3 DEF OpenTmp, TypeOK
<1>7. CASE WriteTmp(g)
  <2>1. fd[g] # NoInode
    BY <1>7 DEF WriteTmp, InodeInv
  <2>2. /\ clock' \in Nat /\ inode' \in [Inodes -> Content]
        /\ fd' \in [Generators -> Inodes \cup {NoInode}]
    BY <1>7, <2>1, WriteIs DEF WriteTmp
  <2>3. gpc' \in [Generators -> GPC]
    BY <1>7, GotoIs, GLabels DEF WriteTmp
  <2> QED  BY <1>3, <1>12, <1>7, <2>2, <2>3 DEF WriteTmp, TypeOK
<1>8. CASE Rename(g) \/ RemoveTmp(g) \/ RemoveFile(g)
  <2>1. gpc' \in [Generators -> GPC]
    BY <1>8, GotoIs, GLabels DEF Rename, RemoveTmp, RemoveFile
  <2>2. /\ clean' \in Inodes \cup {NoInode} /\ tmp' \in Inodes \cup {NoInode}
        /\ stored' \subseteq Keys
    BY <1>4, <1>8 DEF Rename, RemoveTmp, RemoveFile, TypeOK
  <2> QED  BY <1>3, <1>12, <1>8, <2>1, <2>2 DEF Rename, RemoveTmp, RemoveFile, TypeOK
<1>9. CASE OpenFile(g)
  <2>1. PICK i \in Inodes : Open(g, i) /\ clean' = i /\ tmp' = tmp
    BY <1>9, OpenFileIs
  <2>2. /\ clock' \in Nat /\ inode' \in [Inodes -> Content]
        /\ fd' \in [Generators -> Inodes \cup {NoInode}]
    BY <2>1, OpenIs
  <2>3. gpc' \in [Generators -> GPC]
    BY <1>9, GotoIs, GLabels DEF OpenFile
  <2> QED  BY <1>3, <1>12, <1>9, <2>1, <2>2, <2>3 DEF OpenFile, TypeOK
<1>10. CASE WriteFile(g)
  <2>1. fd[g] # NoInode
    BY <1>10 DEF WriteFile, InodeInv
  <2>2. /\ clock' \in Nat /\ inode' \in [Inodes -> Content]
        /\ fd' \in [Generators -> Inodes \cup {NoInode}]
    BY <1>10, <2>1, WriteIs DEF WriteFile
  <2>3. gpc' \in [Generators -> GPC]
    BY <1>10, GotoIs, GLabels DEF WriteFile
  <2>4. stored' \subseteq Keys
    BY <1>4, <1>10 DEF WriteFile, TypeOK
  <2> QED  BY <1>3, <1>12, <1>10, <2>2, <2>3, <2>4 DEF WriteFile, TypeOK
<1>11. CASE Dies(g)
  <2>1. gpc' \in [Generators -> GPC]
    BY <1>11, GotoIs, GLabels DEF Dies
  <2>2. fd' \in [Generators -> Inodes \cup {NoInode}]
    BY <1>11 DEF Dies, TypeOK
  <2> QED  BY <1>3, <1>12, <1>11, <2>1, <2>2 DEF Dies, TypeOK, files
<1> QED  BY <1>5, <1>6, <1>7, <1>8, <1>9, <1>10, <1>11 DEF AddKey

LEMMA RLabels == {"idle", "stat", "reload", "read", "check"} \subseteq RPC
  BY DEF RPC

LEMMA RequestType ==
  ASSUME TypeOK, NEW r \in Requests, Begin(r) \/ ValidateKey(r)
  PROVE  TypeOK'
<1>1. UNCHANGED <<files, generating, revoked, overlap, removedBy, stored>>
  BY RequestLeaves
<1>2. /\ rpc' \in [Requests -> RPC]
      /\ \A q \in Requests \ {r} : rpc'[q] = rpc[q]
  BY RLabels DEF Begin, ValidateKey, Stat, ReloadStat, ReloadRead, Check, GotoR, TypeOK
<1>3. lock' \in {q \in Requests : rpc'[q] = "read"} \cup {NoOne}
  <2>1. CASE Begin(r) \/ Stat(r) \/ Check(r)
    <3>1. lock' = lock /\ rpc[r] # "read"
      BY <2>1 DEF Begin, Stat, Check
    <3> QED  BY <1>2, <3>1 DEF TypeOK
  <2>2. CASE ReloadStat(r)
    <3>1. \/ lock' = r /\ rpc'[r] = "read"
          \/ lock' = NoOne
      BY <2>2 DEF ReloadStat, GotoR, TypeOK
    <3> QED  BY <3>1
  <2>3. CASE ReloadRead(r)
    BY <2>3 DEF ReloadRead
  <2> QED  BY <2>1, <2>2, <2>3 DEF ValidateKey
<1>4. info' \in [Requests -> Nat]
  <2>1. clean # NoInode => inode[clean].mtime \in Nat
    BY DEF TypeOK, Content
  <2>2. \/ info' = info \/ info' = [info EXCEPT ![r] = 0]
        \/ clean # NoInode /\ info' = [info EXCEPT ![r] = inode[clean].mtime]
    BY DEF Begin, ValidateKey, Stat, ReloadStat, ReloadRead, Check
  <2> QED  BY <2>1, <2>2 DEF TypeOK
<1>5. keys' \subseteq Keys /\ lastModTime' \in Nat
  <2>1. clean # NoInode => inode[clean].keys \subseteq Keys
    BY DEF TypeOK, Content
  <2>2. \/ keys' = keys /\ lastModTime' = lastModTime
        \/ clean # NoInode /\ keys' = inode[clean].keys /\ lastModTime' = info[r]
    BY DEF Begin, ValidateKey, Stat, ReloadStat, ReloadRead, Check, Parses
  <2> QED  BY <2>1, <2>2 DEF TypeOK
<1>6. accepted' \in [Requests -> SUBSET Keys] /\ calm' \in [Requests -> BOOLEAN]
  <2>1. \/ accepted' = accepted \/ accepted' = [accepted EXCEPT ![r] = {}]
        \/ accepted' = [accepted EXCEPT ![r] = keys]
    BY DEF Begin, ValidateKey, Stat, ReloadStat, ReloadRead, Check
  <2>2. calm' = calm \/ calm' = [calm EXCEPT ![r] = TRUE]
    BY DEF Begin, ValidateKey, Stat, ReloadStat, ReloadRead, Check
  <2> QED  BY <2>1, <2>2 DEF TypeOK
<1> QED  BY <1>1, <1>2, <1>3, <1>4, <1>5, <1>6 DEF TypeOK, files, generating

LEMMA TypeStep ==
  ASSUME TypeOK, InodeInv, [Next]_vars
  PROVE  TypeOK'
<1>1. CASE Revoke
  <2>1. PICK i \in Inodes, k \in Keys :
           /\ revoked' = {k} /\ clock' = clock + 1 /\ clean' = i
           /\ tmp' = tmp /\ stored' = stored \ {k} /\ inode' \in [Inodes -> Content]
    BY <1>1, RevokeIs
  <2>2. UNCHANGED <<generating, listening, removedBy>> /\ Disturbed /\ overlap' \in BOOLEAN
    BY <1>1 DEF Revoke, TypeOK
  <2> QED  BY <2>1, <2>2 DEF TypeOK, generating, listening, Disturbed
<1>2. CASE UNCHANGED vars
  BY <1>2 DEF vars, files, generating, listening, TypeOK
<1> QED  BY <1>1, <1>2, GeneratorType, RequestType DEF Next
-----------------------------------------------------------------------------
LEMMA NoInodeIs == NoInode \notin Inodes
  BY DEF NoInode, Inodes

LEMMA OpenedStep ==
  ASSUME TypeOK, InodeInv, NEW g \in Generators, OpenTmp(g) \/ OpenFile(g)
  PROVE  InodeInv'
<1>1. PICK i \in Inodes : /\ Open(g, i)
                          /\ \/ tmp' = i /\ clean' = clean /\ i # clean
                             \/ clean' = i /\ tmp' = tmp /\ i # tmp
  BY OpenTmpIs, OpenFileIs
<1>2. /\ clock' = clock + 1 /\ fd'[g] = i /\ \A h \in Generators \ {g} : fd'[h] = fd[h]
      /\ \A j \in Inodes : inode'[j].mtime <= clock'
  BY <1>1, OpenIs
<1>3. gpc'[g] \in {"write", "rewrite"} /\ \A h \in Generators \ {g} : gpc'[h] = gpc[h]
  BY GotoIs, GLabels DEF OpenTmp, OpenFile
<1>4. clock' >= 1
  BY <1>2 DEF TypeOK, InodeInv
<1> QED  BY <1>1, <1>2, <1>3, <1>4, NoInodeIs DEF InodeInv

LEMMA WrittenStep ==
  ASSUME TypeOK, InodeInv, NEW g \in Generators, WriteTmp(g) \/ WriteFile(g)
  PROVE  InodeInv'
<1>1. Write(g) /\ fd[g] # NoInode /\ UNCHANGED <<clean, tmp>>
  BY DEF WriteTmp, WriteFile, InodeInv
<1>2. /\ clock' = clock + 1 /\ fd'[g] = NoInode
      /\ \A h \in Generators \ {g} : fd'[h] = fd[h]
      /\ \A j \in Inodes : inode'[j].mtime <= clock'
  BY <1>1, WriteIs
<1>3. gpc'[g] \in {"rename", "generated"} /\ \A h \in Generators \ {g} : gpc'[h] = gpc[h]
  BY GotoIs, GLabels DEF WriteTmp, WriteFile
<1>4. clock' >= 1
  BY <1>2 DEF TypeOK, InodeInv
<1> QED  BY <1>1, <1>2, <1>3, <1>4 DEF InodeInv

LEMMA MovedStep ==
  ASSUME TypeOK, InodeInv, NEW g \in Generators,
         Load(g) \/ Rename(g) \/ RemoveTmp(g) \/ RemoveFile(g) \/ Dies(g)
  PROVE  InodeInv'
<1>1. /\ gpc'[g] \notin {"write", "rewrite"}
      /\ \A h \in Generators \ {g} : gpc'[h] = gpc[h]
  <2>1. CASE Load(g)
    BY <2>1, GotoIs, GLabels DEF Load
  <2>2. CASE Rename(g) \/ RemoveTmp(g)
    BY <2>2, GotoIs, GLabels DEF Rename, RemoveTmp
  <2>3. CASE RemoveFile(g) \/ Dies(g)
    BY <2>3, GotoIs, GLabels DEF RemoveFile, Dies
  <2> QED  BY <2>1, <2>2, <2>3
<1>2. fd'[g] = NoInode /\ \A h \in Generators \ {g} : fd'[h] = fd[h]
  <2>1. CASE Dies(g)
    BY <2>1 DEF Dies, TypeOK
  <2>2. CASE ~Dies(g)
    BY <2>2 DEF Load, Rename, RemoveTmp, RemoveFile, InodeInv
  <2> QED  BY <2>1, <2>2
<1>3. UNCHANGED <<clock, inode>> /\ (tmp' # NoInode => tmp' # clean')
  BY NoInodeIs DEF Load, Rename, RemoveTmp, RemoveFile, Dies, files, InodeInv, TypeOK
<1> QED  BY <1>1, <1>2, <1>3 DEF InodeInv

LEMMA InodeStep ==
  ASSUME TypeOK, InodeInv, [Next]_vars
  PROVE  InodeInv'
<1>1. CASE Revoke
  <2>1. PICK i \in Inodes, k \in Keys :
           /\ clock' = clock + 1 /\ clean' = i /\ i # tmp /\ tmp' = tmp
           /\ \A j \in Inodes \ {i} : inode'[j] = inode[j]
           /\ inode'[i].mtime = clock'
    BY <1>1, RevokeIs
  <2>2. \A j \in Inodes : inode[j].mtime \in Nat /\ clock \in Nat
    BY DEF TypeOK, Content
  <2>3. \A j \in Inodes : inode'[j].mtime <= clock'
    BY <2>1, <2>2 DEF InodeInv
  <2>4. UNCHANGED generating /\ clock' >= 1
    BY <1>1, <2>1 DEF Revoke, InodeInv, TypeOK
  <2> QED  BY <2>1, <2>3, <2>4 DEF InodeInv, generating
<1>2. CASE UNCHANGED <<files, generating>>
  BY <1>2 DEF files, generating, InodeInv
<1>3. ASSUME NEW r \in Requests, Begin(r) \/ ValidateKey(r)
      PROVE  InodeInv'
  BY <1>2, <1>3, RequestLeaves
<1>4. CASE UNCHANGED vars
  BY <1>2, <1>4 DEF vars
<1> QED  BY <1>1, <1>3, <1>4, OpenedStep, WrittenStep, MovedStep DEF Next, AddKey
-----------------------------------------------------------------------------
(* Whoever removed the keystore's file has not written it yet.             *)
LEMMA RemovalStep ==
  ASSUME TypeOK, RemovalInv, [Next]_vars
  PROVE  RemovalInv'
<1>1. ASSUME UNCHANGED <<generating, removedBy>>
      PROVE  RemovalInv'
  BY <1>1 DEF RemovalInv, generating
<1>2. ASSUME NEW g \in Generators, Load(g) \/ AddKey(g) \/ Dies(g)
      PROVE  RemovalInv'
  <2>1. \A h \in Generators \ {g} : gpc'[h] = gpc[h]
    BY <1>2, GotoIs, GLabels DEF Load, AddKey, OpenTmp, WriteTmp, Rename, RemoveTmp,
                                 RemoveFile, OpenFile, WriteFile, Dies
  <2>2. removedBy' \in {removedBy, g, NoOne}
    BY <1>2 DEF Load, AddKey, OpenTmp, WriteTmp, Rename, RemoveTmp, RemoveFile, OpenFile,
                WriteFile, Dies
  <2>3. removedBy' = g => gpc'[g] \in {"reopen", "rewrite", "failed"}
    <3>1. CASE RemoveFile(g) \/ OpenFile(g)
      BY <3>1, GotoIs, GLabels DEF RemoveFile, OpenFile
    <3>2. CASE WriteFile(g)
      BY <3>2, KeystoreAssumption DEF WriteFile
    <3>3. CASE Dies(g)
      BY <3>3, GotoIs, GLabels DEF Dies
    <3>4. CASE Load(g) \/ OpenTmp(g) \/ WriteTmp(g) \/ Rename(g) \/ RemoveTmp(g)
      BY <3>4 DEF Load, OpenTmp, WriteTmp, Rename, RemoveTmp, RemovalInv
    <3> QED  BY <1>2, <3>1, <3>2, <3>3, <3>4 DEF AddKey
  <2>4. \A h \in Generators : h # NoOne
    BY KeystoreAssumption
  <2>5. \A h \in Generators \ {g} :
          removedBy' = h => gpc'[h] \in {"reopen", "rewrite", "failed"}
    BY <2>1, <2>2, <2>4 DEF RemovalInv
  <2> QED  BY <2>3, <2>5 DEF RemovalInv
<1>3. CASE Revoke
  BY <1>1, <1>3 DEF Revoke
<1>4. CASE UNCHANGED vars
  BY <1>1, <1>4 DEF vars
<1>5. ASSUME NEW r \in Requests, Begin(r) \/ ValidateKey(r)
      PROVE  RemovalInv'
  BY <1>1, <1>5, RequestLeaves
<1> QED  BY <1>2, <1>3, <1>4, <1>5 DEF Next

(* A request sees the file at the keystore's path and no other.            *)
LEMMA SeenIs ==
  ASSUME TypeOK, NEW r \in Requests, Begin(r) \/ ValidateKey(r)
  PROVE  \A now \in Nat :
           SeenBefore(now) /\ (clean # NoInode => inode[clean].mtime < now) =>
             /\ lastModTime' < now
             /\ \A q \in Requests : rpc'[q] = "read" => info'[q] < now
<1> SUFFICES ASSUME NEW now \in Nat, SeenBefore(now),
                    clean # NoInode => inode[clean].mtime < now
             PROVE  /\ lastModTime' < now
                    /\ \A q \in Requests : rpc'[q] = "read" => info'[q] < now
  OBVIOUS
<1>1. /\ lastModTime < now /\ \A q \in Requests : rpc[q] = "read" => info[q] < now
      /\ rpc \in [Requests -> RPC] /\ info \in [Requests -> Nat]
  BY DEF SeenBefore, TypeOK
<1> USE DEF GotoR
<1>2. CASE Begin(r) \/ Stat(r) \/ Check(r)
  BY <1>1, <1>2 DEF Begin, Stat, Check
<1>3. CASE ReloadStat(r)
  BY <1>1, <1>3 DEF ReloadStat
<1>4. CASE ReloadRead(r)
  <2>1. lastModTime' \in {lastModTime, info[r]} /\ info[r] < now
    BY <1>1, <1>4 DEF ReloadRead
  <2>2. rpc'[r] = "check" /\ \A q \in Requests \ {r} : rpc'[q] = rpc[q] /\ info'[q] = info[q]
    BY <1>1, <1>4 DEF ReloadRead
  <2> QED  BY <1>1, <2>1, <2>2
<1> QED  BY <1>2, <1>3, <1>4 DEF ValidateKey

LEMMA TimeStep ==
  ASSUME TypeOK, InodeInv, TimeInv, [Next]_vars
  PROVE  TimeInv'
<1>1. clock \in Nat /\ lastModTime \in Nat /\ info \in [Requests -> Nat]
  BY DEF TypeOK
<1>2. ASSUME UNCHANGED listening, clock' \in {clock, clock + 1}
      PROVE  TimeInv'
  <2>1. UNCHANGED <<lastModTime, rpc, info>>
    BY <1>2 DEF listening
  <2>2. /\ lastModTime < clock + 1
        /\ \A r \in Requests : rpc[r] = "read" => info[r] < clock + 1
    BY DEF TimeInv, SeenBefore
  <2>3. CASE clock' = clock
    BY <2>1, <2>2, <2>3 DEF TimeInv, SeenBefore
  <2>4. CASE clock' = clock + 1
    <3>1. \A n \in Nat : n < clock + 1 => n < clock + 1 + 1
      BY <1>1
    <3>2. /\ lastModTime < clock + 1 + 1
          /\ \A r \in Requests : rpc[r] = "read" => info[r] < clock + 1 + 1
      BY <1>1, <2>2, <3>1
    <3> QED  BY <2>1, <2>4, <3>2 DEF TimeInv, SeenBefore
  <2> QED  BY <1>2, <2>3, <2>4
<1>3. ASSUME NEW r \in Requests, Begin(r) \/ ValidateKey(r)
      PROVE  TimeInv'
  <2>1. clean # NoInode => inode[clean].mtime < clock + 1
    BY <1>1 DEF InodeInv, TypeOK, Content
  <2>2. clock + 1 \in Nat /\ clock' = clock
    BY <1>1, <1>3, RequestLeaves DEF files
  <2>3. /\ lastModTime' < clock + 1
        /\ \A q \in Requests : rpc'[q] = "read" => info'[q] < clock + 1
    BY <1>3, <2>1, <2>2, SeenIs DEF TimeInv
  <2> QED  BY <2>2, <2>3 DEF TimeInv, SeenBefore
<1>4. ASSUME (\E g \in Generators : Load(g) \/ AddKey(g) \/ Dies(g)) \/ Revoke
      PROVE  TimeInv'
  <2>1. clock' = clock \/ clock' = clock + 1
    <3>1. ASSUME NEW g \in Generators, Load(g) \/ AddKey(g) \/ Dies(g)
          PROVE  clock' = clock \/ clock' = clock + 1
      <4>1. CASE OpenTmp(g) \/ OpenFile(g)
        BY <4>1, OpenTmpIs, OpenFileIs, OpenIs
      <4>2. CASE WriteTmp(g) \/ WriteFile(g)
        BY <4>2 DEF WriteTmp, WriteFile, Write
      <4>3. CASE Load(g) \/ Rename(g) \/ RemoveTmp(g) \/ RemoveFile(g) \/ Dies(g)
        BY <4>3 DEF Load, Rename, RemoveTmp, RemoveFile, Dies, files
      <4> QED  BY <3>1, <4>1, <4>2, <4>3 DEF AddKey
    <3>2. CASE Revoke
      BY <3>2, RevokeIs
    <3> QED  BY <1>4, <3>1, <3>2
  <2>2. UNCHANGED listening
    BY <1>4, WriterLeaves
  <2> QED  BY <1>2, <2>1, <2>2
<1>5. CASE UNCHANGED vars
  BY <1>1, <1>2, <1>5 DEF vars, files
<1> QED  BY <1>3, <1>4, <1>5 DEF Next
-----------------------------------------------------------------------------
(* One generator alone in its writing: what it does decides for all.       *)
LEMMA Alone ==
  ASSUME TypeOK, TypeOK', NEW g \in Generators, ~overlap',
         \A h \in Generators \ {g} : gpc'[h] = gpc[h] /\ gpc[h] \notin Writing,
         WriterInvOf(g)'
  PROVE  Exclusive' /\ WriterInv'
<1>1. Exclusive'
  BY DEF Exclusive
<1>2. \A h \in Generators \ {g} : WriterInvOf(h)'
  <2> SUFFICES ASSUME NEW h \in Generators \ {g}  PROVE WriterInvOf(h)'
    OBVIOUS
  <2>1. gpc'[h] \notin Writing /\ gpc'[h] \in GPC
    BY DEF TypeOK
  <2> QED  BY <2>1 DEF WriterInvOf, Writing, GPC
<1> QED  BY <1>1, <1>2 DEF WriterInv

(* The file at the keystore's path stays as it is, becomes a younger one   *)
(* or is taken away by a fallback; every request under way knows of the    *)
(* last two.                                                               *)
FileStays ==
  /\ clean' = clean /\ calm' = calm /\ removedBy' = removedBy
  /\ clean # NoInode => inode'[clean] = inode[clean]

FileReplaced ==
  /\ clean' # NoInode /\ Disturbed
  /\ SeenBefore(inode'[clean'].mtime)

FileGone ==
  /\ clean' \in {clean, NoInode} /\ inode' = inode /\ Disturbed
  /\ removedBy' # NoOne

Safe == Exclusive /\ WriterInv /\ FileIsExact

LEMMA WriterStep ==
  ASSUME TypeOK, TypeOK', InodeInv, RemovalInv, TimeInv, YoungerInv, Safe, ~overlap',
         NEW g \in Generators, AddKey(g) \/ Dies(g)
  PROVE  /\ Safe'
         /\ FileStays \/ FileReplaced \/ FileGone
         /\ gpc'[g] = "rename" => SeenBefore(inode'[tmp'].mtime)
         /\ \A h \in Generators \ {g} : gpc'[h] # "rename"
<1>1. ~overlap
  BY DEF AddKey, OpenTmp, WriteTmp, Rename, RemoveTmp, RemoveFile, OpenFile, WriteFile, Dies
<1>2. gpc[g] \in Writing
  BY DEF AddKey, OpenTmp, WriteTmp, Rename, RemoveTmp, RemoveFile, OpenFile, WriteFile, Dies,
         Writing, GPC
<1>3. \A h \in Generators \ {g} : gpc[h] \notin Writing
  BY <1>1, <1>2 DEF Safe, Exclusive
<1>4. /\ WriterInvOf(g)
      /\ removedBy = NoOne => (clean # NoInode => inode[clean].whole) /\ FileKeys = stored
      /\ gpc[g] = "rename" => SeenBefore(inode[tmp].mtime)
      /\ removedBy = g => gpc[g] \in {"reopen", "rewrite", "failed"}
  BY <1>1 DEF Safe, WriterInv, FileIsExact, YoungerInv, RemovalInv
<1>5. \A h \in Generators \ {g} : gpc'[h] = gpc[h]
  BY GotoIs, GLabels DEF AddKey, OpenTmp, WriteTmp, Rename, RemoveTmp, RemoveFile, OpenFile,
                         WriteFile, Dies
<1>6. clean \in Inodes \cup {NoInode} /\ tmp \in Inodes \cup {NoInode} /\ g # NoOne
  BY KeystoreAssumption DEF TypeOK
<1>7. \A h \in Generators \ {g} : gpc'[h] # "rename"
  BY <1>3, <1>5 DEF Writing, GPC
<1> USE NoInodeIs
<1>8. CASE OpenTmp(g)
  <2>1. PICK i \in Inodes : Open(g, i) /\ tmp' = i /\ clean' = clean /\ i # clean
    BY <1>8, OpenTmpIs
  <2>2. /\ ~inode'[i].whole /\ fd'[g] = i
        /\ \A j \in Inodes \ {i} : inode'[j] = inode[j]
    BY <2>1, OpenIs
  <2>3. /\ gpc'[g] = "write" /\ gpc[g] = "open"
        /\ UNCHANGED <<stored, loaded, calm, removedBy>>
    BY <1>8, GotoIs, GLabels DEF OpenTmp
  <2>4. FileStays
    BY <1>6, <2>1, <2>2, <2>3 DEF FileStays
  <2>5. WriterInvOf(g)'
    BY <1>2, <1>4, <2>1, <2>2, <2>3 DEF WriterInvOf
  <2>6. FileIsExact'
    BY <1>4, <2>1, <2>3, <2>4 DEF FileIsExact, FileKeys, FileStays
  <2> QED  BY <1>3, <1>5, <1>7, <2>3, <2>4, <2>5, <2>6, Alone DEF Safe
<1>9. CASE WriteTmp(g)
  <2>1. /\ gpc[g] = "write" /\ gpc'[g] = "rename" /\ Write(g)
        /\ UNCHANGED <<clean, tmp, stored, loaded, calm, removedBy>>
    BY <1>9, GotoIs, GLabels DEF WriteTmp
  <2>2. tmp # NoInode /\ fd[g] = tmp /\ ~inode[tmp].whole /\ tmp # clean
    BY <1>4, <2>1 DEF WriterInvOf, InodeInv
  <2>3. /\ inode'[tmp].whole /\ inode'[tmp].keys = loaded[g] \cup {g}
        /\ inode'[tmp].mtime = clock' /\ clock' = clock + 1
        /\ \A j \in Inodes \ {tmp} : inode'[j] = inode[j]
    BY <2>1, <2>2, WriteIs
  <2>4. FileStays
    BY <1>6, <2>1, <2>2, <2>3 DEF FileStays
  <2>5. clean # NoInode => inode[clean].mtime <= clock /\ inode[clean].mtime \in Nat
    BY <1>6 DEF InodeInv, TypeOK, Content
  <2>6. clean # NoInode => clock' > inode'[clean].mtime
    BY <2>3, <2>4, <2>5 DEF TypeOK, FileStays
  <2>7. WriterInvOf(g)'
    BY <1>2, <1>4, <2>1, <2>2, <2>3, <2>6 DEF WriterInvOf
  <2>8. FileIsExact'
    BY <1>4, <2>1, <2>4 DEF FileIsExact, FileKeys, FileStays
  <2>9. SeenBefore(inode'[tmp'].mtime)
    BY <2>1, <2>3 DEF TimeInv
  <2> QED  BY <1>3, <1>5, <1>7, <2>4, <2>7, <2>8, <2>9, Alone DEF Safe
<1>10. CASE Rename(g)
  <2>1. /\ gpc[g] = "rename" /\ tmp # NoInode /\ inode[tmp].whole
        /\ inode[tmp].keys = loaded[g] \cup {g}
        /\ SeenBefore(inode[tmp].mtime) /\ removedBy # g
        /\ removedBy = NoOne => loaded[g] = stored
    BY <1>2, <1>4, <1>10 DEF Rename, WriterInvOf
  <2>2. inode' = inode /\ removedBy' = removedBy /\ loaded' = loaded
    BY <1>10 DEF Rename
  <2>3. CASE clean' = tmp /\ stored' = stored \cup {g} /\ Disturbed /\ Goto(g, "generated")
    <3>1. gpc'[g] = "generated"
      BY <2>3, GotoIs, GLabels
    <3>2. FileReplaced
      BY <2>1, <2>2, <2>3 DEF FileReplaced
    <3>3. WriterInvOf(g)'
      BY <3>1 DEF WriterInvOf, Writing
    <3>4. FileIsExact'
      BY <2>1, <2>2, <2>3 DEF FileIsExact, FileKeys
    <3> QED  BY <1>3, <1>5, <1>7, <3>1, <3>2, <3>3, <3>4, Alone DEF Safe
  <2>4. CASE UNCHANGED <<clean, tmp, stored, calm>> /\ Goto(g, "removeTmp")
    <3>1. gpc'[g] = "removeTmp"
      BY <2>4, GotoIs, GLabels
    <3>2. FileStays
      BY <2>2, <2>4 DEF FileStays
    <3>3. WriterInvOf(g)'
      BY <2>1, <2>2, <2>4, <3>1 DEF WriterInvOf
    <3>4. FileIsExact'
      BY <1>4, <2>2, <2>4 DEF FileIsExact, FileKeys
    <3> QED  BY <1>3, <1>5, <1>7, <3>1, <3>2, <3>3, <3>4, Alone DEF Safe
  <2> QED  BY <1>10, <2>3, <2>4 DEF Rename
<1>11. CASE RemoveTmp(g)
  <2>1. /\ gpc[g] = "removeTmp" /\ gpc'[g] = "removeFile"
        /\ UNCHANGED <<clean, inode, stored, loaded, calm, removedBy>>
    BY <1>11, GotoIs, GLabels DEF RemoveTmp
  <2>2. FileStays
    BY <2>1 DEF FileStays
  <2>3. WriterInvOf(g)'
    BY <1>2, <1>4, <2>1 DEF WriterInvOf
  <2>4. FileIsExact'
    BY <1>4, <2>1 DEF FileIsExact, FileKeys
  <2> QED  BY <1>3, <1>5, <1>7, <2>1, <2>2, <2>3, <2>4, Alone DEF Safe
<1>12. CASE RemoveFile(g)
  <2>1. /\ gpc[g] = "removeFile" /\ gpc'[g] = "reopen" /\ Disturbed
        /\ clean' \in {clean, NoInode} /\ UNCHANGED <<inode, stored, loaded>>
        /\ removedBy' = IF removedBy = NoOne THEN g ELSE removedBy
    BY <1>12, GotoIs, GLabels DEF RemoveFile
  <2>2. removedBy' # NoOne /\ removedBy # g
    BY <1>4, <1>6, <2>1
  <2>3. FileGone
    BY <2>1, <2>2 DEF FileGone
  <2>4. removedBy' = g => loaded[g] = stored
    BY <1>2, <1>4, <2>1, <2>2 DEF WriterInvOf
  <2>5. WriterInvOf(g)'
    BY <2>1, <2>2, <2>4 DEF WriterInvOf
  <2>6. FileIsExact'
    BY <2>2 DEF FileIsExact
  <2> QED  BY <1>3, <1>5, <1>7, <2>1, <2>3, <2>5, <2>6, Alone DEF Safe
<1>13. CASE OpenFile(g)
  <2>1. PICK i \in Inodes : Open(g, i) /\ clean' = i /\ tmp' = tmp /\ i # tmp
    BY <1>13, OpenFileIs
  <2>2. /\ ~inode'[i].whole /\ fd'[g] = i /\ inode'[i].mtime = clock + 1
    BY <2>1, OpenIs
  <2>3. /\ gpc[g] = "reopen" /\ gpc'[g] = "rewrite" /\ Disturbed
        /\ UNCHANGED <<stored, loaded, removedBy>>
    BY <1>13, GotoIs, GLabels DEF OpenFile
  <2>4. removedBy # NoOne
    BY <1>4, <2>3 DEF WriterInvOf
  <2>5. FileReplaced
    BY <2>1, <2>2, <2>3 DEF FileReplaced, TimeInv
  <2>6. WriterInvOf(g)'
    BY <1>2, <1>4, <2>1, <2>2, <2>3, <2>4 DEF WriterInvOf
  <2>7. FileIsExact'
    BY <2>3, <2>4 DEF FileIsExact
  <2> QED  BY <1>3, <1>5, <1>7, <2>3, <2>5, <2>6, <2>7, Alone DEF Safe
<1>14. CASE WriteFile(g)
  <2>1. /\ gpc[g] = "rewrite" /\ gpc'[g] = "generated" /\ Disturbed /\ Write(g)
        /\ UNCHANGED <<clean, loaded>> /\ stored' = stored \cup {g}
        /\ removedBy' = IF removedBy = g THEN NoOne ELSE removedBy
    BY <1>14, GotoIs, GLabels DEF WriteFile
  <2>2. clean # NoInode /\ fd[g] = clean /\ ~inode[clean].whole /\ removedBy # NoOne
    BY <1>4, <2>1 DEF WriterInvOf
  <2>3. /\ inode'[clean].whole /\ inode'[clean].keys = loaded[g] \cup {g}
        /\ inode'[clean].mtime = clock + 1
    BY <2>1, <2>2, WriteIs
  <2>4. FileReplaced
    BY <2>1, <2>2, <2>3 DEF FileReplaced, TimeInv
  <2>5. WriterInvOf(g)'
    BY <2>1 DEF WriterInvOf, Writing
  <2>6. removedBy' = NoOne => loaded[g] = stored
    BY <1>2, <1>4, <2>1, <2>2 DEF WriterInvOf
  <2>7. FileIsExact'
    BY <2>1, <2>2, <2>3, <2>6 DEF FileIsExact, FileKeys
  <2> QED  BY <1>3, <1>5, <1>7, <2>1, <2>4, <2>5, <2>7, Alone DEF Safe
<1>15. CASE Dies(g)
  <2>1. gpc'[g] = "failed" /\ UNCHANGED <<files, stored, calm, removedBy>>
    BY <1>15, GotoIs, GLabels DEF Dies
  <2>2. FileStays
    BY <2>1 DEF FileStays, files
  <2>3. WriterInvOf(g)'
    BY <2>1 DEF WriterInvOf, Writing
  <2>4. FileIsExact'
    BY <1>4, <2>1 DEF FileIsExact, FileKeys, files
  <2> QED  BY <1>3, <1>5, <1>7, <2>1, <2>2, <2>3, <2>4, Alone DEF Safe
<1> QED  BY <1>8, <1>9, <1>10, <1>11, <1>12, <1>13, <1>14, <1>15 DEF AddKey

LEMMA LoadStep ==
  ASSUME TypeOK, TypeOK', InodeInv, RemovalInv, Safe, ~overlap', NEW g \in Generators, Load(g)
  PROVE  Safe' /\ FileStays /\ \A h \in Generators : gpc'[h] # "rename"
<1>1. ~overlap /\ \A h \in Generators : gpc[h] \notin Writing
  BY DEF Load, TypeOK
<1>2. removedBy = NoOne => (clean # NoInode => inode[clean].whole) /\ FileKeys = stored
  BY <1>1 DEF Safe, FileIsExact
<1>3. UNCHANGED <<files, stored, calm, removedBy>> /\ removedBy # g
  BY DEF Load, RemovalInv
<1>4. FileStays
  BY <1>3 DEF FileStays, files
<1>5. FileIsExact'
  BY <1>2, <1>3 DEF FileIsExact, FileKeys, files
<1>6. gpc'[g] \in {"open", "failed"} /\ \A h \in Generators \ {g} : gpc'[h] = gpc[h]
  BY GotoIs, GLabels DEF Load
<1>7. gpc'[g] = "open" => loaded'[g] = FileKeys
  <2>1. CASE clean = NoInode \/ Parses(clean)
    BY <2>1 DEF Load, FileKeys, TypeOK
  <2>2. CASE ~(clean = NoInode \/ Parses(clean))
    <3>1. gpc'[g] = "failed"
      BY <2>2, GotoIs, GLabels DEF Load
    <3> QED  BY <3>1
  <2> QED  BY <2>1, <2>2
<1>8. WriterInvOf(g)'
  BY <1>2, <1>3, <1>6, <1>7 DEF WriterInvOf, Writing
<1>9. \A h \in Generators : gpc'[h] # "rename"
  BY <1>1, <1>6 DEF Writing, GPC
<1> QED  BY <1>1, <1>4, <1>5, <1>6, <1>8, <1>9, Alone DEF Safe

LEMMA RevokeStep ==
  ASSUME TypeOK, TypeOK', InodeInv, TimeInv, Safe, ~overlap', Revoke
  PROVE  Safe' /\ FileReplaced /\ \A h \in Generators : gpc'[h] # "rename"
<1>1. ~overlap /\ (\A h \in Generators : gpc[h] \notin Writing) /\ UNCHANGED generating
      /\ Disturbed /\ removedBy' = removedBy
  BY DEF Revoke, TypeOK
<1>2. removedBy = NoOne => FileKeys = stored
  BY <1>1 DEF Safe, FileIsExact
<1>3. PICK i \in Inodes, k \in Keys :
           /\ clean # NoInode /\ clock' = clock + 1 /\ clean' = i
           /\ stored' = stored \ {k}
           /\ inode'[i].whole /\ inode'[i].keys = inode[clean].keys \ {k}
           /\ inode'[i].mtime = clock'
  BY RevokeIs
<1>4. FileReplaced
  BY <1>1, <1>3, NoInodeIs DEF FileReplaced, TimeInv
<1>5. FileIsExact'
  BY <1>1, <1>2, <1>3, NoInodeIs DEF FileIsExact, FileKeys
<1>6. \A h \in Generators : gpc'[h] \notin Writing /\ gpc'[h] \in GPC
  BY <1>1 DEF generating, TypeOK
<1>7. Exclusive' /\ WriterInv'
  BY <1>6 DEF Exclusive, WriterInv, WriterInvOf, Writing, GPC
<1>8. \A h \in Generators : gpc'[h] # "rename"
  BY <1>6 DEF Writing, GPC
<1> QED  BY <1>4, <1>5, <1>7, <1>8 DEF Safe

LEMMA SafeSame ==
  ASSUME Safe, UNCHANGED <<files, generating, overlap, removedBy, stored>>
  PROVE  Safe'
<1>1. Exclusive'
  BY DEF Safe, Exclusive, generating
<1>2. WriterInv'
  BY DEF Safe, WriterInv, WriterInvOf, files, generating
<1>3. FileIsExact'
  BY DEF Safe, FileIsExact, FileKeys, files
<1> QED  BY <1>1, <1>2, <1>3 DEF Safe

LEMMA SafeStep ==
  ASSUME TypeOK, InodeInv, RemovalInv, TimeInv, YoungerInv, Safe, [Next]_vars
  PROVE  Safe'
<1>1. TypeOK'
  BY TypeStep
<1>2. CASE overlap'
  BY <1>2 DEF Safe, Exclusive, WriterInv, FileIsExact
<1>3. CASE ~overlap'
  <2>1. ASSUME NEW r \in Requests, Begin(r) \/ ValidateKey(r)
        PROVE  Safe'
    BY <2>1, RequestLeaves, SafeSame
  <2>2. CASE UNCHANGED vars
    BY <2>2, SafeSame DEF vars
  <2> QED  BY <1>1, <1>3, <2>1, <2>2, WriterStep, LoadStep, RevokeStep DEF Next
<1> QED  BY <1>2, <1>3
-----------------------------------------------------------------------------
(* What the listener knows, while somebody else changes files.             *)
Known == YoungerInv /\ CacheInv /\ JudgedByTheFile

LEMMA CacheBeside ==
  ASSUME TypeOK, TypeOK', CacheInv, JudgedByTheFile, ~overlap, UNCHANGED listening,
         FileStays \/ FileReplaced \/ FileGone
  PROVE  CacheInv' /\ JudgedByTheFile'
<1>1. UNCHANGED <<keys, lastModTime, rpc, info, accepted>>
  BY DEF listening
<1>2. CASE FileStays
  <2>1. /\ clean' = clean /\ calm' = calm /\ removedBy' = removedBy
        /\ clean # NoInode => inode'[clean] = inode[clean]
    BY <1>2 DEF FileStays
  <2>2. FileKeys' = FileKeys /\ (Parses(clean)' <=> Parses(clean))
    BY <2>1 DEF FileKeys, Parses
  <2> QED  BY <1>1, <2>1, <2>2 DEF CacheInv, JudgedByTheFile
<1>3. CASE FileReplaced
  <2>1. \A r \in Requests : ~calm'[r]
    BY <1>3 DEF FileReplaced, Disturbed
  <2>2. clean' # NoInode /\ inode'[clean'].mtime \in Nat
    BY <1>3 DEF FileReplaced, TypeOK, Content
  <2>3. /\ lastModTime < inode'[clean'].mtime
        /\ \A r \in Requests : rpc[r] = "read" => info[r] < inode'[clean'].mtime
    BY <1>3 DEF FileReplaced, SeenBefore
  <2>4. lastModTime \in Nat /\ info \in [Requests -> Nat]
    BY DEF TypeOK
  <2>5. CacheInv'
    BY <1>1, <2>1, <2>2, <2>3, <2>4 DEF CacheInv
  <2> QED  BY <2>1, <2>5 DEF JudgedByTheFile
<1>4. CASE FileGone
  <2>1. \A r \in Requests : ~calm'[r]
    BY <1>4 DEF FileGone, Disturbed
  <2>2. clean' \in {clean, NoInode} /\ inode' = inode /\ removedBy' # NoOne
    BY <1>4 DEF FileGone
  <2>3. CacheInv'
    BY <1>1, <2>1, <2>2 DEF CacheInv
  <2> QED  BY <2>1, <2>3 DEF JudgedByTheFile
<1> QED  BY <1>2, <1>3, <1>4

LEMMA CacheRequest ==
  ASSUME TypeOK, Safe, CacheInv, JudgedByTheFile, ~overlap,
         NEW r \in Requests, Begin(r) \/ ValidateKey(r)
  PROVE  CacheInv' /\ JudgedByTheFile'
<1>1. UNCHANGED <<files, generating, revoked, overlap, removedBy, stored>>
  BY RequestLeaves
<1> DEFINE Seen == Parses(clean) \/ removedBy = NoOne
<1>2. /\ UNCHANGED <<clean, inode, removedBy>> /\ FileKeys' = FileKeys
      /\ Parses(clean)' <=> Parses(clean)
  BY <1>1 DEF files, FileKeys, Parses
<1>3. /\ clean = NoInode /\ removedBy = NoOne => keys = {}
      /\ clean # NoInode =>
           /\ lastModTime <= inode[clean].mtime
           /\ lastModTime = inode[clean].mtime /\ inode[clean].whole
                => keys = inode[clean].keys
           /\ inode[clean].mtime \in Nat
      /\ lastModTime \in Nat
      /\ clean # NoInode /\ removedBy = NoOne => inode[clean].whole
  BY DEF CacheInv, Safe, FileIsExact, TypeOK, Content
<1>4. \A q \in Requests :
        /\ rpc[q] = "read" /\ clean # NoInode => info[q] <= inode[clean].mtime
        /\ rpc[q] = "read" /\ removedBy = NoOne => clean # NoInode
        /\ rpc[q] = "check" /\ calm[q] /\ Seen => keys = FileKeys
        /\ rpc[q] = "idle" /\ calm[q] /\ Seen => accepted[q] = FileKeys
  BY DEF CacheInv, JudgedByTheFile
<1>5. /\ rpc \in [Requests -> RPC] /\ info \in [Requests -> Nat]
      /\ accepted \in [Requests -> SUBSET Keys] /\ calm \in [Requests -> BOOLEAN]
  BY DEF TypeOK
<1>11. clean # NoInode /\ lastModTime = inode[clean].mtime /\ Seen => keys = FileKeys
  BY <1>3 DEF FileKeys, Parses
<1>12. clean = NoInode /\ Seen => keys = FileKeys
  BY <1>3 DEF FileKeys, Parses
<1> USE DEF GotoR
<1>6. CASE Begin(r)
  <2>1. /\ rpc'[r] = "stat" /\ UNCHANGED <<keys, lastModTime, info>>
        /\ \A q \in Requests \ {r} : /\ rpc'[q] = rpc[q] /\ calm'[q] = calm[q]
                                     /\ accepted'[q] = accepted[q]
    BY <1>5, <1>6 DEF Begin
  <2> QED  BY <1>2, <1>3, <1>4, <2>1 DEF CacheInv, JudgedByTheFile
<1>7. CASE Stat(r)
  <2>1. rpc'[r] = "check" /\ Seen => keys = FileKeys
    BY <1>3, <1>5, <1>7, <1>11, <1>12 DEF Stat
  <2>2. rpc'[r] \in {"reload", "check"} /\ \A q \in Requests \ {r} : rpc'[q] = rpc[q]
    BY <1>5, <1>7 DEF Stat
  <2>3. UNCHANGED <<keys, lastModTime, info, accepted, calm>>
    BY <1>7 DEF Stat
  <2> QED  BY <1>2, <1>3, <1>4, <2>1, <2>2, <2>3 DEF CacheInv, JudgedByTheFile
<1>8. CASE ReloadStat(r)
  <2>1. rpc'[r] = "check" /\ Seen => keys = FileKeys
    BY <1>3, <1>5, <1>8, <1>11, <1>12 DEF ReloadStat
  <2>2. rpc'[r] \in {"read", "check"} /\ \A q \in Requests \ {r} : rpc'[q] = rpc[q]
    BY <1>5, <1>8 DEF ReloadStat
  <2>3. UNCHANGED <<keys, lastModTime, accepted, calm>>
    BY <1>8 DEF ReloadStat
  <2>4. rpc'[r] = "read" => clean # NoInode /\ info'[r] = inode[clean].mtime
    BY <1>5, <1>8 DEF ReloadStat
  <2>5. \A q \in Requests \ {r} : info'[q] = info[q]
    BY <1>5, <1>8 DEF ReloadStat
  <2> QED  BY <1>2, <1>3, <1>4, <2>1, <2>2, <2>3, <2>4, <2>5 DEF CacheInv, JudgedByTheFile
<1>9. CASE ReloadRead(r)
  <2>1. /\ rpc'[r] = "check" /\ \A q \in Requests \ {r} : rpc'[q] = rpc[q]
        /\ \A q \in Requests \ {r} : info'[q] = info[q]
        /\ UNCHANGED <<accepted, calm>>
    BY <1>5, <1>9 DEF ReloadRead
  <2>2. CASE Parses(clean)
    <3>1. info[r] <= inode[clean].mtime /\ clean # NoInode
      BY <1>4, <1>9, <2>2 DEF ReloadRead, Parses
    <3>2. keys' = FileKeys /\ lastModTime' = info[r] /\ FileKeys = inode[clean].keys
      BY <1>9, <2>2, <3>1 DEF ReloadRead, FileKeys
    <3> QED  BY <1>2, <1>4, <2>1, <3>1, <3>2 DEF CacheInv, JudgedByTheFile
  <2>3. CASE ~Parses(clean)
    <3>1. UNCHANGED <<keys, lastModTime>> /\ rpc[r] = "read"
      BY <1>9, <2>3 DEF ReloadRead
    <3>2. removedBy # NoOne
      BY <1>3, <1>4, <2>3, <3>1 DEF Parses
    <3> QED  BY <1>2, <1>3, <1>4, <2>1, <2>3, <3>1, <3>2 DEF CacheInv, JudgedByTheFile
  <2> QED  BY <2>2, <2>3
<1>10. CASE Check(r)
  <2>1. UNCHANGED <<keys, lastModTime, info, calm>>
    BY <1>10 DEF Check
  <2>2. /\ rpc[r] = "check" /\ rpc'[r] = "idle" /\ accepted'[r] = keys
        /\ \A q \in Requests \ {r} : rpc'[q] = rpc[q] /\ accepted'[q] = accepted[q]
    BY <1>5, <1>10 DEF Check
  <2> QED  BY <1>2, <1>3, <1>4, <2>1, <2>2 DEF CacheInv, JudgedByTheFile
<1> QED  BY <1>6, <1>7, <1>8, <1>9, <1>10 DEF ValidateKey

(* A document that waits for its rename is younger than all that requests  *)
(* find at the keystore's path meanwhile.                                  *)
LEMMA YoungerRequest ==
  ASSUME TypeOK, Safe, YoungerInv, ~overlap, NEW r \in Requests, Begin(r) \/ ValidateKey(r)
  PROVE  YoungerInv'
<1> SUFFICES ASSUME NEW g \in Generators, gpc'[g] = "rename"
             PROVE  SeenBefore(inode[tmp].mtime)'
  BY DEF YoungerInv
<1>1. UNCHANGED <<gpc, inode, tmp>>
  BY RequestLeaves DEF files, generating
<1>2. /\ SeenBefore(inode[tmp].mtime) /\ tmp # NoInode
      /\ clean # NoInode => inode[clean].mtime < inode[tmp].mtime
  <2>1. WriterInvOf(g) /\ SeenBefore(inode[tmp].mtime) /\ gpc[g] = "rename"
    BY <1>1 DEF Safe, WriterInv, YoungerInv
  <2>2. tmp # NoInode /\ (clean # NoInode => inode[tmp].mtime > inode[clean].mtime)
    BY <2>1 DEF WriterInvOf
  <2>3. inode[tmp].mtime \in Nat /\ (clean # NoInode => inode[clean].mtime \in Nat)
    BY <2>2 DEF TypeOK, Content
  <2> QED  BY <2>1, <2>2, <2>3
<1>3. inode[tmp].mtime \in Nat
  BY <1>2 DEF TypeOK, Content
<1>4. /\ lastModTime' < inode[tmp].mtime
      /\ \A q \in Requests : rpc'[q] = "read" => info'[q] < inode[tmp].mtime
  BY <1>2, <1>3, SeenIs
<1> QED  BY <1>1, <1>4 DEF SeenBefore

LEMMA CacheStep ==
  ASSUME TypeOK, InodeInv, RemovalInv, TimeInv, Safe, Known, [Next]_vars
  PROVE  Known'
<1> USE DEF Known
<1>1. CASE overlap'
  BY <1>1 DEF YoungerInv, CacheInv, JudgedByTheFile
<1>2. CASE ~overlap'
  <2>1. TypeOK'
    BY TypeStep
  <2>2. CASE UNCHANGED vars
    <3>1. FileStays /\ UNCHANGED listening
      BY <2>2 DEF vars, FileStays, files
    <3>2. YoungerInv'
      BY <2>2 DEF vars, files, generating, listening, YoungerInv, SeenBefore
    <3>3. ~overlap
      BY <1>2, <2>2 DEF vars
    <3> QED  BY <2>1, <3>1, <3>2, <3>3, CacheBeside
  <2>3. ASSUME NEW r \in Requests, Begin(r) \/ ValidateKey(r)
        PROVE  Known'
    BY <1>2, <2>3, RequestLeaves, CacheRequest, YoungerRequest
  <2>4. ASSUME (\E g \in Generators : Load(g) \/ AddKey(g) \/ Dies(g)) \/ Revoke
        PROVE  Known'
    <3>1. UNCHANGED listening
      BY <2>4, WriterLeaves
    <3>2. /\ FileStays \/ FileReplaced \/ FileGone
          /\ \A g \in Generators : gpc'[g] = "rename" => SeenBefore(inode'[tmp'].mtime)
      BY <1>2, <2>1, <2>4, WriterStep, LoadStep, RevokeStep
    <3>3. ~overlap
      BY <1>2, <2>4 DEF Load, AddKey, OpenTmp, WriteTmp, Rename, RemoveTmp, RemoveFile,
                        OpenFile, WriteFile, Dies, Revoke, TypeOK
    <3>4. YoungerInv'
      BY <3>1, <3>2 DEF YoungerInv, SeenBefore, listening
    <3> QED  BY <2>1, <3>1, <3>2, <3>3, <3>4, CacheBeside
  <2> QED  BY <2>2, <2>3, <2>4 DEF Next
<1> QED  BY <1>1, <1>2
-----------------------------------------------------------------------------
LEMMA NonEmptyRequest ==
  ASSUME TypeOK, NonEmptyInv, NEW r \in Requests, Begin(r) \/ ValidateKey(r)
  PROVE  NonEmptyInv' /\ (keys # {} /\ revoked = {} => keys' # {})
<1>1. UNCHANGED <<files, generating, revoked, overlap, removedBy, stored>>
  BY RequestLeaves
<1>2. keys' = keys \/ (Parses(clean) /\ keys' = inode[clean].keys)
  BY DEF Begin, ValidateKey, Stat, ReloadStat, ReloadRead, Check
<1>3. Parses(clean) => clean \in Inodes /\ inode[clean].whole
  BY DEF Parses, TypeOK
<1>4. revoked = {} /\ Parses(clean) /\ inode[clean].keys = {} => keys = {}
  BY <1>3 DEF NonEmptyInv
<1> QED  BY <1>1, <1>2, <1>3, <1>4 DEF NonEmptyInv, files

LEMMA NonEmptyGenerator ==
  ASSUME TypeOK, InodeInv, NonEmptyInv, NEW g \in Generators, Load(g) \/ AddKey(g) \/ Dies(g)
  PROVE  NonEmptyInv'
<1>1. UNCHANGED <<keys, revoked>>
  BY DEF Load, AddKey, OpenTmp, WriteTmp, Rename, RemoveTmp, RemoveFile, OpenFile, WriteFile,
         Dies, listening
<1>2. CASE OpenTmp(g) \/ OpenFile(g)
  <2>1. PICK i \in Inodes : /\ Open(g, i)
                            /\ \/ tmp' = i /\ clean' = clean /\ i # clean
                               \/ clean' = i /\ tmp' = tmp /\ i # tmp
    BY <1>2, OpenTmpIs, OpenFileIs
  <2>2. ~inode'[i].whole /\ \A j \in Inodes \ {i} : inode'[j] = inode[j]
    BY <2>1, OpenIs
  <2> QED  BY <1>1, <2>1, <2>2 DEF NonEmptyInv
<1>3. CASE WriteTmp(g) \/ WriteFile(g)
  <2>1. Write(g) /\ fd[g] # NoInode /\ UNCHANGED <<clean, tmp>>
    BY <1>3 DEF WriteTmp, WriteFile, InodeInv
  <2>2. /\ inode'[fd[g]].whole => inode'[fd[g]].keys = loaded[g] \cup {g}
        /\ \A j \in Inodes \ {fd[g]} : inode'[j] = inode[j]
    BY <2>1, WriteIs
  <2> QED  BY <1>1, <2>1, <2>2 DEF NonEmptyInv
<1>4. CASE Rename(g) \/ RemoveTmp(g) \/ RemoveFile(g)
  <2>1. /\ inode' = inode /\ tmp' \in {tmp, NoInode}
        /\ clean' \in {clean, NoInode, tmp}
    BY <1>4 DEF Rename, RemoveTmp, RemoveFile
  <2> QED  BY <1>1, <2>1, NoInodeIs DEF NonEmptyInv
<1>5. CASE Load(g) \/ Dies(g)
  BY <1>1, <1>5 DEF Load, Dies, files, NonEmptyInv
<1> QED  BY <1>2, <1>3, <1>4, <1>5 DEF AddKey

LEMMA NonEmptyStep ==
  ASSUME TypeOK, InodeInv, NonEmptyInv, [Next]_vars
  PROVE  NonEmptyInv' /\ (keys # {} /\ revoked = {} => keys' # {})
<1>1. CASE Revoke
  <2>1. revoked' # {}
    BY <1>1, RevokeIs
  <2>2. keys' = keys
    BY <1>1, WriterLeaves DEF listening
  <2> QED  BY <2>1, <2>2 DEF NonEmptyInv
<1>2. ASSUME NEW g \in Generators, Load(g) \/ AddKey(g) \/ Dies(g)
      PROVE  NonEmptyInv' /\ (keys # {} /\ revoked = {} => keys' # {})
  BY <1>2, NonEmptyGenerator, WriterLeaves DEF listening
<1>3. CASE UNCHANGED vars
  BY <1>3 DEF vars, files, listening, NonEmptyInv
<1> QED  BY <1>1, <1>2, <1>3, NonEmptyRequest DEF Next
-----------------------------------------------------------------------------
LEMMA SpecIInv == Spec => []IInv
<1>1. IInv /\ [Next]_vars => IInv'
  BY TypeStep, InodeStep, RemovalStep, SafeStep, TimeStep, CacheStep, NonEmptyStep
     DEF IInv, Safe, Known
<1> QED  BY InitIInv, <1>1, PTL DEF Spec

(* Every variable keeps its type, and whoever needs a new inode finds one, *)
(* whatever happens to the file (NewKeystore, saveLocked, Reload).         *)
THEOREM TypeCorrect == Spec => []TypeOK
<1>1. IInv => TypeOK
  BY DEF IInv
<1> QED  BY SpecIInv, <1>1, PTL

(* Any number of generations, one after the other and each of them killed  *)
(* anywhere but in a fallback, leave exactly the keys of those that        *)
(* succeeded, whichever renames and removals failed (saveLocked).          *)
THEOREM FileCorrect == Spec => []FileIsExact
<1>1. IInv => FileIsExact
  BY DEF IInv
<1> QED  BY SpecIInv, <1>1, PTL

(* Any number of concurrent requests are judged by the file as it is, as   *)
(* soon as it is there and whole, after a fallback too (ValidateKey,       *)
(* Reload).                                                                *)
THEOREM ReloadCorrect == Spec => []JudgedByTheFile
<1>1. IInv => JudgedByTheFile
  BY DEF IInv
<1> QED  BY SpecIInv, <1>1, PTL

(* However generators overwrite each other's files, a listener with keys   *)
(* never takes what it finds for a keystore without any (Reload).          *)
THEOREM KeysRemain == Spec => NeverLeftWithoutKeys
<1>1. IInv /\ [Next]_vars => [keys # {} /\ revoked = {} => keys' # {}]_vars
  BY NonEmptyStep DEF IInv
<1> QED  BY SpecIInv, <1>1, PTL DEF Spec, NeverLeftWithoutKeys
=============================================================================
