--------------------------- MODULE AuthFileProofs ---------------------------
(***************************************************************************)
(* Proofs about AuthFile for every set of users, passwords and groups,     *)
(* every size of the file and every number of changes, failures and exits. *)
(***************************************************************************)
EXTENDS AuthFile, SequenceTheorems, WellFoundedInduction, TLAPS

Entries == Passwords \cup {NoPassword}

\* A piece of any text, or none
Pieces ==
    {Hole} \cup UNION {[place : {i}, users : [Standing(i) -> Entries]] : i \in 1 .. FileSize}

\* Passwords of users, all or those of a piece, none of which is too old for
\* the file, or for the disk.
Recent(d) == \A u \in DOMAIN d : d[u] \in {acknowledged[u]} \cup tried[u]
Known(d) == \A u \in DOMAIN d : d[u] \in older[u]
FileRecent == \A i \in DOMAIN file : Recent(file[i].users)
DiskKnown == \A i \in DOMAIN disk : Known(disk[i].users)

\* What the rewriting does to types.
DataOK ==
    /\ file \in Seq(Pieces) /\ disk \in Seq(Pieces)
    /\ user_data \in [Users -> Entries]
    /\ pc \notin {"down", "idle"} => change \in [user : Users, passwd : Passwords]
    /\ acknowledged \in [Users -> Passwords]
    /\ tried \in [Users -> SUBSET Entries] /\ older \in [Users -> SUBSET Entries]
    /\ pc = "write" => /\ to_write \in 0 .. FileSize /\ written \in 0 .. FileSize
                       /\ written = 0 => to_write = FileSize

\* What keeps file and disk near memory: no piece is too old; what has been
\* written since the file was cut is of memory; and as long as nothing went
\* wrong the file is empty or can be read.
FileInv ==
    /\ DataOK
    /\ \A u \in Users : {acknowledged[u]} \cup tried[u] \subseteq older[u]
    /\ Recent(user_data)
    /\ FileRecent /\ DiskKnown
    /\ pc = "print" => file = <<>>
    /\ pc = "write" => \A i \in DOMAIN file : \A u \in DOMAIN file[i].users :
                            file[i].users[u] = user_data[u]
    /\ mishaps = {} =>
          /\ pc \in {"idle", "down"} => Readable(file) /\ Stored(file) = user_data
          /\ pc = "write" => IF written = 0 THEN file = <<>>
                                           ELSE file = Data(user_data) /\ to_write = 0

-----------------------------------------------------------------------------
\* A printed file is readable and holds what was printed.
LEMMA DataReadable ==
  ASSUME NEW d \in [Users -> Entries]
  PROVE  /\ Data(d) \in Seq(Pieces) /\ Len(Data(d)) = FileSize
         /\ \A i \in 1 .. FileSize : \A u \in DOMAIN Data(d)[i].users :
               u \in Users /\ Data(d)[i].users[u] = d[u]
         /\ Readable(Data(d)) /\ Stored(Data(d)) = d
<1> USE ConstantsAssumption DEF ConstantsAssumption
<1>1. ASSUME NEW i \in 1 .. FileSize
      PROVE  /\ Data(d)[i].place = i /\ Data(d)[i].users = [u \in Standing(i) |-> d[u]]
             /\ Data(d)[i] \in Pieces
             /\ \A u \in DOMAIN Data(d)[i].users : u \in Users /\ Data(d)[i].users[u] = d[u]
  <2>1. Data(d)[i] = [place |-> i, users |-> [u \in Standing(i) |-> d[u]]]
    BY DEF Data
  <2>2. Standing(i) \subseteq Users
    BY DEF Standing
  <2>3. Data(d)[i] \in [place : {i}, users : [Standing(i) -> Entries]]
    BY <2>1, <2>2
  <2>4. Data(d)[i] \in Pieces
    BY <2>3, Zenon DEF Pieces
  <2>5. /\ Data(d)[i].place = i /\ Data(d)[i].users = [u \in Standing(i) |-> d[u]]
        /\ DOMAIN Data(d)[i].users = Standing(i)
    BY <2>1
  <2> QED BY <2>1, <2>2, <2>4, <2>5
<1>2. Data(d) \in Seq(Pieces) /\ Len(Data(d)) = FileSize
  <2>1. Data(d) = [i \in 1 .. FileSize |-> Data(d)[i]] /\ FileSize \in Nat
    BY DEF Data
  <2>2. Data(d) \in [1 .. FileSize -> Pieces]
    BY <1>1, <2>1, Zenon
  <2>3. Data(d) \in Seq(Pieces)
    <3>1. Data(d) \in UNION {[1 .. n -> Pieces] : n \in Nat}
      BY <2>1, <2>2, Zenon
    <3>2. Seq(Pieces) = UNION {[1 .. n -> Pieces] : n \in Nat}
      BY SeqDef, Zenon
    <3> QED BY <3>1, <3>2, Zenon
  <2>4. Len(Data(d)) \in Nat /\ 1 .. Len(Data(d)) = 1 .. FileSize
    BY <2>2, <2>3, LenProperties
  <2> QED BY <2>1, <2>3, <2>4
<1>3. Readable(Data(d))
  <2>1. Len(Data(d)) >= FileSize
    BY <1>2
  <2> QED BY <1>1, <2>1, Zenon DEF Readable
<1>4. ASSUME NEW u \in Users PROVE Data(d)[Place[u]].users[u] = d[u]
  <2>1. Place[u] \in 1 .. FileSize /\ u \in Standing(Place[u])
    BY DEF Standing
  <2>2. Data(d)[Place[u]].users = [v \in Standing(Place[u]) |-> d[v]]
    BY <1>1, <2>1, Zenon
  <2> QED BY <2>1, <2>2
<1>5. Stored(Data(d)) = [u \in Users |-> d[u]]
  BY <1>4 DEF Stored
<1> QED BY <1>1, <1>2, <1>3, <1>5

\* What a readable file holds of a user is in the piece that stands there.
LEMMA ReadableStored ==
  ASSUME NEW f \in Seq(Pieces), Readable(f)
  PROVE  /\ Stored(f) \in [Users -> Entries]
         /\ \A u \in Users : /\ Place[u] \in DOMAIN f /\ u \in DOMAIN f[Place[u]].users
                             /\ Stored(f)[u] = f[Place[u]].users[u]
<1> USE ConstantsAssumption DEF ConstantsAssumption
<1>1. ASSUME NEW u \in Users
      PROVE  /\ Place[u] \in DOMAIN f /\ u \in DOMAIN f[Place[u]].users
             /\ f[Place[u]].users[u] \in Entries
  <2> DEFINE i == Place[u]
  <2>1. i \in 1 .. FileSize /\ i \in DOMAIN f /\ f[i] \in Pieces /\ f[i].place = i
    BY DEF Readable
  <2>2. f[i] # Hole
    BY <2>1 DEF Hole
  <2>3. PICK k \in 1 .. FileSize : f[i] \in [place : {k}, users : [Standing(k) -> Entries]]
    BY <2>1, <2>2 DEF Pieces
  <2>4. f[i].users \in [Standing(i) -> Entries] /\ u \in Standing(i)
    BY <2>1, <2>3 DEF Standing
  <2> QED BY <2>1, <2>4
<1> QED BY <1>1 DEF Stored

\* Every piece is one of users.
LEMMA PieceUsers ==
  ASSUME NEW piece \in Pieces
  PROVE  DOMAIN piece.users \subseteq Users
<1>1. CASE piece = Hole
  BY <1>1 DEF Hole
<1>2. CASE piece # Hole
  <2>1. PICK i \in 1 .. FileSize : piece \in [place : {i}, users : [Standing(i) -> Entries]]
    BY <1>2 DEF Pieces
  <2> QED BY <2>1 DEF Standing
<1> QED BY <1>1, <1>2

\* What a write leaves in the file.
LEMMA WriteAppends ==
  ASSUME FileInv, pc = "write", NEW w \in 1 .. FileSize,
         file' = file \o SubSeq(Data(user_data), 1, w)
  PROVE  /\ file' \in Seq(Pieces)
         /\ \A i \in DOMAIN file' : \A u \in DOMAIN file'[i].users :
               u \in Users /\ file'[i].users[u] = user_data[u]
<1> USE ConstantsAssumption DEF ConstantsAssumption
<1> DEFINE piece == SubSeq(Data(user_data), 1, w)
<1>1. /\ Data(user_data) \in Seq(Pieces) /\ Len(Data(user_data)) = FileSize
      /\ \A i \in 1 .. FileSize : \A u \in DOMAIN Data(user_data)[i].users :
            u \in Users /\ Data(user_data)[i].users[u] = user_data[u]
  BY DataReadable DEF FileInv, DataOK
<1>2. /\ piece \in Seq(Pieces) /\ Len(piece) = w
      /\ \A i \in 1 .. w : piece[i] = Data(user_data)[i]
  <2> HIDE DEF Pieces
  <2> QED BY <1>1
<1>3. file \in Seq(Pieces) /\ file' = file \o piece
  BY DEF FileInv, DataOK
<1> HIDE DEF piece, Pieces
<1>4. /\ file' \in Seq(Pieces) /\ Len(file') = Len(file) + w
      /\ \A i \in 1 .. Len(file) : file'[i] = file[i] /\ file[i] \in Pieces
      /\ \A i \in 1 .. w : file'[Len(file) + i] = piece[i]
  BY <1>2, <1>3
<1>5. ASSUME NEW i \in DOMAIN file', NEW u \in DOMAIN file'[i].users
      PROVE  u \in Users /\ file'[i].users[u] = user_data[u]
  <2>1. i \in 1 .. Len(file) + w /\ Len(file) \in Nat
    BY <1>3, <1>4
  <2>2. CASE i \in 1 .. Len(file)
    BY <1>3, <1>4, <1>5, <2>2, PieceUsers DEF FileInv
  <2>3. CASE i \notin 1 .. Len(file)
    <3>1. i - Len(file) \in 1 .. w /\ i - Len(file) \in 1 .. FileSize
      BY <2>1, <2>3
    <3>2. file'[i] = Data(user_data)[i - Len(file)]
      BY <1>2, <1>4, <2>1, <3>1
    <3> QED BY <1>1, <1>5, <3>1, <3>2
  <2> QED BY <2>2, <2>3
<1> QED BY <1>4, <1>5

-----------------------------------------------------------------------------
\* The administrator's file is the beginning.
LEMMA FileInit == Init => FileInv
<1> SUFFICES ASSUME Init PROVE FileInv
  OBVIOUS
<1>1. /\ user_data \in [Users -> Passwords] /\ user_data \in [Users -> Entries]
      /\ file = Data(user_data) /\ disk = file
  BY DEF Init, Entries
<1>2. /\ file \in Seq(Pieces) /\ Len(file) = FileSize
      /\ \A i \in 1 .. FileSize : \A u \in DOMAIN file[i].users :
            u \in Users /\ file[i].users[u] = user_data[u]
      /\ Readable(file) /\ Stored(file) = user_data
  BY <1>1, DataReadable
<1>3. DOMAIN file = 1 .. FileSize
  BY <1>1, <1>2 DEF Data
<1>4. DataOK
  BY <1>1, <1>2 DEF Init, DataOK, Entries
<1>5. Recent(user_data) /\ FileRecent /\ DiskKnown
  BY <1>1, <1>2, <1>3 DEF Init, Recent, Known, FileRecent, DiskKnown
<1> QED BY <1>1, <1>2, <1>4, <1>5 DEF Init, FileInv

\* The kernel moves pieces of the file, and of nothing else, to the disk.
LEMMA WriteBackKeeps == FileInv /\ WriteBack => FileInv'
<1> SUFFICES ASSUME FileInv, WriteBack PROVE FileInv'
  OBVIOUS
<1>1. /\ file \in Seq(Pieces) /\ disk \in Seq(Pieces)
      /\ Len(file) \in Nat /\ Len(disk) \in Nat
      /\ DOMAIN file = 1 .. Len(file) /\ DOMAIN disk = 1 .. Len(disk)
  BY DEF FileInv, DataOK
<1>2. Hole \in Pieces /\ Known(Hole.users)
  BY DEF Pieces, Hole, Known
<1>3. \A i \in DOMAIN file : Known(file[i].users)
  BY <1>1, PieceUsers DEF FileInv, Recent, Known, FileRecent, DiskKnown
<1>4. disk' \in Seq(Pieces) /\ \A i \in DOMAIN disk' : Known(disk'[i].users)
  <2>1. ASSUME NEW size \in {Len(file)} \cup Len(disk) .. Len(file),
               disk' = [i \in 1 .. size |-> IF i \in DOMAIN disk THEN disk[i] ELSE Hole]
        PROVE  disk' \in Seq(Pieces) /\ \A i \in DOMAIN disk' : Known(disk'[i].users)
    <3>1. size \in Nat
      BY <1>1
    <3>2. \A i \in 1 .. size : /\ disk'[i] = IF i \in DOMAIN disk THEN disk[i] ELSE Hole
                               /\ disk'[i] \in Pieces
      BY <1>1, <1>2, <2>1
    <3>3. DOMAIN disk' = 1 .. size /\ disk' \in Seq(Pieces)
      <4> HIDE DEF Pieces
      <4> QED BY <2>1, <3>1, <3>2
    <3>4. ASSUME NEW k \in DOMAIN disk' PROVE Known(disk'[k].users)
      <4>1. disk'[k] = IF k \in DOMAIN disk THEN disk[k] ELSE Hole
        BY <3>2, <3>3
      <4> QED BY <1>2, <4>1 DEF FileInv, DiskKnown
    <3> QED BY <3>3, <3>4
  <2>2. ASSUME NEW i \in DOMAIN disk \cap DOMAIN file, disk' = [disk EXCEPT ![i] = file[i]]
        PROVE  disk' \in Seq(Pieces) /\ \A k \in DOMAIN disk' : Known(disk'[k].users)
    <3>1. disk' \in Seq(Pieces)
      <4> HIDE DEF Pieces
      <4> QED BY <1>1, <2>2
    <3>2. \A k \in DOMAIN disk' : k \in DOMAIN disk /\ disk'[k] \in {disk[k], file[i]}
      BY <1>1, <2>2
    <3> QED BY <1>3, <2>2, <3>1, <3>2 DEF FileInv, DiskKnown
  <2> QED BY <2>1, <2>2 DEF WriteBack
<1>5. /\ older' = IF disk' = file THEN [u \in Users |-> {acknowledged[u]} \cup tried[u]] ELSE older
      /\ UNCHANGED <<pc, file, user_data, change, to_write, written, acknowledged, tried, mishaps>>
  BY DEF WriteBack
<1>6. /\ older' \in [Users -> SUBSET Entries]
      /\ \A u \in Users : {acknowledged'[u]} \cup tried'[u] \subseteq older'[u]
  BY <1>5 DEF FileInv, DataOK, Entries
<1>7. DataOK'
  BY <1>4, <1>5, <1>6 DEF FileInv, DataOK
<1>8. DiskKnown'
  <2>1. CASE disk' = file
    <3>1. \A i \in DOMAIN file : /\ DOMAIN file[i].users \subseteq Users /\ Recent(file[i].users)
      BY <1>1, PieceUsers DEF FileInv, FileRecent
    <3>2. older' = [u \in Users |-> {acknowledged[u]} \cup tried[u]]
      BY <1>5, <2>1
    <3> QED BY <2>1, <3>1, <3>2 DEF Recent, Known, DiskKnown
  <2>2. CASE disk' # file
    BY <1>4, <1>5, <2>2 DEF Known, DiskKnown
  <2> QED BY <2>1, <2>2
<1>9. Recent(user_data)' /\ FileRecent'
  BY <1>5 DEF FileInv, Recent, FileRecent
<1> QED BY <1>5, <1>6, <1>7, <1>8, <1>9 DEF FileInv, Readable, Stored

\* What comes back with the machine is on the disk, and known.
LEMMA MachineFailsKeeps == FileInv /\ MachineFails => FileInv'
<1> SUFFICES ASSUME FileInv, MachineFails PROVE FileInv'
  OBVIOUS
<1>1. /\ file' = disk /\ tried' = older /\ pc' = "down" /\ mishaps' # {}
      /\ UNCHANGED <<disk, older, user_data, acknowledged>>
  BY DEF MachineFails, Ends
<1>2. DataOK'
  BY <1>1 DEF FileInv, DataOK
<1>3. Recent(user_data)'
  BY <1>1 DEF FileInv, DataOK, Recent
<1>4. FileRecent'
  BY <1>1 DEF FileInv, Known, Recent, FileRecent, DiskKnown
<1>5. DiskKnown'
  BY <1>1 DEF FileInv, Known, DiskKnown
<1>6. \A u \in Users : {acknowledged'[u]} \cup tried'[u] \subseteq older'[u]
  BY <1>1 DEF FileInv
<1> QED BY <1>1, <1>2, <1>3, <1>4, <1>5, <1>6 DEF FileInv

\* Every step keeps the invariant.
LEMMA FileStep == FileInv /\ [Next]_vars => FileInv'
<1> SUFFICES ASSUME FileInv, [Next]_vars PROVE FileInv'
  OBVIOUS
<1> USE ConstantsAssumption DEF ConstantsAssumption
<1>1. CASE UNCHANGED vars
  BY <1>1 DEF vars, FileInv, DataOK, Recent, Known, FileRecent, DiskKnown, Readable, Stored
<1>2. CASE LoadPasswdData
  <2>1. /\ pc' = "idle" /\ Readable(file) /\ Stored(file) = user_data'
        /\ UNCHANGED <<file, disk, older, change, to_write, written, acknowledged, tried>>
    BY <1>2 DEF LoadPasswdData, fileVars
  <2>2. /\ user_data' \in [Users -> Entries]
        /\ \A u \in Users : /\ Place[u] \in DOMAIN file /\ u \in DOMAIN file[Place[u]].users
                            /\ user_data'[u] = file[Place[u]].users[u]
    BY <2>1, ReadableStored DEF FileInv, DataOK
  <2>3. Recent(user_data)'
    BY <2>1, <2>2 DEF FileInv, Recent, FileRecent
  <2>4. DataOK'
    BY <2>1, <2>2 DEF FileInv, DataOK
  <2>5. /\ FileRecent'
        /\ DiskKnown'
    BY <2>1 DEF FileInv, Recent, Known, FileRecent, DiskKnown
  <2>6. Readable(file)' /\ Stored(file)' = user_data'
    BY <2>1 DEF Readable, Stored
  <2> QED BY <2>1, <2>3, <2>4, <2>5, <2>6 DEF FileInv
<1>3. ASSUME NEW p \in Peers, NEW name \in Names, NEW passwd \in Passwords,
             Authenticate(p, name, passwd)
      PROVE  FileInv'
  BY <1>3 DEF Authenticate, fileVars, FileInv, DataOK, Recent, Known, FileRecent, DiskKnown, Readable, Stored
<1>4. ASSUME NEW p \in Peers, NEW name \in Names, NEW passwd \in Passwords,
             ReplacePassword(p, name, passwd)
      PROVE  FileInv'
  <2> DEFINE u == Entry[name]
  <2>1. u \in Users
    OBVIOUS
  <2>2. user_data' \in [Users -> Entries] /\ change' = [user |-> u, passwd |-> passwd]
    <3>1. user_data \in [Users -> Entries] /\ {passwd, NoPassword} \subseteq Entries
      BY DEF FileInv, DataOK, Entries
    <3>2. /\ \/ user_data' = [user_data EXCEPT ![u] = passwd]
             \/ user_data' = user_data
             \/ user_data' = [user_data EXCEPT ![u] = NoPassword]
          /\ change' = [user |-> u, passwd |-> passwd]
      BY <1>4 DEF ReplacePassword
    <3> QED BY <2>1, <3>1, <3>2
  <2>3. /\ tried' = [tried EXCEPT ![u] = @ \cup {passwd, user_data'[u]}]
        /\ older' = [older EXCEPT ![u] = @ \cup {passwd, user_data'[u]}]
        /\ tried' \in [Users -> SUBSET Entries] /\ older' \in [Users -> SUBSET Entries]
        /\ pc' = "truncate" /\ UNCHANGED <<file, disk, acknowledged>>
    <3>1. user_data'[u] \in Entries
      BY <2>1, <2>2
    <3> QED BY <1>4, <2>1, <3>1 DEF ReplacePassword, FileInv, DataOK, Entries
  <2>4. \A v \in Users : /\ tried[v] \subseteq tried'[v] /\ older[v] \subseteq older'[v]
                         /\ user_data'[v] \in {user_data[v]} \cup tried'[v]
                         /\ {acknowledged'[v]} \cup tried'[v] \subseteq older'[v]
    BY <1>4, <2>1, <2>3 DEF ReplacePassword, FileInv, DataOK
  <2>5. DataOK'
    <3>1. change' \in [user : Users, passwd : Passwords]
      BY <2>1, <2>2
    <3> QED BY <2>2, <2>3, <3>1 DEF FileInv, DataOK
  <2>6. Recent(user_data)'
    BY <2>2, <2>3, <2>4 DEF FileInv, DataOK, Recent
  <2>7. FileRecent'
    <3>1. \A i \in DOMAIN file : DOMAIN file[i].users \subseteq Users
      BY PieceUsers DEF FileInv, DataOK
    <3> QED BY <2>3, <2>4, <3>1 DEF FileInv, Recent, FileRecent
  <2>8. DiskKnown'
    <3>1. \A i \in DOMAIN disk : DOMAIN disk[i].users \subseteq Users
      BY PieceUsers DEF FileInv, DataOK
    <3> QED BY <2>3, <2>4, <3>1 DEF FileInv, Known, DiskKnown
  <2> QED BY <2>3, <2>4, <2>5, <2>6, <2>7, <2>8 DEF FileInv
<1>5. CASE Truncate
  <2>1. /\ file' = <<>> /\ pc' = "print"
        /\ UNCHANGED <<disk, older, user_data, change, acknowledged, tried>>
        /\ pc = "truncate"
    BY <1>5 DEF Truncate
  <2>2. DataOK' /\ DOMAIN file' = {}
    BY <2>1 DEF FileInv, DataOK
  <2> QED BY <2>1, <2>2 DEF FileInv, Recent, Known, FileRecent, DiskKnown
<1>6. ASSUME NEW what \in {"truncate", "print", "write"}, Fails(what), UNCHANGED fileVars
      PROVE  FileInv'
  BY <1>6 DEF Fails, fileVars, FileInv, DataOK, Recent, Known, FileRecent, DiskKnown
<1>7. CASE Print_
  BY <1>7 DEF Print_, FileInv, DataOK, Recent, Known, FileRecent, DiskKnown, daemonVars, fileVars, historyVars
<1>8. CASE Write
  <2>1. PICK w \in 1 .. to_write :
          /\ mishaps' = IF w < to_write THEN mishaps \cup {"short write"} ELSE mishaps
          /\ file' = file \o SubSeq(Data(user_data), 1, w)
          /\ written' = w /\ to_write' = to_write - w
    BY <1>8 DEF Write
  <2>2. written' = w /\ to_write' = to_write - w
    BY <2>1
  <2>3. /\ pc = "write" /\ written < to_write
        /\ UNCHANGED <<pc, disk, older, user_data, change, acknowledged, tried>>
    BY <1>8 DEF Write
  <2>4. /\ to_write \in 0 .. FileSize /\ FileSize \in Nat
        /\ w \in 1 .. FileSize /\ w <= to_write
    <3>1. to_write \in 0 .. FileSize /\ FileSize \in Nat
      BY <2>3 DEF FileInv, DataOK
    <3> QED BY <3>1
  <2>5. /\ file' \in Seq(Pieces)
        /\ \A i \in DOMAIN file' : \A u \in DOMAIN file'[i].users :
              u \in Users /\ file'[i].users[u] = user_data[u]
    BY <2>1, <2>3, <2>4, WriteAppends
  <2>6. DataOK'
    <3>1. to_write' \in 0 .. FileSize /\ written' \in 1 .. FileSize
      BY <2>2, <2>4
    <3> QED BY <2>3, <2>5, <3>1 DEF FileInv, DataOK
  <2>7. /\ Recent(user_data)' /\ FileRecent'
        /\ DiskKnown'
    <3>1. DOMAIN user_data = Users
      BY DEF FileInv, DataOK
    <3> QED BY <2>3, <2>5, <3>1 DEF FileInv, Recent, Known, FileRecent, DiskKnown
  <2>8. ASSUME mishaps' = {}
        PROVE  file' = Data(user_data) /\ to_write' = 0 /\ written' # 0
    <3>1. ~(w < to_write) /\ mishaps = {}
      BY <2>1, <2>8, Zenon
    <3>2. w = to_write
      BY <2>4, <3>1
    <3>3. written = 0
      BY <2>3, <3>1 DEF FileInv, DataOK
    <3>4. file = <<>> /\ w = FileSize
      BY <2>3, <3>1, <3>2, <3>3 DEF FileInv, DataOK
    <3>5. Data(user_data) \in Seq(Pieces) /\ Len(Data(user_data)) = FileSize
      BY DataReadable DEF FileInv, DataOK
    <3>6. file' = <<>> \o Data(user_data)
      <4>1. SubSeq(Data(user_data), 1, FileSize) = Data(user_data)
        <5> HIDE DEF Pieces
        <5> QED BY <3>5
      <4> QED BY <2>1, <3>4, <4>1
    <3>7. to_write' = 0 /\ written' # 0
      BY <2>2, <2>4, <3>2, <3>4
    <3> QED BY <3>5, <3>6, <3>7
  <2> QED BY <2>3, <2>5, <2>6, <2>7, <2>8 DEF FileInv
<1>9. CASE ChangeDone
  <2> DEFINE u == change.user
  <2>1. /\ pc = "write" /\ written >= to_write /\ pc' = "idle"
        /\ UNCHANGED <<user_data, file, disk, older, change, mishaps>>
    BY <1>9 DEF ChangeDone, daemonVars, fileVars
  <2>2. u \in Users /\ change.passwd \in Passwords
    BY <2>1 DEF FileInv, DataOK
  <2>3. /\ written # 0 /\ DOMAIN user_data = Users
        /\ \A i \in DOMAIN file : DOMAIN file[i].users \subseteq Users
    BY <2>1, PieceUsers DEF FileInv, DataOK
  <2>4. acknowledged' \in [Users -> Passwords] /\ tried' \in [Users -> SUBSET Entries]
    BY <1>9, <2>2 DEF ChangeDone, FileInv, DataOK
  <2>5. /\ Recent(user_data)'
        /\ \A v \in Users : {acknowledged'[v]} \cup tried'[v] \subseteq older'[v]
    <3>1. CASE user_data[u] = change.passwd
      <4>1. /\ acknowledged' = [acknowledged EXCEPT ![u] = change.passwd]
            /\ tried' = [tried EXCEPT ![u] = {}]
        BY <1>9, <3>1 DEF ChangeDone
      <4>2. ASSUME NEW v \in Users
            PROVE  /\ user_data[v] \in {acknowledged'[v]} \cup tried'[v]
                   /\ {acknowledged'[v]} \cup tried'[v] \subseteq older[v]
        BY <2>2, <2>3, <3>1, <4>1 DEF FileInv, DataOK, Recent
      <4> QED BY <2>1, <2>3, <4>2 DEF Recent
    <3>2. CASE user_data[u] # change.passwd
      BY <1>9, <2>1, <3>2 DEF ChangeDone, FileInv, Recent
    <3> QED BY <3>1, <3>2
  <2>6. DataOK'
    BY <2>1, <2>4 DEF FileInv, DataOK
  <2>7. /\ FileRecent'
        /\ DiskKnown'
    BY <2>1, <2>3, <2>5 DEF FileInv, Recent, Known, FileRecent, DiskKnown
  <2>8. mishaps' = {} => Readable(file)' /\ Stored(file)' = user_data'
    BY <2>1, <2>3, DataReadable DEF FileInv, DataOK, Readable, Stored
  <2> QED BY <2>1, <2>5, <2>6, <2>7, <2>8 DEF FileInv
<1>10. CASE Exit
  BY <1>10 DEF Exit, Ends, fileVars, FileInv, DataOK, Recent, Known, FileRecent, DiskKnown, Readable, Stored
<1> QED
  BY <1>1, <1>2, <1>3, <1>4, <1>5, <1>6, <1>7, <1>8, <1>9, <1>10, WriteBackKeeps, MachineFailsKeeps
  DEF Next, TruncateFails, PrintFails, WriteFails, daemonVars, fileVars

\* What the rewriting of the file keeps, between any two of its system calls,
\* and what the kernel may make of it on the disk meanwhile (write_user_data,
\* change_password).
THEOREM FileInvariant == Spec => []FileInv
<1> QED BY FileInit, FileStep, PTL DEF Spec

\* Between two requests, and after the daemon has ended, the file can be read
\* and says what memory says, unless the last rewriting of it was interrupted,
\* failed or wrote short, or a failure of the machine lost what was not yet on
\* the disk (write_user_data).
THEOREM FileMatchesMemory == Spec => []MemoryMatchesFile
<1>1. FileInv => MemoryMatchesFile
  BY DEF FileInv, MemoryMatchesFile
<1> QED BY <1>1, FileInvariant, PTL

\* Whatever calls failed, wrote short or were never made: a restart finds no
\* password older than the last one that was acknowledged; after a failure of
\* the machine, none older than when all of the file was last on the disk
\* (change_password, load_passwd_data).
THEOREM NoOldPasswords == Spec => []NoOldPassword
<1>1. ASSUME FileInv, Readable(file), NEW u \in Users
      PROVE  Stored(file)[u] \in {acknowledged[u]} \cup tried[u]
  <2>1. /\ Place[u] \in DOMAIN file /\ u \in DOMAIN file[Place[u]].users
        /\ Stored(file)[u] = file[Place[u]].users[u]
    BY <1>1, ReadableStored DEF FileInv, DataOK
  <2>2. Recent(file[Place[u]].users)
    BY <1>1, <2>1 DEF FileInv, FileRecent
  <2> QED BY <2>1, <2>2 DEF Recent
<1>2. FileInv => NoOldPassword
  BY <1>1 DEF NoOldPassword
<1> QED BY <1>2, FileInvariant, PTL

-----------------------------------------------------------------------------
(* Groups: what a peer may open is what the file says of its user, as far  *)
(* as the names of groups have bits.                                       *)

\* A set of numbers has a least one.
LEMMA LeastExists ==
  ASSUME NEW S, S \subseteq Nat, S # {}
  PROVE  \E n \in S : \A k \in S : n <= k
<1>1. \E n \in S : \A k \in S : ~(<<k, n>> \in OpToRel(<, Nat))
  BY NatLessThanWellFounded, WFMin
<1>2. \E n \in S : \A k \in S : ~(k \in Nat /\ n \in Nat /\ k < n)
  BY <1>1, Zenon DEF OpToRel
<1> QED BY <1>2

\* The names of all users are a sequence of names.
LEMMA AllNamesType ==
  ASSUME NEW lists \in GroupLists
  PROVE  AllNames(lists) \in Seq(GroupNames)
<1> DEFINE seqs == [n \in DOMAIN Order |-> lists[Order[n]]]
           Step(c, i) == IF i = 1 THEN seqs[i] ELSE c[i - 1] \o seqs[i]
           Unfolds(n) == \E c : /\ c = [i \in 1 .. n |-> Step(c, i)]
                                /\ \A i \in 1 .. n : c[i] \in Seq(GroupNames)
<1>1. /\ Len(Order) \in Nat /\ Len(seqs) = Len(Order)
      /\ \A i \in 1 .. Len(Order) : seqs[i] \in Seq(GroupNames)
  BY GroupsAssumption DEF GroupsAssumption
<1>2. CASE Len(seqs) = 0
  BY <1>1, <1>2 DEF AllNames, FlattenSeq
<1>3. CASE Len(seqs) # 0
  <2> HIDE DEF Unfolds, seqs
  <2>1. Unfolds(1)
    <3> DEFINE c == [i \in 1 .. 1 |-> seqs[i]]
    <3>1. c = [i \in 1 .. 1 |-> Step(c, i)] /\ \A i \in 1 .. 1 : c[i] \in Seq(GroupNames)
      BY <1>1, <1>3
    <3> HIDE DEF c
    <3> QED BY <3>1 DEF Unfolds
  <2>2. ASSUME NEW n \in 1 .. Len(Order) - 1, Unfolds(n) PROVE Unfolds(n + 1)
    <3> PICK c : /\ c = [i \in 1 .. n |-> Step(c, i)]
                 /\ \A i \in 1 .. n : c[i] \in Seq(GroupNames)
      BY <2>2 DEF Unfolds
    <3> DEFINE d == [i \in 1 .. n + 1 |-> IF i = n + 1 THEN c[n] \o seqs[n + 1] ELSE c[i]]
    <3>0. n \in Nat /\ n >= 1 /\ n + 1 \in 1 .. Len(Order)
      BY <1>1
    <3>1. ASSUME NEW i \in 1 .. n + 1 PROVE d[i] = Step(d, i)
      <4>1. CASE i = n + 1
        <5>1. i # 1 /\ i - 1 = n /\ n \in 1 .. n + 1 /\ n # n + 1
          BY <3>0, <4>1
        <5>2. d[i - 1] = c[n] /\ d[i] = c[n] \o seqs[i]
          BY <4>1, <5>1
        <5> HIDE DEF d
        <5> QED BY <5>1, <5>2, Zenon
      <4>2. CASE i # n + 1
        <5>1. i \in 1 .. n /\ (i # 1 => i - 1 \in 1 .. n)
          BY <3>0, <4>2
        <5>2. d[i] = c[i] /\ (i # 1 => d[i - 1] = c[i - 1])
          BY <5>1, <3>0
        <5>3. c[i] = Step(c, i)
          BY <5>1
        <5> QED BY <5>2, <5>3
      <4> QED BY <4>1, <4>2
    <3>2. ASSUME NEW i \in 1 .. n + 1 PROVE d[i] \in Seq(GroupNames)
      <4>1. CASE i = n + 1
        <5>1. c[n] \in Seq(GroupNames) /\ seqs[n + 1] \in Seq(GroupNames)
          BY <1>1, <3>0
        <5>2. c[n] \o seqs[n + 1] \in Seq(GroupNames)
          BY <5>1
        <5> QED BY <4>1, <5>2
      <4>2. CASE i # n + 1
        BY <4>2, <3>0
      <4> QED BY <4>1, <4>2
    <3>3. d = [i \in 1 .. n + 1 |-> Step(d, i)]
      BY <3>1
    <3> HIDE DEF d
    <3> QED BY <3>2, <3>3 DEF Unfolds
  <2>3. Unfolds(Len(Order))
    <3> DEFINE bad == {n \in 1 .. Len(Order) : ~ Unfolds(n)}
    <3> SUFFICES ASSUME bad # {} PROVE FALSE
      BY <1>1, <1>3
    <3>1. PICK n \in bad : \A k \in bad : n <= k
      <4>1. bad \subseteq Nat
        OBVIOUS
      <4> HIDE DEF bad
      <4> QED BY <4>1, LeastExists
    <3>2. n # 1 /\ n \in 1 .. Len(Order)
      BY <2>1
    <3>3. n - 1 \in 1 .. Len(Order) - 1 /\ n - 1 \notin bad
      BY <1>1, <3>1, <3>2
    <3>4. Unfolds(n - 1 + 1)
      BY <1>1, <2>2, <3>3
    <3> QED BY <1>1, <3>2, <3>4
  <2> DEFINE flatten == CHOOSE c : c = [i \in 1 .. Len(seqs) |-> Step(c, i)]
  <2>4. PICK c : /\ c = [i \in 1 .. Len(Order) |-> Step(c, i)]
                 /\ \A i \in 1 .. Len(Order) : c[i] \in Seq(GroupNames)
    BY <2>3 DEF Unfolds
  <2>5. flatten = [i \in 1 .. Len(Order) |-> Step(flatten, i)]
    BY <1>1, <2>4
  <2>6. AllNames(lists) = flatten[Len(seqs)]
    BY <1>3 DEF AllNames, FlattenSeq, seqs
  <2> HIDE DEF flatten
  <2>7. ASSUME NEW n \in 1 .. Len(Order) PROVE flatten[n] \in Seq(GroupNames)
    <3> DEFINE bad == {k \in 1 .. Len(Order) : flatten[k] \notin Seq(GroupNames)}
    <3> SUFFICES ASSUME bad # {} PROVE FALSE
      OBVIOUS
    <3>1. PICK k \in bad : \A j \in bad : k <= j
      <4>1. bad \subseteq Nat
        OBVIOUS
      <4> HIDE DEF bad
      <4> QED BY <4>1, LeastExists
    <3>2. k \in 1 .. Len(Order) /\ flatten[k] = Step(flatten, k) /\ seqs[k] \in Seq(GroupNames)
      BY <1>1, <2>5
    <3>3. k # 1
      BY <3>1, <3>2
    <3>4. flatten[k - 1] \in Seq(GroupNames)
      BY <1>1, <3>1, <3>2, <3>3
    <3>5. flatten[k - 1] \o seqs[k] \in Seq(GroupNames)
      BY <3>2, <3>4
    <3> QED BY <3>1, <3>2, <3>3, <3>5
  <2> QED BY <1>1, <1>3, <2>6, <2>7
<1> QED BY <1>2, <1>3

\* No name of a group is entered twice.
LEMMA AddGroupKeeps ==
  ASSUME NEW groups \in Seq(GroupNames), IsInjective(groups), NEW name \in GroupNames
  PROVE  AddGroup(groups, name) \in Seq(GroupNames) /\ IsInjective(AddGroup(groups, name))
<1>1. CASE name \in ToSet(groups)
  BY <1>1 DEF AddGroup
<1>2. CASE name \notin ToSet(groups)
  <2> DEFINE longer == Append(groups, name)
  <2>1. /\ longer \in Seq(GroupNames) /\ Len(longer) = Len(groups) + 1
        /\ longer[Len(groups) + 1] = name
        /\ \A i \in 1 .. Len(groups) : longer[i] = groups[i] /\ groups[i] # name
    BY <1>2 DEF ToSet
  <2>2. AddGroup(groups, name) = longer
    BY <1>2 DEF AddGroup
  <2> HIDE DEF longer
  <2>3. ASSUME NEW i \in DOMAIN longer, NEW j \in DOMAIN longer, longer[i] = longer[j]
        PROVE  i = j
    <3>1. DOMAIN longer = 1 .. Len(groups) + 1 /\ DOMAIN groups = 1 .. Len(groups)
      BY <2>1
    <3>2. CASE i \in 1 .. Len(groups) /\ j \in 1 .. Len(groups)
      BY <2>1, <2>3, <3>1, <3>2 DEF IsInjective
    <3> QED BY <2>1, <2>3, <3>1, <3>2
  <2> QED BY <2>1, <2>2, <2>3 DEF IsInjective
<1> QED BY <1>1, <1>2

\* The table never holds a name twice, whatever names there was no memory for.
LEMMA AddGroupsInjective ==
  ASSUME NEW names \in Seq(GroupNames), NEW lost
  PROVE  AddGroups(names, lost) \in Seq(GroupNames) /\ IsInjective(AddGroups(names, lost))
<1> DEFINE Step(c, i) == CASE i = 0 -> <<>>
                           [] i # 0 /\ i \in lost -> c[i - 1]
                           [] OTHER -> AddGroup(c[i - 1], names[i])
           Good(g) == g \in Seq(GroupNames) /\ IsInjective(g)
           Unfolds(n) == \E c : c = [i \in 0 .. n |-> Step(c, i)]
<1>0. Len(names) \in Nat /\ \A i \in 1 .. Len(names) : names[i] \in GroupNames
  OBVIOUS
<1> HIDE DEF Unfolds, Good
<1>1. Unfolds(0)
  <2> DEFINE c == [i \in 0 .. 0 |-> <<>>]
  <2>1. c = [i \in 0 .. 0 |-> Step(c, i)]
    OBVIOUS
  <2> HIDE DEF c
  <2> QED BY <2>1 DEF Unfolds
<1>2. ASSUME NEW n \in Nat, Unfolds(n) PROVE Unfolds(n + 1)
  <2> PICK c : c = [i \in 0 .. n |-> Step(c, i)]
    BY <1>2 DEF Unfolds
  <2> DEFINE d == [i \in 0 .. n + 1 |->
                      IF i = n + 1 THEN IF n + 1 \in lost THEN c[n] ELSE AddGroup(c[n], names[n + 1])
                      ELSE c[i]]
  <2>1. ASSUME NEW i \in 0 .. n + 1 PROVE d[i] = Step(d, i)
    <3>1. CASE i = n + 1
      BY <3>1
    <3>2. CASE i # n + 1 /\ i # 0
      <4>1. i \in 0 .. n /\ i - 1 \in 0 .. n
        BY <3>2
      <4>2. d[i] = c[i] /\ d[i - 1] = c[i - 1]
        BY <4>1
      <4>3. c[i] = Step(c, i)
        BY <4>1
      <4> QED BY <3>2, <4>2, <4>3
    <3>3. CASE i = 0
      BY <3>3
    <3> QED BY <3>1, <3>2, <3>3
  <2>2. d = [i \in 0 .. n + 1 |-> Step(d, i)]
    BY <2>1
  <2> HIDE DEF d
  <2> QED BY <2>2 DEF Unfolds
<1>3. Unfolds(Len(names))
  <2> DEFINE bad == {n \in Nat : ~ Unfolds(n)}
  <2> SUFFICES ASSUME bad # {} PROVE FALSE
    BY <1>0
  <2>1. PICK n \in bad : \A k \in bad : n <= k
    <3>1. bad \subseteq Nat
      OBVIOUS
    <3> HIDE DEF bad
    <3> QED BY <3>1, LeastExists
  <2>2. n # 0
    BY <1>1
  <2>3. n - 1 \in Nat /\ n - 1 \notin bad
    BY <2>1, <2>2
  <2>4. Unfolds(n - 1 + 1)
    BY <1>2, <2>3
  <2> QED BY <2>4
<1> DEFINE groups == CHOOSE c : c = [i \in 0 .. Len(names) |-> Step(c, i)]
<1>4. groups = [i \in 0 .. Len(names) |-> Step(groups, i)]
  BY <1>3 DEF Unfolds
<1>5. AddGroups(names, lost) = groups[Len(names)]
  BY DEF AddGroups
<1> HIDE DEF groups
<1>6. ASSUME NEW n \in 0 .. Len(names) PROVE Good(groups[n])
  <2> DEFINE bad == {k \in 0 .. Len(names) : ~ Good(groups[k])}
  <2> SUFFICES ASSUME bad # {} PROVE FALSE
    OBVIOUS
  <2>1. PICK k \in bad : \A j \in bad : k <= j
    <3>1. bad \subseteq Nat
      OBVIOUS
    <3> HIDE DEF bad
    <3> QED BY <3>1, LeastExists
  <2>2. k \in 0 .. Len(names) /\ groups[k] = Step(groups, k) /\ ~ Good(groups[k])
    BY <1>4, <2>1
  <2>3. k # 0
    <3>1. Good(<<>>)
      BY DEF Good, IsInjective
    <3> QED BY <2>2, <3>1
  <2>4. Good(groups[k - 1]) /\ names[k] \in GroupNames
    BY <1>0, <2>1, <2>2, <2>3
  <2>5. Good(AddGroup(groups[k - 1], names[k]))
    BY <2>4, AddGroupKeeps DEF Good
  <2> QED BY <2>2, <2>3, <2>4, <2>5
<1> QED BY <1>0, <1>5, <1>6 DEF Good

-----------------------------------------------------------------------------
\* The bits of a peer are those of the groups its user has in the file, under
\* the table of the daemon that is running.
AccessInv ==
    /\ group_list \in GroupLists
    /\ all_groups \in Seq(GroupNames) /\ IsInjective(all_groups)
    /\ pc # "down" => Len(all_groups) <= GroupBits
    /\ \A p \in Peers :
          /\ peer[p].login \in Names \cup {NoName}
          /\ peer[p].groups = IF peer[p].login = NoName THEN {}
                              ELSE GetGroups(ToSet(group_list[Entry[peer[p].login]]))
          /\ pc = "down" => peer[p].login = NoName
    /\ peer = [p \in Peers |-> peer[p]]

\* At the beginning there is no table and no peer.
LEMMA AccessInit == Init => AccessInv
BY DEF Init, AccessInv, Nobody, IsInjective

\* A step that changes neither the table nor what peers were given.
LEMMA AccessUntouched ==
  ASSUME AccessInv, UNCHANGED <<group_list, all_groups, peer>>, pc # "down", pc' # "down"
  PROVE  AccessInv'
BY DEF AccessInv, GetGroups

\* Only a load of the file enters names, and only a login hands out bits.
LEMMA AccessStep == AccessInv /\ [Next]_vars => AccessInv'
<1> SUFFICES ASSUME AccessInv, [Next]_vars PROVE AccessInv'
  OBVIOUS
<1>1. CASE UNCHANGED vars
  BY <1>1 DEF vars, AccessInv, GetGroups
<1>2. CASE LoadPasswdData
  <2>1. /\ pc = "down" /\ pc' = "idle" /\ UNCHANGED <<group_list, peer>>
        /\ Len(all_groups') <= GroupBits
        /\ \E lost : all_groups' = AddGroups(AllNames(group_list), lost)
    BY <1>2 DEF LoadPasswdData, Supported
  <2>2. all_groups' \in Seq(GroupNames) /\ IsInjective(all_groups')
    BY <2>1, AllNamesType, AddGroupsInjective DEF AccessInv
  <2> QED BY <2>1, <2>2 DEF AccessInv
<1>3. ASSUME NEW p \in Peers, NEW name \in Names, NEW passwd \in Passwords,
             Authenticate(p, name, passwd)
      PROVE  AccessInv'
  <2> DEFINE bits == GetGroups(ToSet(group_list[Entry[name]]))
  <2>1. PICK user_name : peer' = [peer EXCEPT ![p] =
                            [user_name |-> user_name, login |-> name, groups |-> bits]]
    BY <1>3 DEF Authenticate
  <2>2. pc = "idle" /\ UNCHANGED <<pc, group_list, all_groups>> /\ name # NoName
    BY <1>3, ConstantsAssumption DEF Authenticate, ConstantsAssumption
  <2>3. \A lists : GetGroups(lists)' = GetGroups(lists)
    BY <2>2 DEF GetGroups
  <2> HIDE DEF bits
  <2>4. ASSUME NEW q \in Peers
        PROVE  /\ peer'[q].login \in Names \cup {NoName}
               /\ peer'[q].groups = IF peer'[q].login = NoName THEN {}
                                    ELSE GetGroups(ToSet(group_list[Entry[peer'[q].login]]))
    BY <2>1, <2>2 DEF AccessInv, bits
  <2>5. peer' = [q \in Peers |-> peer'[q]]
    BY <2>1 DEF AccessInv
  <2> QED BY <2>2, <2>4, <2>5 DEF AccessInv, GetGroups
<1>4. ASSUME NEW p \in Peers, NEW name \in Names, NEW passwd \in Passwords,
             ReplacePassword(p, name, passwd)
      PROVE  AccessInv'
  BY <1>4, AccessUntouched DEF ReplacePassword
<1>5. CASE Truncate
  BY <1>5, AccessUntouched DEF Truncate
<1>6. CASE TruncateFails \/ PrintFails \/ WriteFails
  BY <1>6, AccessUntouched DEF TruncateFails, PrintFails, WriteFails, Fails, daemonVars
<1>7. CASE Print_
  BY <1>7, AccessUntouched DEF Print_, daemonVars
<1>8. CASE Write
  BY <1>8, AccessUntouched DEF Write
<1>9. CASE ChangeDone
  BY <1>9, AccessUntouched DEF ChangeDone, daemonVars
<1>10. CASE Exit \/ MachineFails
  <2>1. /\ pc' = "down" /\ all_groups' = <<>> /\ UNCHANGED group_list
        /\ peer' = [p \in Peers |-> [user_name |-> NoName, login |-> NoName, groups |-> {}]]
    <3>1. Ends
      BY <1>10 DEF Exit, MachineFails
    <3> QED BY <3>1 DEF Ends, Nobody
  <2>2. all_groups' \in Seq(GroupNames) /\ IsInjective(all_groups')
    BY <2>1 DEF IsInjective
  <2> QED BY <2>1, <2>2 DEF AccessInv
<1>11. CASE WriteBack
  BY <1>11 DEF WriteBack, AccessInv, GetGroups
<1> QED BY <1>1, <1>2, <1>3, <1>4, <1>5, <1>6, <1>7, <1>8, <1>9, <1>10, <1>11 DEF Next

\* No two names share a bit.
LEMMA OneBitEach ==
  ASSUME AccessInv, pc # "down",
         NEW i \in DOMAIN all_groups, NEW j \in DOMAIN all_groups,
         (i - 1) % GroupBits = (j - 1) % GroupBits
  PROVE  i = j
<1>1. /\ i \in 1 .. GroupBits /\ j \in 1 .. GroupBits /\ GroupBits \in Nat \ {0}
  BY ConstantsAssumption DEF ConstantsAssumption, AccessInv
<1>2. i - 1 \in 0 .. GroupBits - 1 /\ j - 1 \in 0 .. GroupBits - 1
  BY <1>1
<1>3. ASSUME NEW k \in 0 .. GroupBits - 1 PROVE k % GroupBits = k
  BY <1>1
<1> QED BY <1>1, <1>2, <1>3

\* What the groups of a peer are, for any table, log of logins and daemon.
THEOREM AccessInvariant == Spec => []AccessInv
BY AccessInit, AccessStep, PTL DEF Spec

\* The bits a peer was given at login open what the names of its groups open,
\* and nothing else (get_groups, has_access): no two names share a bit.
THEOREM AccessIsByName == Spec => []AccessByName
<1>1. ASSUME AccessInv, pc # "down", NEW p \in Peers, NEW wanted \in SUBSET GroupNames
      PROVE  HasAccess(peer[p].groups, GetGroups(wanted)) <=>
                /\ peer[p].login # NoName
                /\ ToSet(group_list[Entry[peer[p].login]]) \cap wanted \cap ToSet(all_groups) # {}
  <2> DEFINE names == ToSet(group_list[Entry[peer[p].login]])
  <2>1. CASE peer[p].login = NoName
    BY <1>1, <2>1 DEF AccessInv, HasAccess
  <2>2. CASE peer[p].login # NoName
    <3>1. peer[p].groups = GetGroups(names)
      BY <1>1, <2>2 DEF AccessInv
    <3> HIDE DEF names
    <3>2. ASSUME HasAccess(GetGroups(names), GetGroups(wanted))
          PROVE  names \cap wanted \cap ToSet(all_groups) # {}
      <4>1. PICK i \in DOMAIN all_groups, j \in DOMAIN all_groups :
              /\ all_groups[i] \in names /\ all_groups[j] \in wanted
              /\ (i - 1) % GroupBits = (j - 1) % GroupBits
        BY <3>2 DEF HasAccess, GetGroups
      <4>2. i = j
        BY <1>1, <4>1, OneBitEach
      <4>3. all_groups[i] \in ToSet(all_groups)
        BY DEF ToSet
      <4> QED BY <4>1, <4>2, <4>3
    <3>3. ASSUME NEW g \in names \cap wanted \cap ToSet(all_groups)
          PROVE  HasAccess(GetGroups(names), GetGroups(wanted))
      <4>1. PICK i \in DOMAIN all_groups : all_groups[i] = g
        BY DEF ToSet
      <4>2. (i - 1) % GroupBits \in GetGroups(names) \cap GetGroups(wanted)
        BY <4>1 DEF GetGroups
      <4> QED BY <4>2 DEF HasAccess
    <3> QED BY <2>2, <3>1, <3>2, <3>3 DEF names
  <2> QED BY <2>1, <2>2
<1>2. AccessInv => AccessByName
  BY <1>1 DEF AccessByName
<1> QED BY <1>2, AccessInvariant, PTL
=============================================================================
