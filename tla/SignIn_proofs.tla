---------------------------- MODULE SignIn_proofs ----------------------------
(***************************************************************************)
(* The credential files, whatever the number of runs that share them, the  *)
(* items and the file names their names are made into: what is read from   *)
(* an undisturbed file can be decrypted with the key on disk.  And the     *)
(* login in the browser: the consent screen is not declined but when the   *)
(* page moves on at the wrong moment.                                      *)
(***************************************************************************)
EXTENDS SignIn, TLAPS

Pcs == Ended \cup {"load", "fetch", "readKey", "createKey", "writeKey", "decrypt",
                   "openBlob", "writeBlob", "login", "exchange"}

(* A file, or what a run has read of one. *)
Blobs == [state : {"absent", "empty", "garbled", "whole"}, key : Nat,
          creds : [item : Items \cup {"none"}, edition : Nat]]

CacheTypeOK ==
  /\ key \in Nat /\ made \in Nat /\ edition \in Nat
  /\ file \in [Files -> Blobs]
  /\ pc \in [Runs -> Pcs]
  /\ item \in [Runs -> Items]
  /\ raw \in [Runs -> Blobs]
  /\ myKey \in [Runs -> Nat]
  /\ why \in [Runs -> {"load", "save"}]
  /\ creds \in [Runs -> [item : Items \cup {"none"}, edition : Nat]]
  /\ clashing \subseteq Runs /\ disturbed \subseteq Files /\ excused \subseteq Runs

HasKey(r) == pc[r] \in {"decrypt", "openBlob", "writeBlob"}
HasRaw(r) == pc[r] \in {"readKey", "createKey", "writeKey", "decrypt"} /\ why[r] = "load"

(* Two runs that make a key at once clash; while one makes a key that       *)
(* clashes with no other, there is none on disk.                            *)
KeyMadeOnce ==
  /\ \A r \in Runs : Creating(r) /\ r \notin clashing => key = NoKey
  /\ \A r, q \in Runs : r # q /\ Creating(r) /\ Creating(q) => {r, q} \subseteq clashing
  /\ \A r \in Runs : Creating(r) \/ HasKey(r) => myKey[r] # NoKey

(* An undisturbed file that nobody writes is not there or sealed with the   *)
(* key on disk; the runs that work with such a file hold that key and what  *)
(* it seals.                                                                *)
FilesMatchKey ==
  /\ \A f \in Files \ disturbed :
       /\ file[f].state = "whole" => key # NoKey /\ file[f].key = key
       /\ (\A r \in Runs : ~Writing(r, f)) => file[f] = Absent \/ file[f].state = "whole"
  /\ \A r \in Runs : FileOf(r) \notin disturbed =>
       /\ HasKey(r) => key # NoKey /\ myKey[r] = key
       /\ HasRaw(r) /\ r \notin excused =>
            raw[r].state = "whole" /\ key # NoKey /\ raw[r].key = key
  /\ \A r \in Runs : pc[r] = "decrypt" => why[r] = "load"

CacheInv == CacheTypeOK /\ KeyMadeOnce /\ FilesMatchKey

-----------------------------------------------------------------------------
LEMMA CacheInitInv == CacheInit => CacheInv
PROOF
<1> SUFFICES ASSUME CacheInit PROVE CacheInv
  OBVIOUS
<1>1. AnItem \in Items
  BY CacheAssumption DEF AnItem
<1>2. Absent \in Blobs /\ NoCreds \in [item : Items \cup {"none"}, edition : Nat]
  BY DEF Absent, Spoilt, Blobs, NoCreds, NoKey
<1>3. CacheTypeOK
  BY <1>1, <1>2 DEF CacheInit, CacheTypeOK, Pcs, Ended, NoKey
<1>4. KeyMadeOnce
  BY DEF CacheInit, KeyMadeOnce, Creating, HasKey
<1>5. FilesMatchKey
  BY DEF CacheInit, FilesMatchKey, HasKey, HasRaw, Absent, Spoilt
<1> QED BY <1>3, <1>4, <1>5 DEF CacheInv
-----------------------------------------------------------------------------

(* A run that starts has nothing yet. *)
LEMMA StartInv ==
  ASSUME CacheInv, NEW r \in Runs, Start(r)
  PROVE  CacheInv'
PROOF
<1>1. CacheTypeOK'
  BY CacheAssumption DEF CacheInv, CacheTypeOK, Pcs, Start, Goto, Ended, disk, world
<1>2. KeyMadeOnce'
  BY DEF CacheInv, CacheTypeOK, KeyMadeOnce, Creating, HasKey, Start, Goto, Ended, disk, world
<1>3. FilesMatchKey'
  BY CacheAssumption DEF CacheInv, CacheTypeOK, KeyMadeOnce, FilesMatchKey, FileOf, Writing, HasKey, HasRaw,
         Creating, Busy, Start, Goto, Ended, disk, world
<1> QED BY <1>1, <1>2, <1>3 DEF CacheInv

(* What is read of an undisturbed file that nobody writes is sealed; a file *)
(* that is not there or cannot be read is not worked with.                  *)
LEMMA LoadBlobInv ==
  ASSUME CacheInv, NEW r \in Runs, LoadBlob(r)
  PROVE  CacheInv'
PROOF
<1>0. FileOf(r) \in Files
  BY CacheAssumption DEF CacheInv, CacheTypeOK, FileOf
<1>1. CacheTypeOK'
  <2>1. Absent \in Blobs
    BY DEF Absent, Spoilt, Blobs, NoCreds, NoKey
  <2> QED BY <1>0, <2>1 DEF CacheInv, CacheTypeOK, Pcs, LoadBlob, Goto, disk, world
<1>2. KeyMadeOnce'
  BY DEF CacheInv, CacheTypeOK, KeyMadeOnce, Creating, HasKey, LoadBlob, Goto, disk, world
<1>3. FilesMatchKey'
  <2>1. /\ UNCHANGED <<file, key, item, myKey, why, disturbed>>
        /\ pc[r] = "load" /\ pc' = [pc EXCEPT ![r] = pc'[r]]
        /\ pc'[r] \in {"fetch", "readKey"}
        /\ raw' = [raw EXCEPT ![r] = raw'[r]]
        /\ pc'[r] = "readKey" => raw'[r] = file[FileOf(r)] /\ file[FileOf(r)] # Absent
        /\ excused \subseteq excused'
        /\ r \notin excused' => FileOf(r) \notin disturbed
                                  /\ \A q \in Runs : ~Writing(q, FileOf(r))
    BY DEF CacheInv, CacheTypeOK, LoadBlob, Goto, disk
  <2>2. FilesMatchKey /\ pc \in [Runs -> Pcs] /\ raw \in [Runs -> Blobs]
    BY DEF CacheInv, CacheTypeOK
  <2>3. \A q \in Runs : FileOf(q)' = FileOf(q)
    BY <2>1 DEF FileOf
  <2>4. \A q \in Runs, f \in Files : Writing(q, f)' <=> Writing(q, f)
    BY <2>1, <2>2, <2>3 DEF Writing
  <2>5. \A q \in Runs : HasKey(q)' <=> HasKey(q)
    BY <2>1, <2>2 DEF HasKey
  <2>6. ASSUME pc'[r] = "readKey", r \notin excused'
        PROVE  raw'[r].state = "whole" /\ key # NoKey /\ raw'[r].key = key
    BY <1>0, <2>1, <2>2, <2>6 DEF FilesMatchKey
  <2> QED BY <2>1, <2>2, <2>3, <2>4, <2>5, <2>6 DEF FilesMatchKey, HasRaw
<1> QED BY <1>1, <1>2, <1>3 DEF CacheInv

(* A key generated while there is one, or while another is being made,      *)
(* clashes with it; the key that is used is the one on disk.                *)
LEMMA ReadKeyInv ==
  ASSUME CacheInv, NEW r \in Runs, ReadKey(r)
  PROVE  CacheInv'
PROOF
<1>1. CacheTypeOK /\ KeyMadeOnce /\ FilesMatchKey
  BY DEF CacheInv
<1>2. /\ UNCHANGED <<key, file, item, raw, why, creds, edition, disturbed, excused>>
      /\ pc[r] = "readKey" /\ pc' = [pc EXCEPT ![r] = pc'[r]]
      /\ myKey' = [myKey EXCEPT ![r] = myKey'[r]]
  BY <1>1 DEF CacheTypeOK, ReadKey, UseKey, GenerateKey, Goto, disk, world
<1>3. ASSUME key # NoKey, UseKey(r) PROVE CacheInv'
  <2>1. /\ clashing' = clashing /\ made' = made /\ myKey'[r] = key /\ key \in Nat
        /\ pc'[r] \in {"decrypt", "openBlob"} /\ pc'[r] = AfterKey(r)
    BY <1>1, <1>3 DEF CacheTypeOK, UseKey, Goto, AfterKey
  <2>2. CacheTypeOK'
    BY <1>1, <1>2, <2>1 DEF CacheTypeOK, Pcs
  <2>3. KeyMadeOnce'
    BY <1>1, <1>2, <1>3, <2>1 DEF CacheTypeOK, KeyMadeOnce, Creating, HasKey
  <2>4. FilesMatchKey'
    BY <1>1, <1>2, <1>3, <2>1 DEF CacheTypeOK, FilesMatchKey, FileOf, Writing, HasKey, HasRaw,
       AfterKey
  <2> QED BY <2>2, <2>3, <2>4 DEF CacheInv
<1>4. ASSUME GenerateKey(r) PROVE CacheInv'
  <2>1. made' = made + 1 /\ myKey'[r] = made + 1 /\ pc'[r] = "createKey"
    BY <1>1, <1>4 DEF CacheTypeOK, GenerateKey, Goto
  <2>2. /\ clashing \subseteq clashing' /\ clashing' \subseteq Runs
        /\ key # NoKey => r \in clashing'
        /\ \A q \in Runs \ {r} : Creating(q) => {r, q} \subseteq clashing'
    BY <1>1, <1>4 DEF CacheTypeOK, GenerateKey, ClashingWith
  <2>3. CacheTypeOK'
    BY <1>1, <1>2, <2>1, <2>2 DEF CacheTypeOK, Pcs
  <2>4. /\ \A q \in Runs \ {r} : pc'[q] = pc[q] /\ myKey'[q] = myKey[q]
        /\ myKey'[r] # NoKey
    BY <1>1, <1>2, <2>1 DEF CacheTypeOK, NoKey
  <2>5. \A q \in Runs : Creating(q)' => q = r \/ Creating(q)
    BY <2>4 DEF Creating
  <2>6. KeyMadeOnce'
    <3>1. ASSUME NEW q \in Runs, Creating(q)', q \notin clashing' PROVE key' = NoKey
      BY <1>1, <1>2, <2>2, <2>5, <3>1 DEF KeyMadeOnce
    <3>2. ASSUME NEW q \in Runs, NEW p \in Runs, q # p, Creating(q)', Creating(p)'
          PROVE  {q, p} \subseteq clashing'
      BY <1>1, <2>2, <2>5, <3>2 DEF KeyMadeOnce
    <3>3. ASSUME NEW q \in Runs, Creating(q)' \/ HasKey(q)' PROVE myKey'[q] # NoKey
      BY <1>1, <2>4, <3>3 DEF KeyMadeOnce, Creating, HasKey
    <3> QED BY <3>1, <3>2, <3>3 DEF KeyMadeOnce
  <2>7. FilesMatchKey'
    BY <1>1, <1>2, <2>1 DEF CacheTypeOK, FilesMatchKey, FileOf, Writing, HasKey, HasRaw
  <2> QED BY <2>3, <2>6, <2>7 DEF CacheInv
<1> QED BY <1>3, <1>4 DEF ReadKey

LEMMA MadeAgainIs ==
  ASSUME CacheTypeOK, NEW r \in Runs
  PROVE  /\ disturbed \subseteq MadeAgain(r) /\ MadeAgain(r) \subseteq Files
         /\ r \notin clashing => MadeAgain(r) = disturbed
         /\ r \in clashing => /\ \A f \in Files : file[f] # Absent => f \in MadeAgain(r)
                            /\ \A q \in Runs : Busy(q) => FileOf(q) \in MadeAgain(r)
PROOF
<1>1. \A q \in Runs : FileOf(q) \in Files
  BY CacheAssumption DEF CacheTypeOK, FileOf
<1> QED BY <1>1 DEF CacheTypeOK, MadeAgain

(* A key that clashes disturbs all files there are and will be; any other   *)
(* is made where there is none.                                             *)
LEMMA CreateKeyInv ==
  ASSUME CacheInv, NEW r \in Runs, CreateKey(r)
  PROVE  CacheInv'
PROOF
<1>0. CacheTypeOK /\ KeyMadeOnce /\ FilesMatchKey
  BY DEF CacheInv
<1>1. CacheTypeOK'
  BY <1>0, MadeAgainIs DEF CacheTypeOK, Pcs, CreateKey, Goto, world, NoKey
<1>2. KeyMadeOnce'
  BY <1>0 DEF CacheTypeOK, KeyMadeOnce, Creating, HasKey, CreateKey, Goto
<1>3. FilesMatchKey'
  <2>1. /\ UNCHANGED <<file, item, raw, myKey, why, excused>>
        /\ pc[r] = "createKey" /\ pc' = [pc EXCEPT ![r] = "writeKey"]
        /\ key' = NoKey /\ disturbed' = MadeAgain(r)
    BY DEF CreateKey, Goto
  <2>2. \A q \in Runs : FileOf(q)' = FileOf(q)
    BY <2>1 DEF FileOf
  <2>3. \A q \in Runs, f \in Files : Writing(q, f)' <=> Writing(q, f)
    BY <1>0, <2>1, <2>2 DEF Writing, CacheTypeOK
  <2>4. \A q \in Runs : (HasKey(q)' <=> HasKey(q)) /\ (HasRaw(q)' <=> HasRaw(q))
    BY <1>0, <2>1 DEF HasKey, HasRaw, CacheTypeOK
  <2>5. \A q \in Runs : HasKey(q) \/ HasRaw(q) => Busy(q)
    BY DEF HasKey, HasRaw, Busy, Ended
  <2>6. CASE r \notin clashing
    <3>1. key = NoKey /\ disturbed' = disturbed
      BY <1>0, <2>1, <2>6, MadeAgainIs DEF KeyMadeOnce, Creating
    <3> QED BY <1>0, <2>1, <2>2, <2>3, <2>4, <3>1 DEF FilesMatchKey, CacheTypeOK
  <2>7. CASE r \in clashing
    <3>1. \A f \in Files \ disturbed' : file[f] = Absent /\ f \notin disturbed
      BY <1>0, <2>1, <2>7, MadeAgainIs
    <3>2. \A q \in Runs : FileOf(q) \notin disturbed' => ~HasKey(q) /\ ~HasRaw(q)
      BY <1>0, <2>1, <2>5, <2>7, MadeAgainIs
    <3>3. \A q \in Runs : pc'[q] = "decrypt" => why'[q] = "load"
      BY <1>0, <2>1 DEF FilesMatchKey, CacheTypeOK
    <3> QED BY <2>1, <2>2, <2>4, <3>1, <3>2, <3>3 DEF FilesMatchKey, Absent, Spoilt
  <2> QED BY <2>6, <2>7
<1> QED BY <1>1, <1>2, <1>3 DEF CacheInv

LEMMA WriteKeyInv ==
  ASSUME CacheInv, NEW r \in Runs, WriteKey(r)
  PROVE  CacheInv'
PROOF
<1>0. CacheTypeOK /\ KeyMadeOnce /\ FilesMatchKey
  BY DEF CacheInv
<1>1. CacheTypeOK'
  BY <1>0, MadeAgainIs DEF CacheTypeOK, Pcs, WriteKey, Goto, world, AfterKey
<1>2. KeyMadeOnce'
  BY <1>0 DEF CacheTypeOK, KeyMadeOnce, Creating, HasKey, WriteKey, Goto, AfterKey
<1>3. FilesMatchKey'
  <2>1. /\ UNCHANGED <<file, item, raw, myKey, why, excused>>
        /\ pc[r] = "writeKey" /\ pc' = [pc EXCEPT ![r] = AfterKey(r)]
        /\ key' = myKey[r] /\ disturbed' = MadeAgain(r)
    BY DEF WriteKey, Goto
  <2>2. \A q \in Runs : FileOf(q)' = FileOf(q)
    BY <2>1 DEF FileOf
  <2>3. \A q \in Runs, f \in Files : Writing(q, f)' <=> Writing(q, f)
    BY <1>0, <2>1, <2>2 DEF Writing, CacheTypeOK, AfterKey
  <2>4. /\ \A q \in Runs \ {r} : (HasKey(q)' <=> HasKey(q)) /\ (HasRaw(q)' <=> HasRaw(q))
        /\ HasRaw(r)' => HasRaw(r)
    BY <1>0, <2>1 DEF HasKey, HasRaw, CacheTypeOK, AfterKey
  <2>5. \A q \in Runs : HasKey(q) \/ HasRaw(q) => Busy(q)
    BY DEF HasKey, HasRaw, Busy, Ended
  <2>6. myKey[r] # NoKey /\ Busy(r)
    BY <1>0, <2>1 DEF KeyMadeOnce, Creating, Busy, Ended
  <2>7. \A q \in Runs : pc'[q] = "decrypt" => why'[q] = "load"
    BY <1>0, <2>1 DEF FilesMatchKey, CacheTypeOK, AfterKey
  <2>8. CASE r \notin clashing
    <3>1. key = NoKey /\ disturbed' = disturbed
      BY <1>0, <2>1, <2>8, MadeAgainIs DEF KeyMadeOnce, Creating
    <3>2. \A f \in Files \ disturbed : file[f].state # "whole"
      BY <1>0, <3>1 DEF FilesMatchKey
    <3>3. \A q \in Runs : FileOf(q) \notin disturbed =>
             ~HasKey(q) /\ (q \notin excused => ~HasRaw(q))
      BY <1>0, <3>1 DEF FilesMatchKey
    <3>4. \A f \in Files \ disturbed' :
            /\ file'[f].state # "whole"
            /\ (\A q \in Runs : ~Writing(q, f)') => file'[f] = Absent
      BY <1>0, <2>1, <2>3, <3>1, <3>2 DEF FilesMatchKey
    <3>5. \A q \in Runs : FileOf(q)' \notin disturbed' =>
            /\ HasKey(q)' => key' # NoKey /\ myKey'[q] = key'
            /\ ~(HasRaw(q)' /\ q \notin excused')
      BY <2>1, <2>2, <2>4, <2>6, <3>1, <3>3
    <3> QED BY <2>1, <2>7, <3>4, <3>5 DEF FilesMatchKey
  <2>9. CASE r \in clashing
    <3>1. \A f \in Files \ disturbed' : file[f] = Absent
      BY <1>0, <2>1, <2>9, MadeAgainIs
    <3>2. \A q \in Runs : FileOf(q) \notin disturbed' => q # r /\ ~HasKey(q) /\ ~HasRaw(q)
      BY <1>0, <2>1, <2>5, <2>6, <2>9, MadeAgainIs
    <3> QED BY <2>1, <2>2, <2>4, <2>7, <3>1, <3>2 DEF FilesMatchKey, Absent, Spoilt
  <2> QED BY <2>8, <2>9
<1> QED BY <1>1, <1>2, <1>3 DEF CacheInv
-----------------------------------------------------------------------------

(* A run that ends takes what it had along; what it was writing is disturbed. *)
LEMMA LeaveInv ==
  ASSUME CacheInv, NEW r \in Runs, NEW how \in {"failed", "killed", "done"}, Leave(r, how),
         UNCHANGED <<key, file, edition, made>>,
         clashing \ {r} \subseteq clashing', clashing' \subseteq clashing,
         disturbed \subseteq disturbed', disturbed' \subseteq Files,
         pc[r] = "writeBlob" => FileOf(r) \in disturbed'
  PROVE  CacheInv'
PROOF
<1>0. CacheTypeOK /\ KeyMadeOnce /\ FilesMatchKey
  BY DEF CacheInv
<1>1. AnItem \in Items /\ Absent \in Blobs
      /\ NoCreds \in [item : Items \cup {"none"}, edition : Nat]
  BY CacheAssumption DEF AnItem, Absent, Spoilt, Blobs, NoCreds, NoKey
<1>2. CacheTypeOK'
  BY <1>0, <1>1 DEF CacheTypeOK, Pcs, Ended, Leave, Goto, NoKey
<1>3. /\ \A q \in Runs \ {r} :
           /\ pc'[q] = pc[q] /\ raw'[q] = raw[q] /\ myKey'[q] = myKey[q]
           /\ why'[q] = why[q] /\ item'[q] = item[q]
           /\ q \in clashing' <=> q \in clashing
           /\ q \in excused' <=> q \in excused
      /\ pc'[r] \in {"failed", "killed", "done"}
  BY <1>0 DEF CacheTypeOK, Leave, Goto
<1>4. KeyMadeOnce'
  BY <1>0, <1>3 DEF KeyMadeOnce, Creating, HasKey
<1>5. /\ \A q \in Runs \ {r} : FileOf(q)' = FileOf(q)
      /\ \A q \in Runs, f \in Files \ disturbed' : Writing(q, f)' <=> Writing(q, f)
  BY <1>3 DEF FileOf, Writing
<1>6. FilesMatchKey'
  BY <1>0, <1>3, <1>5 DEF FilesMatchKey, HasKey, HasRaw
<1> QED BY <1>2, <1>4, <1>6 DEF CacheInv

(* A run that keeps its item and forgets its key changes nothing for the    *)
(* others.                                                                  *)
LEMMA CarryOnInv ==
  ASSUME CacheInv, NEW r \in Runs,
         UNCHANGED <<disk, item, edition, made, clashing, disturbed, excused>>,
         pc' = [pc EXCEPT ![r] = pc'[r]], pc'[r] \in {"login", "exchange", "readKey"},
         pc[r] \notin {"createKey", "writeKey", "writeBlob"},
         pc'[r] = "readKey" => why'[r] = "save",
         raw' = [raw EXCEPT ![r] = raw'[r]], raw'[r] \in Blobs,
         myKey' = [myKey EXCEPT ![r] = myKey'[r]], myKey'[r] \in Nat,
         why' = [why EXCEPT ![r] = why'[r]], why'[r] \in {"load", "save"},
         creds' = [creds EXCEPT ![r] = creds'[r]],
         creds'[r] \in [item : Items \cup {"none"}, edition : Nat]
  PROVE  CacheInv'
PROOF
<1>0. CacheTypeOK /\ KeyMadeOnce /\ FilesMatchKey
  BY DEF CacheInv
<1>1. CacheTypeOK'
  <2>1. pc' \in [Runs -> Pcs]
    BY <1>0 DEF CacheTypeOK, Pcs
  <2>2. raw' \in [Runs -> Blobs] /\ myKey' \in [Runs -> Nat]
    BY <1>0 DEF CacheTypeOK
  <2>3. /\ why' \in [Runs -> {"load", "save"}]
        /\ creds' \in [Runs -> [item : Items \cup {"none"}, edition : Nat]]
    BY <1>0 DEF CacheTypeOK
  <2> QED BY <1>0, <2>1, <2>2, <2>3 DEF CacheTypeOK, disk
<1>2. \A q \in Runs \ {r} : /\ pc'[q] = pc[q] /\ raw'[q] = raw[q]
                            /\ myKey'[q] = myKey[q] /\ why'[q] = why[q]
  BY <1>0 DEF CacheTypeOK
<1>3. KeyMadeOnce'
  BY <1>0, <1>2 DEF KeyMadeOnce, Creating, HasKey, disk
<1>4. \A q \in Runs, f \in Files : Writing(q, f)' <=> Writing(q, f)
  BY <1>2 DEF Writing, FileOf
<1>5. FilesMatchKey'
  BY <1>0, <1>2, <1>4 DEF FilesMatchKey, HasKey, HasRaw, FileOf, disk
<1> QED BY <1>1, <1>3, <1>5 DEF CacheInv

LEMMA DecryptInv ==
  ASSUME CacheInv, NEW r \in Runs, Decrypt(r)
  PROVE  CacheInv'
PROOF
<1>0. CacheTypeOK
  BY DEF CacheInv
<1>1. CASE raw[r].state = "whole" /\ raw[r].key = myKey[r]
  <2>1. /\ UNCHANGED <<disk, item, edition, made, clashing, disturbed, excused, why>>
        /\ pc[r] = "decrypt" /\ pc' = [pc EXCEPT ![r] = "login"]
        /\ raw' = [raw EXCEPT ![r] = Absent]
        /\ myKey' = [myKey EXCEPT ![r] = NoKey]
        /\ creds' = [creds EXCEPT ![r] = raw[r].creds]
    BY <1>1 DEF Decrypt, Goto, world
  <2>2. raw[r].creds \in [item : Items \cup {"none"}, edition : Nat]
    BY <1>0 DEF CacheTypeOK, Blobs
  <2>3. Absent \in Blobs
    BY DEF Absent, Spoilt, Blobs, NoCreds, NoKey
  <2>4. /\ pc'[r] = "login" /\ raw'[r] = Absent /\ myKey'[r] = 0
        /\ creds'[r] = raw[r].creds /\ why'[r] \in {"load", "save"}
        /\ pc' = [pc EXCEPT ![r] = pc'[r]] /\ raw' = [raw EXCEPT ![r] = raw'[r]]
        /\ myKey' = [myKey EXCEPT ![r] = myKey'[r]] /\ why' = [why EXCEPT ![r] = why'[r]]
        /\ creds' = [creds EXCEPT ![r] = creds'[r]]
    BY <1>0, <2>1 DEF CacheTypeOK, NoKey
  <2>5. /\ pc'[r] \in {"login", "exchange", "readKey"}
        /\ pc[r] \notin {"createKey", "writeKey", "writeBlob"}
        /\ pc'[r] = "readKey" => why'[r] = "save"
        /\ raw'[r] \in Blobs /\ myKey'[r] \in Nat /\ why'[r] \in {"load", "save"}
        /\ creds'[r] \in [item : Items \cup {"none"}, edition : Nat]
    BY <2>1, <2>2, <2>3, <2>4
  <2>6. UNCHANGED <<disk, item, edition, made, clashing, disturbed, excused>>
    BY <2>1
  <2> QED BY <2>4, <2>5, <2>6, CarryOnInv
<1>2. CASE ~(raw[r].state = "whole" /\ raw[r].key = myKey[r])
  <2>1. Leave(r, "failed") /\ pc[r] = "decrypt"
        /\ UNCHANGED <<key, file, edition, made, clashing, disturbed>>
    BY <1>2 DEF Decrypt, disk, world
  <2> QED BY <1>0, <2>1, LeaveInv DEF CacheTypeOK
<1> QED BY <1>1, <1>2

LEMMA FetchInv ==
  ASSUME CacheInv, NEW r \in Runs, Fetch(r)
  PROVE  CacheInv'
PROOF
<1>0. CacheTypeOK
  BY DEF CacheInv
<1>1. /\ UNCHANGED <<key, file, edition, made, clashing, disturbed>> /\ pc[r] = "fetch"
      /\ \/ Leave(r, "failed")
         \/ /\ creds' = [creds EXCEPT ![r] = [item |-> item[r], edition |-> edition]]
            /\ why' = [why EXCEPT ![r] = "save"]
            /\ Goto(r, "readKey")
            /\ UNCHANGED <<item, raw, myKey, excused>>
  BY DEF Fetch, disk, world
<1>2. CASE Leave(r, "failed")
  BY <1>0, <1>1, <1>2, LeaveInv DEF CacheTypeOK
<1>3. CASE /\ creds' = [creds EXCEPT ![r] = [item |-> item[r], edition |-> edition]]
           /\ why' = [why EXCEPT ![r] = "save"]
           /\ Goto(r, "readKey")
           /\ UNCHANGED <<item, raw, myKey, excused>>
  <2>1. /\ pc' = [pc EXCEPT ![r] = "readKey"] /\ pc'[r] = "readKey" /\ why'[r] = "save"
        /\ creds'[r] = [item |-> item[r], edition |-> edition]
        /\ creds'[r] \in [item : Items \cup {"none"}, edition : Nat]
        /\ raw' = [raw EXCEPT ![r] = raw'[r]] /\ raw'[r] \in Blobs
        /\ myKey' = [myKey EXCEPT ![r] = myKey'[r]] /\ myKey'[r] \in Nat
        /\ pc' = [pc EXCEPT ![r] = pc'[r]] /\ why' = [why EXCEPT ![r] = why'[r]]
        /\ creds' = [creds EXCEPT ![r] = creds'[r]]
    BY <1>0, <1>3 DEF CacheTypeOK, Goto
  <2>3. /\ pc'[r] \in {"login", "exchange", "readKey"} /\ why'[r] \in {"load", "save"}
        /\ pc[r] \notin {"createKey", "writeKey", "writeBlob"}
        /\ pc'[r] = "readKey" => why'[r] = "save"
    BY <1>1, <2>1
  <2>2. UNCHANGED <<disk, item, edition, made, clashing, disturbed, excused>>
    BY <1>1, <1>3 DEF disk
  <2> QED BY <2>1, <2>2, <2>3, CarryOnInv
<1> QED BY <1>1, <1>2, <1>3

(* A file is emptied, and filled, by a run that holds the key on disk, or   *)
(* it is disturbed.                                                         *)
LEMMA OpenBlobInv ==
  ASSUME CacheInv, NEW r \in Runs, OpenBlob(r)
  PROVE  CacheInv'
PROOF
<1>0. CacheTypeOK /\ KeyMadeOnce /\ FilesMatchKey
  BY DEF CacheInv
<1>1. /\ UNCHANGED <<key, item, raw, myKey, why, creds, edition, made, clashing,
                    disturbed, excused>>
      /\ pc[r] = "openBlob" /\ pc' = [pc EXCEPT ![r] = "writeBlob"]
      /\ file' = [file EXCEPT ![FileOf(r)] = Empty] /\ FileOf(r) \in Files
  BY <1>0, CacheAssumption DEF OpenBlob, Goto, world, CacheTypeOK, FileOf
<1>2. Empty \in Blobs /\ Empty.state = "empty"
  BY DEF Empty, Spoilt, Blobs, NoCreds, NoKey
<1>3. CacheTypeOK'
  BY <1>0, <1>1, <1>2 DEF CacheTypeOK, Pcs
<1>4. KeyMadeOnce'
  BY <1>0, <1>1 DEF KeyMadeOnce, Creating, HasKey, CacheTypeOK
<1>5. /\ \A q \in Runs \ {r} : pc'[q] = pc[q]
      /\ pc'[r] = "writeBlob"
      /\ \A f \in Files \ {FileOf(r)} : file'[f] = file[f]
      /\ file'[FileOf(r)] = Empty
  BY <1>0, <1>1 DEF CacheTypeOK
<1>6. \A f \in Files \ {FileOf(r)}, q \in Runs : Writing(q, f)' <=> Writing(q, f)
  BY <1>1, <1>5 DEF Writing, FileOf
<1>7. Writing(r, FileOf(r))'
  BY <1>1, <1>5 DEF Writing, FileOf
<1>8. ASSUME NEW f \in Files \ disturbed'
      PROVE  /\ file'[f].state = "whole" => key' # NoKey /\ file'[f].key = key'
             /\ (\A q \in Runs : ~Writing(q, f)') => file'[f] = Absent \/ file'[f].state = "whole"
  <2>1. CASE f = FileOf(r)
    BY <1>1, <1>2, <1>5, <2>1 DEF Writing, FileOf
  <2>2. CASE f # FileOf(r)
    BY <1>0, <1>1, <1>5, <1>6, <2>2 DEF FilesMatchKey
  <2> QED BY <2>1, <2>2
<1>9. ASSUME NEW q \in Runs, FileOf(q)' \notin disturbed'
      PROVE  /\ HasKey(q)' => key' # NoKey /\ myKey'[q] = key'
             /\ HasRaw(q)' /\ q \notin excused' =>
                  raw'[q].state = "whole" /\ key' # NoKey /\ raw'[q].key = key'
  BY <1>0, <1>1, <1>5, <1>9 DEF FilesMatchKey, HasKey, HasRaw, FileOf
<1>10. \A q \in Runs : pc'[q] = "decrypt" => why'[q] = "load"
  BY <1>0, <1>1, <1>5 DEF FilesMatchKey
<1>11. FilesMatchKey'
  BY <1>8, <1>9, <1>10 DEF FilesMatchKey
<1> QED BY <1>3, <1>4, <1>11 DEF CacheInv

LEMMA WriteBlobInv ==
  ASSUME CacheInv, NEW r \in Runs, WriteBlob(r)
  PROVE  CacheInv'
PROOF
<1> DEFINE mine == Sealed(myKey[r], creds[r])
<1>0. CacheTypeOK /\ KeyMadeOnce /\ FilesMatchKey
  BY DEF CacheInv
<1>1. /\ UNCHANGED <<key, item, raw, why, creds, edition, made, clashing, excused>>
      /\ pc[r] = "writeBlob" /\ pc' = [pc EXCEPT ![r] = "login"]
      /\ myKey' = [myKey EXCEPT ![r] = NoKey]
      /\ \/ file' = [file EXCEPT ![FileOf(r)] = mine] /\ disturbed' = disturbed
         \/ /\ file' = [file EXCEPT ![FileOf(r)] = Garbled]
            /\ disturbed' = disturbed \cup {FileOf(r)}
      /\ FileOf(r) \in Files
  BY <1>0, CacheAssumption DEF WriteBlob, Goto, world, CacheTypeOK, FileOf
<1>2. /\ Garbled \in Blobs /\ mine \in Blobs
      /\ mine.state = "whole" /\ mine.key = myKey[r]
  BY <1>0 DEF Garbled, Spoilt, Sealed, Blobs, NoCreds, NoKey, CacheTypeOK
<1> HIDE DEF mine
<1>3. CacheTypeOK'
  BY <1>0, <1>1, <1>2 DEF CacheTypeOK, Pcs, NoKey
<1>4. KeyMadeOnce'
  BY <1>0, <1>1 DEF KeyMadeOnce, Creating, HasKey, CacheTypeOK
<1>5. /\ \A q \in Runs \ {r} : pc'[q] = pc[q] /\ myKey'[q] = myKey[q]
      /\ pc'[r] = "login"
      /\ \A f \in Files \ {FileOf(r)} : file'[f] = file[f]
      /\ file'[FileOf(r)] = mine \/ FileOf(r) \in disturbed'
      /\ disturbed \subseteq disturbed'
  BY <1>0, <1>1 DEF CacheTypeOK
<1>6. \A f \in Files \ {FileOf(r)}, q \in Runs : Writing(q, f)' <=> Writing(q, f)
  BY <1>1, <1>5 DEF Writing, FileOf
<1>7. FileOf(r) \notin disturbed => key # NoKey /\ myKey[r] = key
  BY <1>0, <1>1 DEF FilesMatchKey, HasKey
<1>8. ASSUME NEW f \in Files \ disturbed'
      PROVE  /\ file'[f].state = "whole" => key' # NoKey /\ file'[f].key = key'
             /\ (\A q \in Runs : ~Writing(q, f)') => file'[f] = Absent \/ file'[f].state = "whole"
  <2>1. CASE f = FileOf(r)
    BY <1>1, <1>2, <1>5, <1>7, <2>1
  <2>2. CASE f # FileOf(r)
    BY <1>0, <1>1, <1>5, <1>6, <2>2 DEF FilesMatchKey
  <2> QED BY <2>1, <2>2
<1>9. ASSUME NEW q \in Runs, FileOf(q)' \notin disturbed'
      PROVE  /\ HasKey(q)' => key' # NoKey /\ myKey'[q] = key'
             /\ HasRaw(q)' /\ q \notin excused' =>
                  raw'[q].state = "whole" /\ key' # NoKey /\ raw'[q].key = key'
  BY <1>0, <1>1, <1>5, <1>9 DEF FilesMatchKey, HasKey, HasRaw, FileOf
<1>10. \A q \in Runs : pc'[q] = "decrypt" => why'[q] = "load"
  BY <1>0, <1>1, <1>5 DEF FilesMatchKey
<1>11. FilesMatchKey'
  BY <1>8, <1>9, <1>10 DEF FilesMatchKey
<1> QED BY <1>3, <1>4, <1>11 DEF CacheInv

(* A run cut off while it writes disturbs what it writes. *)
LEMMA CutInv ==
  ASSUME CacheInv, NEW r \in Runs, Cut(r)
  PROVE  CacheInv'
PROOF
<1>1. CacheTypeOK /\ FileOf(r) \in Files
  BY CacheAssumption DEF CacheInv, CacheTypeOK, FileOf
<1>2. /\ Leave(r, "killed") /\ UNCHANGED <<key, file, edition, made>>
      /\ clashing \ {r} \subseteq clashing' /\ clashing' \subseteq clashing
      /\ disturbed \subseteq disturbed' /\ disturbed' \subseteq Files
      /\ pc[r] = "writeBlob" => FileOf(r) \in disturbed'
  BY <1>1 DEF Cut, disk, world, CacheTypeOK
<1> QED BY <1>2, LeaveInv

(* A file is deleted while no run is under way, and with it what was wrong. *)
LEMMA DeleteFileInv ==
  ASSUME CacheInv, NEW g \in Files, DeleteFile(g)
  PROVE  CacheInv'
PROOF
<1>0. CacheTypeOK /\ KeyMadeOnce /\ FilesMatchKey
  BY DEF CacheInv
<1>1. /\ UNCHANGED <<key, pc, item, raw, myKey, why, creds, edition, made, clashing, excused>>
      /\ file' = [file EXCEPT ![g] = Absent] /\ disturbed' = disturbed \ {g}
      /\ \A q \in Runs : ~Busy(q)
  BY DEF DeleteFile, world
<1>2. Absent \in Blobs /\ Absent.state = "absent"
  BY DEF Absent, Spoilt, Blobs, NoCreds, NoKey
<1>3. CacheTypeOK'
  BY <1>0, <1>1, <1>2 DEF CacheTypeOK
<1>4. KeyMadeOnce'
  BY <1>0, <1>1 DEF KeyMadeOnce, Creating, HasKey
<1>5. \A q \in Runs : ~HasKey(q)' /\ ~HasRaw(q)' /\ pc'[q] # "decrypt" /\ pc[q] # "writeBlob"
  BY <1>1 DEF Busy, Ended, HasKey, HasRaw
<1>6. ASSUME NEW f \in Files \ disturbed'
      PROVE  /\ file'[f].state = "whole" => key' # NoKey /\ file'[f].key = key'
             /\ file'[f] = Absent \/ file'[f].state = "whole"
  <2>1. CASE f = g
    BY <1>0, <1>1, <1>2, <2>1 DEF CacheTypeOK
  <2>2. CASE f # g
    <3>1. file'[f] = file[f] /\ f \in Files \ disturbed
      BY <1>0, <1>1, <1>6, <2>2 DEF CacheTypeOK
    <3>2. \A q \in Runs : ~Writing(q, f)
      BY <1>5 DEF Writing
    <3> QED BY <1>0, <1>1, <3>1, <3>2 DEF FilesMatchKey
  <2> QED BY <2>1, <2>2
<1>7. FilesMatchKey'
  BY <1>5, <1>6 DEF FilesMatchKey
<1> QED BY <1>3, <1>4, <1>7 DEF CacheInv

-----------------------------------------------------------------------------
LEMMA CacheStepInv ==
  ASSUME CacheInv, NEW r \in Runs, CacheStep(r)
  PROVE  CacheInv'
PROOF
BY LoadBlobInv, ReadKeyInv, CreateKeyInv, WriteKeyInv, DecryptInv, FetchInv,
   OpenBlobInv, WriteBlobInv DEF CacheStep

LEMMA SucceedInv ==
  ASSUME CacheInv, NEW r \in Runs, pc[r] = "login", Succeed(r, "exchange"),
         UNCHANGED <<key, file, edition, made, clashing, disturbed>>
  PROVE  CacheInv'
PROOF
<1>0. CacheTypeOK
  BY DEF CacheInv
<1>1. /\ UNCHANGED <<disk, item, edition, made, clashing, disturbed, excused>>
      /\ pc' = [pc EXCEPT ![r] = pc'[r]] /\ pc'[r] = "exchange"
  BY <1>0 DEF Succeed, Goto, inMemory, disk, CacheTypeOK
<1>2. /\ raw' = [raw EXCEPT ![r] = raw'[r]] /\ raw'[r] \in Blobs
      /\ myKey' = [myKey EXCEPT ![r] = myKey'[r]] /\ myKey'[r] \in Nat
      /\ why' = [why EXCEPT ![r] = why'[r]] /\ why'[r] \in {"load", "save"}
      /\ creds' = [creds EXCEPT ![r] = creds'[r]]
      /\ creds'[r] \in [item : Items \cup {"none"}, edition : Nat]
  BY <1>0 DEF Succeed, inMemory, CacheTypeOK
<1> QED BY <1>1, <1>2, CarryOnInv

LEMMA CacheUnchangedInv ==
  ASSUME CacheInv, UNCHANGED <<disk, pc, item, raw, myKey, why, creds, made, clashing,
                               disturbed, excused>>,
         edition' \in Nat
  PROVE  CacheInv'
PROOF
<1>1. CacheTypeOK' /\ KeyMadeOnce'
  BY DEF CacheInv, CacheTypeOK, KeyMadeOnce, Creating, HasKey, disk
<1>2. FilesMatchKey'
  BY DEF CacheInv, FilesMatchKey, Writing, HasKey, HasRaw, FileOf, disk
<1> QED BY <1>1, <1>2 DEF CacheInv

-----------------------------------------------------------------------------
(* The run whose login is followed is at its login. *)
LoginFollowed == LoginUnderWay => followed \in Runs /\ pc[followed] = "login"

(* Unless the page has moved on, a look that found "stay signed in" is still *)
(* true when the button is clicked.                                         *)
LookHolds == step = "answer" /\ saw => page = "stay" \/ moved

SignInInv == CacheInv /\ LoginFollowed /\ LookHolds /\ ConsentGranted

LEMMA SignInInitInv == Init => SignInInv
PROOF
BY CacheInitInv DEF Init, SignInInv, LoginFollowed, LoginUnderWay, LookHolds,
   ConsentGranted, AtRest

LEMMA LoginStepConsent ==
  ASSUME LookHolds, ConsentGranted, NEW valid, LoginStep(valid)
  PROVE  LookHolds' /\ ConsentGranted'
PROOF
<1> USE DEF LookHolds, ConsentGranted
<1>1. CASE Launch
  BY <1>1 DEF Launch
<1>2. CASE OpenPage
  BY <1>2 DEF OpenPage, Wait, GiveUp
<1>3. CASE AwaitField
  BY <1>3 DEF AwaitField, Waiting, Field, Sleep, Wait, GiveUp
<1>4. CASE EnterUsername \/ EnterPassword(valid) \/ EnterCode \/ CannotSubmit
  BY <1>4 DEF EnterUsername, EnterPassword, EnterCode, CannotSubmit, Submit, Wait, GiveUp
<1>5. CASE Look
  BY <1>5 DEF Look
<1>6. CASE Answer
  BY <1>6 DEF Answer, Secondary
<1>7. CASE Pause \/ OuterTimeout
  BY <1>7 DEF Pause, Sleep, OuterTimeout, GiveUp
<1>8. CASE Close \/ Fallback
  BY <1>8 DEF Close, Fallback
<1> QED BY <1>1, <1>2, <1>3, <1>4, <1>5, <1>6, <1>7, <1>8 DEF LoginStep

LEMMA PageStepConsent ==
  ASSUME LookHolds, ConsentGranted, PageStep
  PROVE  LookHolds' /\ ConsentGranted' /\ step' = step
PROOF
<1>1. CASE Navigate
  <2>1. /\ moved' <=> moved \/ (step = "answer" /\ saw)
        /\ UNCHANGED <<step, saw, declined>>
    BY <1>1, Zenon DEF Navigate
  <2> QED BY <2>1 DEF LookHolds, ConsentGranted
<1>2. CASE Hang \/ UserSignsIn
  BY <1>2 DEF LookHolds, ConsentGranted, Hang, UserSignsIn
<1> QED BY <1>1, <1>2 DEF PageStep

(* Every step of a run keeps the invariant. *)
LEMMA RunStepInv ==
  ASSUME SignInInv, NEW r \in Runs, RunStep(r)
  PROVE  SignInInv'
PROOF
<1>0. CacheInv /\ CacheTypeOK /\ LoginFollowed /\ LookHolds /\ ConsentGranted
  BY DEF SignInInv, CacheInv
<1>1. CASE ~LoginUnderWay /\ CacheStep(r) /\ UNCHANGED <<loginVars, followed>>
  BY <1>0, <1>1, CacheStepInv
     DEF SignInInv, LoginFollowed, LoginUnderWay, LookHolds, ConsentGranted, loginVars
<1>2. CASE BeginLogin(r)
  <2>1. edition' \in Nat
    BY <1>0, <1>2 DEF BeginLogin, cacheVars, world, CacheTypeOK
  <2>2. CacheInv'
    BY <1>0, <1>2, <2>1, CacheUnchangedInv DEF BeginLogin, cacheVars
  <2> QED BY <1>0, <1>2, <2>2
          DEF SignInInv, BeginLogin, LoginFollowed, LookHolds, ConsentGranted, cacheVars
<1>3. CASE FollowLogin(r)
  <2>1. edition' \in Nat
    BY <1>0, <1>3 DEF FollowLogin, cacheVars, world, CacheTypeOK
  <2>2. CacheInv'
    BY <1>0, <1>3, <2>1, CacheUnchangedInv DEF FollowLogin, cacheVars
  <2>3. LookHolds' /\ ConsentGranted'
    BY <1>0, <1>3, LoginStepConsent DEF FollowLogin
  <2> QED BY <1>0, <1>3, <2>2, <2>3 DEF SignInInv, FollowLogin, LoginFollowed, cacheVars
<1>4. CASE EndLogin(r)
  <2>1. pc[r] = "login"
    BY <1>0, <1>4 DEF EndLogin, LoginFollowed, LoginUnderWay
  <2>2. UNCHANGED <<key, file, edition, made, clashing, disturbed>>
    BY <1>4 DEF EndLogin, onDisk, disk, world
  <2>3. Succeed(r, "exchange") \/ Leave(r, "failed")
    BY <1>4 DEF EndLogin
  <2>4. CacheInv'
    BY <1>0, <2>1, <2>2, <2>3, SucceedInv, LeaveInv DEF CacheTypeOK
  <2> QED BY <1>4, <2>4
          DEF SignInInv, EndLogin, LoginFollowed, LoginUnderWay, LookHolds, ConsentGranted, Forget
<1>5. CASE LoginElsewhere(r)
  <2>1. UNCHANGED <<key, file, edition, made, clashing, disturbed>>
    BY <1>5 DEF LoginElsewhere, onDisk, disk, world
  <2>2. /\ Succeed(r, "exchange") \/ Leave(r, "failed")
        /\ pc[r] = "login" /\ r # followed /\ UNCHANGED <<loginVars, followed>>
    BY <1>5 DEF LoginElsewhere
  <2>3. CacheInv'
    BY <1>0, <2>1, <2>2, SucceedInv, LeaveInv DEF CacheTypeOK
  <2>4. pc' = [pc EXCEPT ![r] = pc'[r]]
    BY <1>0, <2>2 DEF CacheTypeOK, Succeed, Leave, Goto
  <2> QED BY <1>0, <2>2, <2>3, <2>4
          DEF SignInInv, LoginFollowed, LoginUnderWay, LookHolds, ConsentGranted, loginVars, CacheTypeOK
<1>6. CASE Exchange(r)
  <2>1. UNCHANGED <<key, file, edition, made, clashing, disturbed>>
    BY <1>6 DEF Exchange, onDisk, disk, world
  <2>2. PICK how \in {"done", "failed"} : Leave(r, how)
    BY <1>6 DEF Exchange
  <2>3. pc[r] = "exchange" /\ UNCHANGED <<loginVars, followed>>
    BY <1>6 DEF Exchange
  <2>4. CacheInv'
    BY <1>0, <2>1, <2>2, <2>3, LeaveInv DEF CacheTypeOK
  <2>5. pc' = [pc EXCEPT ![r] = pc'[r]]
    BY <1>0, <2>2 DEF CacheTypeOK, Leave, Goto
  <2> QED BY <1>0, <2>3, <2>4, <2>5
          DEF SignInInv, LoginFollowed, LoginUnderWay, LookHolds, ConsentGranted, loginVars, CacheTypeOK
<1> QED BY <1>1, <1>2, <1>3, <1>4, <1>5, <1>6 DEF RunStep

LEMMA EnvironmentInv ==
  ASSUME SignInInv, Environment
  PROVE  SignInInv'
PROOF
<1>0. CacheInv /\ CacheTypeOK /\ LoginFollowed /\ LookHolds /\ ConsentGranted
  BY DEF SignInInv, CacheInv
<1>1. CASE ~LoginUnderWay /\ CacheEnvironment /\ UNCHANGED <<loginVars, followed>>
  <2>1. ChangePassword => edition' \in Nat
    BY <1>0 DEF ChangePassword, CacheTypeOK
  <2>2. CacheInv'
    BY <1>0, <1>1, <2>1, CacheUnchangedInv, DeleteFileInv DEF CacheEnvironment, ChangePassword
  <2> QED BY <1>0, <1>1, <2>2
          DEF SignInInv, LoginFollowed, LoginUnderWay, LookHolds, ConsentGranted, loginVars
<1>2. ASSUME NEW r \in Runs, StartRun(r) PROVE SignInInv'
  <2>1. CacheInv'
    BY <1>0, <1>2, StartInv DEF StartRun
  <2> QED BY <1>0, <1>2, <2>1
          DEF SignInInv, StartRun, LoginFollowed, LoginUnderWay, LookHolds, ConsentGranted, loginVars
<1>3. ASSUME NEW r \in Runs, Killed(r) PROVE SignInInv'
  <2>1. CacheInv'
    BY <1>0, <1>3, CutInv DEF Killed
  <2>2. pc' = [pc EXCEPT ![r] = "killed"] /\ UNCHANGED followed
    BY <1>3 DEF Killed, Cut, Leave, Goto
  <2>3. CASE r = followed
    BY <1>3, <2>1, <2>3
       DEF SignInInv, Killed, Forget, LoginFollowed, LoginUnderWay, LookHolds, ConsentGranted
  <2>4. CASE r # followed
    BY <1>0, <1>3, <2>1, <2>2, <2>4
       DEF SignInInv, Killed, LoginFollowed, LoginUnderWay, LookHolds, ConsentGranted,
           loginVars, CacheTypeOK
  <2> QED BY <2>3, <2>4
<1>4. CASE PageStep /\ UNCHANGED <<cacheVars, followed>>
  <2>1. edition' \in Nat
    BY <1>0, <1>4 DEF cacheVars, world, CacheTypeOK
  <2>2. CacheInv'
    BY <1>0, <1>4, <2>1, CacheUnchangedInv DEF cacheVars
  <2> QED BY <1>0, <1>4, <2>2, PageStepConsent
          DEF SignInInv, LoginFollowed, LoginUnderWay, cacheVars
<1> QED BY <1>1, <1>2, <1>3, <1>4 DEF Environment

LEMMA SignInStepInv == SignInInv /\ [Next]_vars => SignInInv'
PROOF
<1> SUFFICES ASSUME SignInInv, [Next]_vars PROVE SignInInv'
  OBVIOUS
<1>1. CASE Next
  BY <1>1, RunStepInv, EnvironmentInv DEF Next
<1>2. CASE UNCHANGED vars
  <2>1. edition' \in Nat
    BY <1>2 DEF vars, cacheVars, world, SignInInv, CacheInv, CacheTypeOK
  <2>2. CacheInv'
    BY <1>2, <2>1, CacheUnchangedInv DEF vars, cacheVars, SignInInv
  <2> QED BY <1>2, <2>2
          DEF vars, cacheVars, loginVars, SignInInv, LoginFollowed, LoginUnderWay, LookHolds,
              ConsentGranted
<1> QED BY <1>1, <1>2

(* The credential files match the key on disk but for those disturbed, and  *)
(* the login that is followed is that of a run at its login.                *)
THEOREM SignInInvariant == Spec => []SignInInv
PROOF
BY SignInInitInv, SignInStepInv, PTL DEF Spec

(* No login declines the consent screen unless the page moved on under its  *)
(* hands (wait_for_redirect), whatever the timeouts.                        *)
THEOREM ConsentNeverDeclined == Spec => []ConsentGranted
PROOF
<1>1. SignInInv => ConsentGranted
  BY DEF SignInInv
<1> QED BY <1>1, SignInInvariant, PTL

LEMMA RefusedStep ==
  SignInInv /\ [Next]_vars =>
    [\A r \in Runs : pc[r] = "decrypt" /\ pc'[r] = "failed"
       => r \in excused \/ FileOf(r) \in disturbed]_cacheVars
PROOF
<1> SUFFICES ASSUME SignInInv, [Next]_vars, NEW r \in Runs,
                    pc[r] = "decrypt", pc'[r] = "failed"
             PROVE  r \in excused \/ FileOf(r) \in disturbed
  OBVIOUS
<1>0. CacheTypeOK /\ FilesMatchKey /\ LoginFollowed
  BY DEF SignInInv, CacheInv
<1>1. Decrypt(r)
  <2>1. CASE \E q \in Runs : RunStep(q)
    <3>1. PICK q \in Runs : RunStep(q)
      BY <2>1
    <3>2. q = r
      BY <1>0, <3>1 DEF RunStep, CacheStep, LoadBlob, ReadKey, UseKey, GenerateKey, CreateKey,
        WriteKey, Decrypt, Fetch, OpenBlob, WriteBlob, BeginLogin, FollowLogin, EndLogin, LoginElsewhere,
        Exchange, Succeed, Leave, Goto, cacheVars, CacheTypeOK
    <3> QED BY <1>0, <3>1, <3>2 DEF RunStep, CacheStep, LoadBlob, ReadKey, UseKey, GenerateKey, CreateKey,
        WriteKey, Fetch, OpenBlob, WriteBlob, BeginLogin, FollowLogin, EndLogin, LoginElsewhere,
        Exchange, LoginFollowed, LoginUnderWay, cacheVars
  <2>2. CASE Environment
    BY <1>0, <2>2 DEF Environment, CacheEnvironment, ChangePassword, DeleteFile, StartRun, Start,
       Killed, Cut, Leave, Goto, cacheVars, CacheTypeOK
  <2>3. CASE UNCHANGED vars
    BY <2>3 DEF vars, cacheVars
  <2> QED BY <2>1, <2>2, <2>3 DEF Next
<1>2. ~(raw[r].state = "whole" /\ raw[r].key = myKey[r])
  BY <1>0, <1>1 DEF Decrypt, Goto, CacheTypeOK
<1> QED BY <1>0, <1>2 DEF FilesMatchKey, HasKey, HasRaw

(* A run is refused its cached credentials only if a write of their file    *)
(* was cut off, mixed up with another or under way, or the key they were    *)
(* sealed with was replaced, by a run that generated one at the same time   *)
(* or by one that could not read it (load, load_or_create_key_bytes and     *)
(* write_private of aad_auto/cache.rs), whichever reads and writes fail,    *)
(* however many runs there are and whatever file names items are given.     *)
THEOREM RefusedOnlyWithReason == Spec => RefusedOnlyIfDisturbed
PROOF
BY SignInInvariant, RefusedStep, PTL DEF Spec, RefusedOnlyIfDisturbed

-----------------------------------------------------------------------------
(* Keys are among those generated, and credentials, wherever they are, have *)
(* been at 1Password.                                                       *)
Generated ==
  /\ key <= made
  /\ \A r \in Runs : /\ myKey[r] <= made
                     /\ creds[r].edition <= edition
                     /\ raw[r].creds.edition <= edition
  /\ \A f \in Files : /\ file[f].state = "whole" => file[f].key \in 1 .. made
                      /\ file[f].creds.edition <= edition

(* The fields are waited for in the automated login, which has the longest  *)
(* of its waits for them; and between two logins nothing is being waited    *)
(* for.                                                                     *)
Timed ==
  /\ left \in 0 .. IF mode = "auto" THEN LoginPolls ELSE ManualPolls
  /\ spent \in 0 .. Limit
  /\ step \in Waiting => mode = "auto"
  /\ step \notin Inside \cup {"closing"} => left = 0 /\ spent = 0 /\ ~open

LEMMA SpoiltIs ==
  ASSUME NEW state
  PROVE  Spoilt(state).state = state /\ Spoilt(state).creds.edition = 0
PROOF
BY DEF Spoilt, NoCreds

LEMMA InitBounds == Init => Generated /\ Timed
PROOF
<1> SUFFICES ASSUME Init PROVE Generated /\ Timed
  OBVIOUS
<1>1. Generated
  BY SpoiltIs DEF Init, CacheInit, Generated, NoKey, NoCreds, Absent
<1>2. Timed
  BY LoginAssumption DEF Init, AtRest, Timed, Limit, Inside, Waiting, Field
<1> QED BY <1>1, <1>2

(* A run that ends leaves nothing that was not generated. *)
LEMMA LeaveGenerated ==
  ASSUME CacheTypeOK, Generated, NEW r \in Runs, NEW how, Leave(r, how),
         UNCHANGED <<key, file, made, edition>>
  PROVE  Generated'
PROOF
BY SpoiltIs DEF CacheTypeOK, Generated, Leave, Absent, NoKey, NoCreds

LEMMA CacheStepGenerated ==
  ASSUME CacheInv, Generated, NEW r \in Runs, CacheStep(r)
  PROVE  Generated'
PROOF
<1>0. CacheTypeOK /\ KeyMadeOnce /\ FileOf(r) \in Files
  BY CacheAssumption DEF CacheInv, CacheTypeOK, FileOf
<1>1. CASE LoadBlob(r)
  BY <1>0, <1>1, SpoiltIs DEF LoadBlob, Generated, CacheTypeOK, disk, world, Absent
<1>2. CASE ReadKey(r)
  <2>1. /\ UNCHANGED <<key, file, raw, creds, edition>>
        /\ made' \in {made, made + 1}
        /\ myKey' = [myKey EXCEPT ![r] = myKey'[r]] /\ myKey'[r] \in {key, made'}
        /\ made' = made => myKey'[r] = key
    BY <1>0, <1>2 DEF ReadKey, UseKey, GenerateKey, CacheTypeOK, disk, world
  <2>2. \A q \in Runs : myKey'[q] <= made'
    BY <1>0, <2>1 DEF Generated, CacheTypeOK
  <2> QED BY <1>0, <2>1, <2>2 DEF Generated, CacheTypeOK, Blobs
<1>3. CASE CreateKey(r)
  BY <1>0, <1>3 DEF CreateKey, Generated, CacheTypeOK, world, NoKey
<1>4. CASE WriteKey(r)
  BY <1>0, <1>4 DEF WriteKey, Generated, CacheTypeOK, world
<1>5. CASE Decrypt(r)
  <2>1. CASE Leave(r, "failed")
    BY <1>0, <1>5, <2>1, LeaveGenerated DEF Decrypt, disk, world
  <2>2. CASE /\ creds' = [creds EXCEPT ![r] = raw[r].creds]
             /\ raw' = [raw EXCEPT ![r] = Absent]
             /\ myKey' = [myKey EXCEPT ![r] = NoKey]
    BY <1>0, <1>5, <2>2, SpoiltIs
       DEF Decrypt, Generated, CacheTypeOK, disk, world, Absent, NoKey
  <2> QED BY <1>5, <2>1, <2>2 DEF Decrypt
<1>6. CASE Fetch(r)
  <2>1. CASE Leave(r, "failed")
    BY <1>0, <1>6, <2>1, LeaveGenerated DEF Fetch, disk, world
  <2>2. CASE /\ creds' = [creds EXCEPT ![r] = [item |-> item[r], edition |-> edition]]
             /\ UNCHANGED <<raw, myKey>>
    BY <1>0, <1>6, <2>2 DEF Fetch, Generated, CacheTypeOK, disk, world
  <2> QED BY <1>6, <2>1, <2>2 DEF Fetch
<1>7. CASE OpenBlob(r)
  BY <1>0, <1>7, SpoiltIs DEF OpenBlob, Generated, CacheTypeOK, world, Empty
<1>8. CASE WriteBlob(r)
  <2>1. myKey[r] \in 1 .. made
    BY <1>0, <1>8 DEF WriteBlob, KeyMadeOnce, HasKey, Generated, CacheTypeOK, NoKey
  <2>2. file' = [file EXCEPT ![FileOf(r)] = file'[FileOf(r)]]
        /\ file'[FileOf(r)] \in {Sealed(myKey[r], creds[r]), Garbled}
    BY <1>0, <1>8 DEF WriteBlob, CacheTypeOK
  <2>3. /\ file'[FileOf(r)].state = "whole" => file'[FileOf(r)].key = myKey[r]
        /\ file'[FileOf(r)].creds.edition <= edition
    BY <1>0, <2>2, SpoiltIs DEF Sealed, Garbled, Generated, CacheTypeOK
  <2> QED BY <1>0, <1>8, <2>1, <2>2, <2>3 DEF WriteBlob, Generated, CacheTypeOK, world, NoKey
<1> QED BY <1>1, <1>2, <1>3, <1>4, <1>5, <1>6, <1>7, <1>8 DEF CacheStep

(* No wait is longer than the longest of its login, and no sleep begins     *)
(* when the time of the login is over.                                      *)
LEMMA LoginStepTimed ==
  ASSUME Timed, NEW valid, LoginStep(valid)
  PROVE  Timed'
PROOF
<1> USE LoginAssumption DEF Timed, Limit, Inside, Waiting, Field
<1>1. CASE Launch
  BY <1>1 DEF Launch
<1>2. CASE OpenPage
  BY <1>2 DEF OpenPage, Wait, GiveUp
<1>3. CASE AwaitField
  <2>1. CASE Sleep(step)
    BY <1>3, <2>1 DEF AwaitField, Sleep
  <2>2. CASE ~Sleep(step)
    BY <1>3, <2>2 DEF AwaitField, Wait, GiveUp
  <2> QED BY <2>1, <2>2
<1>4. CASE EnterUsername
  BY <1>4 DEF EnterUsername, Submit, Wait
<1>5. CASE EnterPassword(valid)
  BY <1>5 DEF EnterPassword, Submit, Wait
<1>6. CASE EnterCode
  BY <1>6 DEF EnterCode, Submit, Wait
<1>7. CASE CannotSubmit \/ OuterTimeout
  BY <1>7 DEF CannotSubmit, OuterTimeout, GiveUp, Call
<1>8. CASE Look
  BY <1>8 DEF Look, Call
<1>9. CASE Answer
  BY <1>9 DEF Answer, Call
<1>10. CASE Pause
  BY <1>10 DEF Pause, Sleep, GiveUp, Call
<1>11. CASE Close
  BY <1>11 DEF Close
<1>12. CASE Fallback
  BY <1>12 DEF Fallback
<1> QED BY <1>1, <1>2, <1>3, <1>4, <1>5, <1>6, <1>7, <1>8, <1>9, <1>10, <1>11, <1>12
        DEF LoginStep

LEMMA PageStepTimed ==
  ASSUME Timed, PageStep
  PROVE  Timed'
PROOF
<1>1. UNCHANGED <<step, mode, open, left, spent>>
  BY DEF PageStep, Navigate, Hang, UserSignsIn
<1> QED BY <1>1 DEF Timed, Limit

LEMMA ForgetTimed == Forget => Timed'
PROOF
BY LoginAssumption DEF Forget, Timed, Limit, Inside, Waiting, Field

LEMMA UnchangedBounds ==
  /\ Generated /\ UNCHANGED cacheVars => Generated'
  /\ Timed /\ UNCHANGED loginVars => Timed'
PROOF
<1>1. Generated /\ UNCHANGED cacheVars => Generated'
  BY DEF Generated, cacheVars, disk, world
<1>2. Timed /\ UNCHANGED loginVars => Timed'
  BY DEF Timed, loginVars, Limit
<1> QED BY <1>1, <1>2

LEMMA BoundsStep ==
  SignInInv /\ Generated /\ Timed /\ [Next]_vars => Generated' /\ Timed'
PROOF
<1> SUFFICES ASSUME SignInInv, Generated, Timed, [Next]_vars
             PROVE  Generated' /\ Timed'
  OBVIOUS
<1>0. CacheInv /\ CacheTypeOK
  BY DEF SignInInv, CacheInv
<1>1. ASSUME NEW r \in Runs, RunStep(r) PROVE Generated' /\ Timed'
  <2>1. CASE ~LoginUnderWay /\ CacheStep(r) /\ UNCHANGED <<loginVars, followed>>
    BY <1>0, <2>1, CacheStepGenerated, UnchangedBounds
  <2>2. CASE BeginLogin(r)
    <3>1. UNCHANGED cacheVars /\ step = "none" /\ step' = "launch"
          /\ UNCHANGED <<mode, open, left, spent>>
      BY <2>2 DEF BeginLogin, LoginUnderWay
    <3> QED BY <3>1, UnchangedBounds DEF Timed, Limit, Inside, Waiting, Field
  <2>3. CASE FollowLogin(r)
    BY <2>3, LoginStepTimed, UnchangedBounds DEF FollowLogin
  <2>4. ASSUME Succeed(r, "exchange") \/ (\E how : Leave(r, how)), UNCHANGED onDisk
        PROVE  Generated'
    <3>1. UNCHANGED <<key, file, made, edition>>
      BY <2>4 DEF onDisk, disk, world
    <3>2. CASE Succeed(r, "exchange")
      BY <3>1, <3>2 DEF Succeed, inMemory, Generated
    <3>3. CASE \E how : Leave(r, how)
      BY <1>0, <3>1, <3>3, LeaveGenerated
    <3> QED BY <2>4, <3>2, <3>3
  <2>5. CASE EndLogin(r)
    BY <2>4, <2>5, ForgetTimed DEF EndLogin
  <2>6. CASE LoginElsewhere(r)
    BY <2>4, <2>6, UnchangedBounds DEF LoginElsewhere
  <2>7. CASE Exchange(r)
    BY <2>4, <2>7, UnchangedBounds DEF Exchange
  <2> QED BY <1>1, <2>1, <2>2, <2>3, <2>5, <2>6, <2>7 DEF RunStep
<1>2. CASE Environment
  <2>1. CASE ~LoginUnderWay /\ CacheEnvironment /\ UNCHANGED <<loginVars, followed>>
    <3>1. ChangePassword => Generated'
      BY <1>0 DEF ChangePassword, Generated, CacheTypeOK, Blobs, disk
    <3>2. ASSUME NEW f \in Files, DeleteFile(f) PROVE Generated'
      BY <1>0, <3>2, SpoiltIs DEF DeleteFile, Generated, CacheTypeOK, world, Absent
    <3> QED BY <2>1, <3>1, <3>2, UnchangedBounds DEF CacheEnvironment
  <2>2. ASSUME NEW r \in Runs, StartRun(r) PROVE Generated' /\ Timed'
    <3>1. Generated'
      BY <2>2 DEF StartRun, Start, Generated, disk, world
    <3> QED BY <2>2, <3>1, UnchangedBounds DEF StartRun
  <2>3. ASSUME NEW r \in Runs, Killed(r) PROVE Generated' /\ Timed'
    <3>1. Generated'
      BY <1>0, <2>3, LeaveGenerated DEF Killed, Cut, disk, world
    <3> QED BY <2>3, <3>1, ForgetTimed, UnchangedBounds DEF Killed
  <2>4. CASE PageStep /\ UNCHANGED <<cacheVars, followed>>
    BY <2>4, PageStepTimed, UnchangedBounds
  <2> QED BY <1>2, <2>1, <2>2, <2>3, <2>4 DEF Environment
<1>3. CASE UNCHANGED vars
  BY <1>3, UnchangedBounds DEF vars
<1> QED BY <1>1, <1>2, <1>3 DEF Next

(* No login outlasts its timeout and no wait the time given to it, the      *)
(* browser is closed outside of a login, a credential file that is whole is *)
(* sealed with a key that was generated, and credentials are never from the *)
(* future (wait_for_element, wait_for_redirect and the timeouts of          *)
(* aad_auto/browser.rs, load and save of cache.rs), whatever the timeouts,  *)
(* if that of the fallback is not longer than that of the login.            *)
THEOREM LoginsStayInBounds == Spec => []SignInTypeOK
PROOF
<1>1. SignInInv /\ Generated /\ Timed => SignInTypeOK
  BY DEF SignInInv, CacheInv, CacheTypeOK, Blobs, Generated, Timed, SignInTypeOK
<1>2. Spec => [](SignInInv /\ Generated /\ Timed)
  BY SignInInitInv, SignInStepInv, InitBounds, BoundsStep, PTL DEF Spec
<1> QED BY <1>1, <1>2, PTL

=============================================================================
