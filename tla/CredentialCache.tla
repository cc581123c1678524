--------------------------- MODULE CredentialCache --------------------------
(***************************************************************************)
(* The credentials a sign-in finds on disk (client/src/aad_auto/cache.rs,  *)
(* onepassword.rs).  Several runs of the program share one directory: a    *)
(* key file, and for each 1Password item a file encrypted with that key.   *)
(* Nothing locks them, and a file is written in two steps: File::create    *)
(* empties it, write_all fills it.                                         *)
(***************************************************************************)
EXTENDS Naturals, FiniteSets

CONSTANTS
  Runs,        \* processes of the program
  Items,       \* names of 1Password items
  Files,       \* names of credential files
  Sanitize,    \* the file name made of an item's name
  MaxStarts,   \* bound on the runs started
  MaxChanges   \* bound on the changes of passwords at 1Password

ASSUME CacheAssumption ==
  /\ Items # {}
  /\ Sanitize \in [Items -> Files]
  /\ {MaxStarts, MaxChanges} \subseteq Nat

VARIABLES
  \* the disk
  key,      \* cache.key
  file,     \* the .enc files
  \* the runs
  pc,       \* what each run is about to do
  item,     \* the item it was started for
  raw,      \* the file it has read
  myKey,    \* the key it has read or generated
  why,      \* whether it needs the key to load or to save
  creds,    \* the credentials it has
  \* the world
  edition,  \* how often the passwords have been changed
  \* history
  made,     \* keys generated so far
  starts,   \* runs started so far
  clashing, \* runs that generate a key while there is one, or another run
            \* generates one too
  disturbed,\* files whose writing was cut off, or whose key may be lost
  excused   \* runs that read such a file, or one that was being written

disk == <<key, file>>
world == <<edition>>
cacheVars == <<disk, pc, item, raw, myKey, why, creds, world, made, starts,
               clashing, disturbed, excused>>

NoCreds == [item |-> "none", edition |-> 0]
FileOf(r) == Sanitize[item[r]]

(* Keys are numbered.  A key file that is absent or does not hold a key is  *)
(* 0: load_or_create_key_bytes does not tell the two apart.                 *)
NoKey == 0

(* A credential file: not there, emptied, what two writers left of each     *)
(* other's bytes, or credentials encrypted with a key.                      *)
Spoilt(state) == [state |-> state, key |-> NoKey, creds |-> NoCreds]
Absent == Spoilt("absent")
Empty == Spoilt("empty")
Garbled == Spoilt("garbled")
Sealed(k, c) == [state |-> "whole", key |-> k, creds |-> c]

(* Where a run has ended: with a redirect URL, with an error, or killed. *)
Ended == {"idle", "done", "failed", "killed"}
Busy(r) == pc[r] \notin Ended
Creating(r) == pc[r] \in {"createKey", "writeKey"}
Writing(r, f) == pc[r] = "writeBlob" /\ FileOf(r) = f

Goto(r, next) == pc' = [pc EXCEPT ![r] = next]

(* A run ends; what it had in memory goes with it. *)
AnItem == CHOOSE i \in Items : TRUE
Leave(r, how) ==
  /\ Goto(r, how)
  /\ item' = [item EXCEPT ![r] = AnItem]
  /\ raw' = [raw EXCEPT ![r] = Absent]
  /\ myKey' = [myKey EXCEPT ![r] = NoKey]
  /\ why' = [why EXCEPT ![r] = "load"]
  /\ creds' = [creds EXCEPT ![r] = NoCreds]
  /\ excused' = excused \ {r}

Start(r) ==
  /\ pc[r] \in Ended /\ starts < MaxStarts
  /\ \E i \in Items : item' = [item EXCEPT ![r] = i]
  /\ Goto(r, "load")
  /\ starts' = starts + 1
  /\ UNCHANGED <<disk, raw, myKey, why, creds, world, made, clashing, disturbed,
                 excused>>

(* load reads the file of its item.  Without one, or if it cannot be read,  *)
(* nothing counts as cached, and the credentials are fetched; the key is    *)
(* not looked at.                                                           *)
LoadBlob(r) ==
  /\ pc[r] = "load"
  /\ \E read \in {file[FileOf(r)], Absent} :
       /\ raw' = [raw EXCEPT ![r] = read]
       /\ Goto(r, IF read = Absent THEN "fetch" ELSE "readKey")
  /\ excused' = IF \/ FileOf(r) \in disturbed
                   \/ \E q \in Runs : Writing(q, FileOf(r))
                THEN excused \cup {r} ELSE excused
  /\ UNCHANGED <<disk, item, myKey, why, creds, world, made, starts, clashing,
                 disturbed>>

-----------------------------------------------------------------------------
(* load_or_create_key_bytes *)

AfterKey(r) == IF why[r] = "load" THEN "decrypt" ELSE "openBlob"

(* The keys that clash when a run generates one: its own and those being    *)
(* made by others, unless there is no other key.                            *)
ClashingWith(r) ==
  LET others == {q \in Runs \ {r} : Creating(q)}
  IN IF others = {} /\ key = NoKey THEN clashing
                                   ELSE clashing \cup others \cup {r}

UseKey(r) ==
  /\ myKey' = [myKey EXCEPT ![r] = key]
  /\ Goto(r, AfterKey(r))
  /\ UNCHANGED <<made, clashing>>

GenerateKey(r) ==
  /\ made' = made + 1
  /\ myKey' = [myKey EXCEPT ![r] = made + 1]
  /\ clashing' = ClashingWith(r)
  /\ Goto(r, "createKey")

(* A mutant of ReadKey: a key that is generated is not written to the file. *)
ReadKeyUnsaved(r) ==
  /\ pc[r] = "readKey"
  /\ \/ key # NoKey /\ UseKey(r)
     \/ /\ made' = made + 1
        /\ myKey' = [myKey EXCEPT ![r] = made + 1]
        /\ Goto(r, AfterKey(r))
        /\ UNCHANGED clashing
  /\ UNCHANGED <<disk, item, raw, why, creds, world, starts, disturbed,
                 excused>>

(* The key file counts if it can be read and holds 32 bytes.  Otherwise a   *)
(* key is generated: whenever the read fails, too, though there is a key.   *)
ReadKey(r) ==
  /\ pc[r] = "readKey"
  /\ \/ key # NoKey /\ UseKey(r)
     \/ GenerateKey(r)
  /\ UNCHANGED <<disk, item, raw, why, creds, world, starts, disturbed,
                 excused>>

(* The files that may be sealed with another key than the one on disk when  *)
(* a key takes the place of another: all there are, and all that the runs   *)
(* under way will write.                                                    *)
MadeAgain(r) ==
  IF r \in clashing
  THEN disturbed \cup {f \in Files : file[f] # Absent}
                 \cup {FileOf(q) : q \in {q \in Runs : Busy(q)}}
  ELSE disturbed

(* write_private of the key: File::create empties the file, write_all fills *)
(* it.  Another run may be doing the same, or have done so since this one   *)
(* looked.                                                                  *)
CreateKey(r) ==
  /\ pc[r] = "createKey"
  /\ key' = NoKey
  /\ Goto(r, "writeKey")
  /\ disturbed' = MadeAgain(r)
  /\ UNCHANGED <<file, item, raw, myKey, why, creds, world, made, starts,
                 clashing, excused>>

WriteKey(r) ==
  /\ pc[r] = "writeKey"
  /\ key' = myKey[r]
  /\ Goto(r, AfterKey(r))
  /\ disturbed' = MadeAgain(r)
  /\ clashing' = clashing \ {r}
  /\ UNCHANGED <<file, item, raw, myKey, why, creds, world, made, starts,
                 excused>>

-----------------------------------------------------------------------------
(* load and save *)

(* A file that does not parse, and one that does not decrypt with the key,  *)
(* end the run: acquire_redirect_url returns the error of load.             *)
Decrypt(r) ==
  /\ pc[r] = "decrypt"
  /\ IF raw[r].state = "whole" /\ raw[r].key = myKey[r]
     THEN /\ creds' = [creds EXCEPT ![r] = raw[r].creds]
          /\ raw' = [raw EXCEPT ![r] = Absent]
          /\ myKey' = [myKey EXCEPT ![r] = NoKey]
          /\ Goto(r, "login")
          /\ UNCHANGED <<item, why, excused>>
     ELSE Leave(r, "failed")
  /\ UNCHANGED <<disk, world, made, starts, clashing, disturbed>>

(* fetch_credentials: the op command-line tool is asked, and may refuse, or *)
(* the item may lack a field.  What it gives is the present edition.        *)
Fetch(r) ==
  /\ pc[r] = "fetch"
  /\ \/ Leave(r, "failed")
     \/ /\ creds' = [creds EXCEPT ![r] = [item |-> item[r],
                                          edition |-> edition]]
        /\ why' = [why EXCEPT ![r] = "save"]
        /\ Goto(r, "readKey")
        /\ UNCHANGED <<item, raw, myKey, excused>>
  /\ UNCHANGED <<disk, world, made, starts, clashing, disturbed>>

OpenBlob(r) ==
  /\ pc[r] = "openBlob"
  /\ file' = [file EXCEPT ![FileOf(r)] = Empty]
  /\ Goto(r, "writeBlob")
  /\ UNCHANGED <<key, item, raw, myKey, why, creds, world, made, starts,
                 clashing, disturbed, excused>>

(* The bytes go to the start of the file.  Of what another run has written  *)
(* there since it was emptied, a longer tail remains.                       *)
WriteBlob(r) ==
  LET f == FileOf(r)
      mine == Sealed(myKey[r], creds[r])
      other == file[f] # Empty
                 /\ ~(file[f].state = "whole" /\ file[f].creds = creds[r])
  IN /\ pc[r] = "writeBlob"
     /\ \/ file' = [file EXCEPT ![f] = mine] /\ UNCHANGED disturbed
        \/ /\ other
           /\ file' = [file EXCEPT ![f] = Garbled]
           /\ disturbed' = disturbed \cup {f}
     /\ Goto(r, "login")
     /\ myKey' = [myKey EXCEPT ![r] = NoKey]
     /\ UNCHANGED <<key, item, raw, why, creds, world, made, starts, clashing,
                    excused>>

-----------------------------------------------------------------------------
(* What happens to it *)

(* A run ends early: a file cannot be created or written, which ends it     *)
(* with an error, or the process is killed.  A file it was writing stays    *)
(* empty.  A read that fails does not end it: see LoadBlob and ReadKey.     *)
Cut(r) ==
  /\ Busy(r)
  /\ Leave(r, "killed")
  /\ disturbed' = IF pc[r] = "writeBlob" THEN disturbed \cup {FileOf(r)}
                                         ELSE disturbed
  /\ clashing' = clashing \ {r}
  /\ UNCHANGED <<disk, world, made, starts>>

(* The password of an item is changed. *)
ChangePassword ==
  /\ edition < MaxChanges
  /\ edition' = edition + 1
  /\ UNCHANGED <<disk, pc, item, raw, myKey, why, creds, made, starts, clashing,
                 disturbed, excused>>

(* Between runs, the user follows the advice of load's error message and    *)
(* deletes the credential file.                                             *)
DeleteFile(f) ==
  /\ \A r \in Runs : ~Busy(r)
  /\ file[f] # Absent
  /\ file' = [file EXCEPT ![f] = Absent]
  /\ disturbed' = disturbed \ {f}
  /\ UNCHANGED <<key, pc, item, raw, myKey, why, creds, world, made, starts,
                 clashing, excused>>

CacheStep(r) ==
  \/ LoadBlob(r) \/ ReadKey(r) \/ CreateKey(r) \/ WriteKey(r)
  \/ Decrypt(r) \/ Fetch(r) \/ OpenBlob(r) \/ WriteBlob(r)

CacheEnvironment ==
  \/ ChangePassword
  \/ \E f \in Files : DeleteFile(f)

CacheInit ==
  /\ key = NoKey /\ file = [f \in Files |-> Absent]
  /\ pc = [r \in Runs |-> "idle"]
  /\ item = [r \in Runs |-> AnItem]
  /\ raw = [r \in Runs |-> Absent]
  /\ myKey = [r \in Runs |-> NoKey]
  /\ why = [r \in Runs |-> "load"]
  /\ creds = [r \in Runs |-> NoCreds]
  /\ edition = 0 /\ made = 0 /\ starts = 0
  /\ clashing = {} /\ disturbed = {} /\ excused = {}

(* A run is refused its cached credentials only if a write of their file    *)
(* was cut off, mixed up with another or is under way, or the key they were *)
(* sealed with was replaced: by a run that generated one at the same time,  *)
(* or by one that could not read it.  When the file is deleted, as the      *)
(* error message says, this is over.                                        *)
RefusedOnlyIfDisturbed ==
  [][\A r \in Runs : pc[r] = "decrypt" /\ pc'[r] = "failed"
       => r \in excused \/ FileOf(r) \in disturbed]_cacheVars
=============================================================================
