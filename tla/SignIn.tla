------------------------------- MODULE SignIn -------------------------------
(***************************************************************************)
(* Getting an access token (acquire_rdp_access_token of                    *)
(* client/src/aad/token.rs, acquire_redirect_url of aad_auto/mod.rs):      *)
(* credentials from the cache or from 1Password, a redirect URL from a     *)
(* browser, a token for the code in it.  The runs meet in the files of the *)
(* cache only, each has a browser and a profile of its own.  So logins are *)
(* followed in behaviours with one run at a time; in the others, several   *)
(* are under way, and of their logins only how they end is said.           *)
(***************************************************************************)
EXTENDS CredentialCache, BrowserLogin

CONSTANTS
  NoRun,       \* stands for no run
  MaxFollowed  \* bound on the runs started where logins are followed

ASSUME SignInAssumption == NoRun \notin Runs /\ MaxFollowed \in Nat

VARIABLE followed  \* the run whose logins are followed

vars == <<cacheVars, loginVars, followed>>

(* What the steps after the cache leave alone. *)
onDisk == <<disk, world, made, starts, clashing, disturbed>>
inMemory == <<item, raw, myKey, why, creds, excused>>

Succeed(r, next) == Goto(r, next) /\ UNCHANGED inMemory

(* The password that is typed is the one that holds now. *)
Valid(r) == creds[r].edition = edition

LoginUnderWay == step # "none"

BeginLogin(r) ==
  /\ r = followed /\ pc[r] = "login" /\ ~LoginUnderWay
  /\ step' = "launch"
  /\ UNCHANGED <<cacheVars, mode, open, page, going, todo, saw, left, spent,
                 hung, redirect, moved, declined, followed>>

FollowLogin(r) ==
  /\ r = followed /\ LoginUnderWay
  /\ LoginStep(Valid(r))
  /\ UNCHANGED <<cacheVars, followed>>

(* The login is over; the run has a redirect URL or an error.               *)
EndLogin(r) ==
  /\ r = followed /\ step \in {"got", "failed"}
  /\ IF step = "got" THEN Succeed(r, "exchange") ELSE Leave(r, "failed")
  /\ UNCHANGED <<onDisk, followed>>
  /\ Forget

(* The login of another run. *)
LoginElsewhere(r) ==
  /\ r # followed /\ pc[r] = "login"
  /\ Succeed(r, "exchange") \/ Leave(r, "failed")
  /\ UNCHANGED <<onDisk, loginVars, followed>>

(* The code in the redirect URL is exchanged for the token, or refused. *)
Exchange(r) ==
  /\ pc[r] = "exchange"
  /\ \E how \in {"done", "failed"} : Leave(r, how)
  /\ UNCHANGED <<onDisk, loginVars, followed>>

RunStep(r) ==
  \/ ~LoginUnderWay /\ CacheStep(r) /\ UNCHANGED <<loginVars, followed>>
  \/ BeginLogin(r) \/ FollowLogin(r) \/ EndLogin(r) \/ LoginElsewhere(r)
  \/ Exchange(r)

StartRun(r) ==
  /\ ~LoginUnderWay
  /\ followed # NoRun => r = followed /\ starts < MaxFollowed
  /\ Start(r)
  /\ UNCHANGED <<loginVars, followed>>

(* A process that is killed leaves its browser to itself. *)
Killed(r) ==
  /\ Cut(r)
  /\ IF r = followed THEN Forget ELSE UNCHANGED loginVars
  /\ UNCHANGED followed

Environment ==
  \/ ~LoginUnderWay /\ CacheEnvironment /\ UNCHANGED <<loginVars, followed>>
  \/ \E r \in Runs : StartRun(r) \/ Killed(r)
  \/ PageStep /\ UNCHANGED <<cacheVars, followed>>

Init == CacheInit /\ AtRest /\ followed \in {NoRun, CHOOSE r \in Runs : TRUE}

Next == Environment \/ \E r \in Runs : RunStep(r)

Spec == Init /\ [][Next]_vars

(* A run goes on while it can; op returns.  Of the page, the user and the   *)
(* browser nothing is promised.                                             *)
FairSpec == Spec /\ \A r \in Runs : WF_vars(RunStep(r))

(* Keys are among those generated, credentials among those there have been  *)
(* at 1Password, and no login lasts longer than its timeout.                *)
SignInTypeOK ==
  /\ key \in 0 .. made /\ \A r \in Runs : myKey[r] \in 0 .. made
  /\ \A f \in Files :
       /\ file[f].state \in {"absent", "empty", "garbled", "whole"}
       /\ file[f].state = "whole" => file[f].key \in 1 .. made
  /\ \A r \in Runs : creds[r].edition \in 0 .. edition
  /\ left \in 0 .. IF mode = "auto" THEN LoginPolls ELSE ManualPolls
  /\ spent \in 0 .. Limit
  /\ open => step \in Inside \cup {"closing"}

(* However a run fares, it ends: with its browser closed, unless it is      *)
(* killed.  A call that does not return, a page that does not come and a    *)
(* user who does nothing are each waited for only so long.                  *)
EveryRunEnds ==
  \A r \in Runs :
    Busy(r) ~> (~Busy(r) /\ (r = followed => ~open))
=============================================================================
