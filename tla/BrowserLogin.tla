---------------------------- MODULE BrowserLogin ----------------------------
(***************************************************************************)
(* A login through a browser (client/src/aad_auto/browser.rs): first       *)
(* automated, with credentials, then, if that fails, by the user.  The     *)
(* code talks to the page in single calls and sleeps between them; what    *)
(* the page shows changes on its own, some time after it was clicked.      *)
(*                                                                         *)
(* Time is counted in polls: spent is the time since the browser was       *)
(* opened, left what the present wait still has.  A call may also never    *)
(* return, which only the timeout around the whole login ends.             *)
(***************************************************************************)
EXTENDS Naturals

CONSTANTS
  LoginPolls,     \* AUTOMATED_LOGIN_TIMEOUT: 60 s
  FallbackPolls,  \* MFA_FALLBACK_TIMEOUT: 15 s
  ManualPolls,    \* MANUAL_LOGIN_TIMEOUT: 600 s
  SlackPolls      \* OUTER_TIMEOUT_SLACK: 30 s

ASSUME LoginAssumption ==
  /\ {LoginPolls, FallbackPolls, ManualPolls, SlackPolls} \subseteq Nat
  /\ FallbackPolls <= LoginPolls

VARIABLES
  step,      \* where the login is
  mode,      \* "auto" or "manual"
  open,      \* the browser runs
  page,      \* the screen it shows
  going,     \* the screen it will show next, after a click
  todo,      \* screens the server still has between the code and the redirect
  saw,       \* the last look at the page found "stay signed in"
  left, spent, hung,
  redirect,  \* the URL has been captured
  \* history
  moved,     \* the page changed between a look at it and the answer
  declined   \* the consent screen was answered with Cancel

loginVars == <<step, mode, open, page, going, todo, saw, left, spent, hung,
               redirect, moved, declined>>

NoPage == "none"

(* The waits for an input field, and the screen that has it. *)
Field == [username |-> "user", password |-> "pass", code |-> "otc",
          codeAgain |-> "otc"]
Waiting == DOMAIN Field

(* What runs inside the timeout of automated_login, manual_login_capture. *)
Inside == Waiting \cup {"open", "redirect", "answer", "pause"}

Limit == SlackPolls + IF mode = "auto" THEN LoginPolls ELSE ManualPolls

(* The screens after a click, when the server has these left to show. *)
Following(screens) == IF screens = {} THEN {"landed"} ELSE screens

Call == step \in Inside /\ ~hung

Wait(name, polls) == step' = name /\ left' = polls

(* An error inside the timeout: the browser is closed. *)
GiveUp ==
  /\ step' = "closing"
  /\ UNCHANGED <<mode, open, page, going, todo, saw, left, spent, hung,
                 redirect, moved, declined>>

-----------------------------------------------------------------------------
(* launch: the timeout does not cover it.  Without a browser the login has  *)
(* failed.                                                                  *)
Launch ==
  /\ step = "launch"
  /\ \/ step' = "open" /\ open' = TRUE
     \/ step' = (IF mode = "auto" THEN "fallback" ELSE "failed") /\ UNCHANGED open
  /\ UNCHANGED <<mode, page, going, todo, saw, left, spent, hung, redirect,
                 moved, declined>>

(* new_page at the authorize URL. *)
OpenPage ==
  /\ Call /\ step = "open"
  /\ \/ /\ page' = "user"
        /\ IF mode = "auto" THEN Wait("username", LoginPolls)
                            ELSE Wait("redirect", ManualPolls)
        /\ UNCHANGED <<mode, open, going, todo, saw, spent, hung, redirect,
                       moved, declined>>
     \/ GiveUp

(* A mutant of Sleep: the time of the whole login is not looked at. *)
SleepPastLimit(next) ==
  /\ left > 0
  /\ left' = left - 1 /\ spent' = spent + 1
  /\ step' = next
  /\ UNCHANGED <<mode, open, page, going, todo, saw, hung, redirect, moved,
                 declined>>

(* wait_for_element and wait_for_redirect sleep between two polls, and give *)
(* up when their time is over.                                              *)
Sleep(next) ==
  /\ left > 0 /\ spent < Limit
  /\ left' = left - 1 /\ spent' = spent + 1
  /\ step' = next
  /\ UNCHANGED <<mode, open, page, going, todo, saw, hung, redirect, moved,
                 declined>>

(* The field does not come: that ends the login, except that the screen for *)
(* a push notification may offer a code instead.                            *)
AwaitField ==
  /\ Call /\ step \in Waiting
  /\ page # Field[step]
  /\ \/ Sleep(step)
     \/ /\ left = 0 /\ step = "code" /\ page = "push"
        /\ going' = "otc"
        /\ Wait("codeAgain", LoginPolls)
        /\ UNCHANGED <<mode, open, page, todo, saw, spent, hung, redirect,
                       moved, declined>>
     \/ left = 0 /\ ~(step = "code" /\ page = "push") /\ GiveUp

(* A field is filled in and its button clicked: the page goes on to one of  *)
(* the screens given.  click_when_ready may find no button in time.         *)
Submit(screens, name, polls) ==
  /\ page = Field[step]
  /\ going' \in screens
  /\ Wait(name, polls)
  /\ UNCHANGED <<mode, open, page, saw, spent, hung, redirect, moved, declined>>

CannotSubmit == Call /\ step \in Waiting /\ page = Field[step] /\ GiveUp

EnterUsername ==
  /\ Call /\ step = "username"
  /\ UNCHANGED todo
  /\ Submit({"pass", "other"}, "password", LoginPolls)

(* A password that has been changed since brings the same screen again.     *)
EnterPassword(valid) ==
  /\ Call /\ step = "password"
  /\ UNCHANGED todo
  /\ Submit(IF valid THEN {"otc", "push", "other"} ELSE {"pass"},
            "code", FallbackPolls)

(* generate_code may fail; the code may be refused.                         *)
EnterCode ==
  /\ Call /\ step \in {"code", "codeAgain"}
  /\ \E screens \in SUBSET {"stay", "consent"} :
       /\ todo' = screens
       /\ Submit(Following(screens) \cup {"otc"}, "redirect", LoginPolls)

-----------------------------------------------------------------------------
(* wait_for_redirect *)

(* It reads the URL first, and the text of the page if it has to answer. *)
Look ==
  /\ Call /\ step = "redirect"
  /\ CASE page \in {"landed", "denied"} ->
            /\ redirect' = (page = "landed")
            /\ step' = "closing" /\ UNCHANGED saw
       [] OTHER ->
            /\ step' = IF mode = "auto" THEN "answer" ELSE "pause"
            /\ saw' = (page = "stay") /\ UNCHANGED redirect
  /\ UNCHANGED <<mode, open, page, going, todo, left, spent, hung, moved,
                 declined>>

(* A mutant of Secondary: No to everything that has such a button. *)
SecondaryAlways == page \in {"stay", "consent"}

(* Which of the two buttons is clicked: #idBtn_Back or #idSIButton9. *)
Secondary == saw

(* The click is another call: it finds the button on the screen shown now,  *)
(* if there is one.                                                         *)
Answer ==
  /\ Call /\ step = "answer"
  /\ IF page \in {"stay", "consent"} /\ going = NoPage
     THEN /\ going' \in IF Secondary /\ page = "consent" THEN {"denied"}
                        ELSE Following(todo)
          /\ declined' = (declined \/ (Secondary /\ page = "consent"))
     ELSE UNCHANGED <<going, declined>>
  /\ step' = "pause"
  /\ UNCHANGED <<mode, open, page, todo, saw, left, spent, hung, redirect,
                 moved>>

Pause ==
  /\ Call /\ step = "pause"
  /\ \/ Sleep("redirect")
     \/ left = 0 /\ GiveUp

-----------------------------------------------------------------------------
(* A mutant of TimedOut: the deadline is looked at between two calls. *)
TimedOutBetweenCalls == spent >= Limit /\ ~hung

(* The timeout around the login: the time is over, as it will be when a     *)
(* call does not return.                                                    *)
TimedOut == spent >= Limit \/ hung

OuterTimeout == step \in Inside /\ TimedOut /\ GiveUp

(* close_browser: gracefully, or by killing the process after five seconds. *)
Close ==
  /\ step = "closing"
  /\ open' = FALSE
  /\ step' = IF redirect THEN "got"
             ELSE IF mode = "auto" THEN "fallback" ELSE "failed"
  /\ page' = NoPage /\ going' = NoPage /\ todo' = {} /\ saw' = FALSE
  /\ left' = 0 /\ spent' = 0 /\ hung' = FALSE
  /\ UNCHANGED <<mode, redirect, moved, declined>>

(* acquire_redirect_url: the user does it, in a second browser. *)
Fallback ==
  /\ step = "fallback"
  /\ mode' = "manual" /\ step' = "launch"
  /\ UNCHANGED <<open, page, going, todo, saw, left, spent, hung, redirect,
                 moved, declined>>

LoginStep(valid) ==
  \/ Launch \/ OpenPage \/ AwaitField
  \/ EnterUsername \/ EnterPassword(valid) \/ EnterCode \/ CannotSubmit
  \/ Look \/ Answer \/ Pause \/ OuterTimeout \/ Close \/ Fallback

-----------------------------------------------------------------------------
(* The browser and the user *)

Navigate ==
  /\ going # NoPage
  /\ page' = going /\ going' = NoPage /\ todo' = todo \ {going}
  /\ moved' = (moved \/ (step = "answer" /\ saw))
  /\ UNCHANGED <<step, mode, open, saw, left, spent, hung, redirect, declined>>

(* A call does not return, for instance because the browser has gone. *)
Hang ==
  /\ Call
  /\ hung' = TRUE
  /\ UNCHANGED <<step, mode, open, page, going, todo, saw, left, spent,
                 redirect, moved, declined>>

UserSignsIn ==
  /\ mode = "manual" /\ page = "user" /\ going = NoPage
  /\ step \in {"redirect", "pause"}
  /\ going' \in {"landed", "denied"}
  /\ UNCHANGED <<step, mode, open, page, todo, saw, left, spent, hung,
                 redirect, moved, declined>>

PageStep == open /\ (Navigate \/ Hang \/ UserSignsIn)

(* No login is under way. *)
AtRest ==
  /\ step = "none" /\ mode = "auto" /\ open = FALSE
  /\ page = NoPage /\ going = NoPage /\ todo = {} /\ saw = FALSE
  /\ left = 0 /\ spent = 0 /\ hung = FALSE /\ redirect = FALSE
  /\ moved = FALSE /\ declined = FALSE

Forget ==
  /\ step' = "none" /\ mode' = "auto" /\ open' = FALSE
  /\ page' = NoPage /\ going' = NoPage /\ todo' = {} /\ saw' = FALSE
  /\ left' = 0 /\ spent' = 0 /\ hung' = FALSE /\ redirect' = FALSE
  /\ moved' = FALSE /\ declined' = FALSE

(* Consent is never declined, as the comment on wait_for_redirect wants it, *)
(* unless the page went on from "Stay signed in?" to the consent screen     *)
(* after its text was read and before the button for it was clicked.        *)
ConsentGranted == declined => moved
=============================================================================
