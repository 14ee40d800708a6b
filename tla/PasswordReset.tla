---------------------------- MODULE PasswordReset ----------------------------
(***************************************************************************)
(* A password reset of advanced/04 that waits for its one-time password.   *)
(* One process at a time works on it, in memory; it saves what it has      *)
(* whenever it likes, may die, and another goes on from the file.  What    *)
(* was done since the last save is then forgotten, though the account was  *)
(* changed all the same.                                                   *)
(***************************************************************************)
EXTENDS Naturals, FiniteSets

CONSTANTS
    MaxAttempts,  \* max_attempts
    Lifetime,     \* time to answer, in ticks
    LastTick,     \* bound of the clock
    LastReset,    \* bound of the resets that are begun
    Attempts,     \* ids a caller may give its submissions
    NoReset

ASSUME ResetAssumption == MaxAttempts \in Nat \ {0} /\ Lifetime \in Nat

VARIABLES
    working,  \* the process's PasswordResetState
    filed,    \* the PasswordResetState in the file
    tick,
    begun,    \* how many resets were begun
    answers,  \* history: right answers
    changes   \* history: the updates of the password, with the state they were made in

resetVars == <<working, filed, tick, begun, answers, changes>>

ResetInit ==
    /\ working = NoReset /\ filed = NoReset
    /\ tick = 0 /\ begun = 0 /\ answers = {} /\ changes = {}

\* begin_password_reset, for the user of a contract that may send codes.  It
\* does not look for a file; a reset that is begun again is another one.
BeginReset ==
    /\ working = NoReset /\ begun < LastReset
    /\ begun' = begun + 1
    /\ working' = [number |-> begun', status |-> "WAITING_FOR_OTP", attempts |-> {}, count |-> 0,
                   expires |-> tick + Lifetime, verified |-> FALSE, authorized |-> FALSE,
                   done |-> FALSE]
    /\ UNCHANGED <<filed, tick, answers, changes>>

\* submit_otp.  An answer that comes too late is no attempt.
AfterAttempt(s, right) ==
    IF right THEN [s EXCEPT !.count = @ + 1, !.verified = TRUE, !.status = "VERIFIED"]
    ELSE [s EXCEPT !.count = @ + 1,
                   !.status = IF s.count + 1 >= MaxAttempts THEN "MAX_ATTEMPTS" ELSE "INVALID_OTP"]
SubmitOtp(id, right) ==
    /\ working # NoReset
    /\ working.status \in {"WAITING_FOR_OTP", "INVALID_OTP"}
    /\ id \notin working.attempts
    /\ LET tried == [working EXCEPT !.attempts = @ \cup {id}] IN
       IF tick >= working.expires
       THEN working' = [tried EXCEPT !.status = "EXPIRED_OTP"] /\ answers' = answers
       ELSE /\ working' = AfterAttempt(tried, right)
            /\ answers' = IF right THEN answers \cup {[of |-> working.number, id |-> id, at |-> tick]}
                          ELSE answers
    /\ UNCHANGED <<filed, tick, begun, changes>>

\* authorize_password_update
AuthorizeUpdate ==
    /\ working # NoReset
    /\ working.status = "VERIFIED" /\ working.verified
    /\ working' = [working EXCEPT !.authorized = TRUE, !.status = "PASSWORD_UPDATE_AUTHORIZED"]
    /\ UNCHANGED <<filed, tick, begun, answers, changes>>

\* Wrong: whatever its status is by now.
AnyVerified(s) == s.verified /\ s.authorized

\* execute_password_update; what is done already is not done again.
UpdateAllowed(s) ==
    s.status = "PASSWORD_UPDATE_AUTHORIZED" /\ s.verified /\ s.authorized
ExecuteUpdate ==
    /\ working # NoReset
    /\ \/ /\ working.done
          /\ working' = [working EXCEPT !.status = "COMPLETED"]
          /\ changes' = changes
       \/ /\ ~working.done /\ UpdateAllowed(working)
          /\ working' = [working EXCEPT !.done = TRUE, !.status = "COMPLETED"]
          /\ changes' = changes \cup {[of |-> working, filed |-> filed]}
    /\ UNCHANGED <<filed, tick, begun, answers>>

\* Wrong: a reset that is completed is cancelled like any other.
CancelAnyReset ==
    /\ working # NoReset
    /\ working' = [working EXCEPT !.status = "CANCELLED"]
    /\ UNCHANGED <<filed, tick, begun, answers, changes>>

CancelReset ==
    /\ working # NoReset
    /\ working' = [working EXCEPT !.status = IF @ = "COMPLETED" THEN @ ELSE "CANCELLED"]
    /\ UNCHANGED <<filed, tick, begun, answers, changes>>

SaveReset ==
    /\ working # NoReset
    /\ filed' = working
    /\ UNCHANGED <<working, tick, begun, answers, changes>>

ProcessDies ==
    /\ working' = NoReset
    /\ UNCHANGED <<filed, tick, begun, answers, changes>>

LoadReset ==
    /\ working = NoReset /\ filed # NoReset
    /\ working' = filed
    /\ UNCHANGED <<filed, tick, begun, answers, changes>>

Later ==
    /\ tick < LastTick
    /\ tick' = tick + 1
    /\ UNCHANGED <<working, filed, begun, answers, changes>>

ResetNext ==
    \/ BeginReset
    \/ \E id \in Attempts, right \in BOOLEAN : SubmitOtp(id, right)
    \/ AuthorizeUpdate
    \/ ExecuteUpdate
    \/ CancelReset
    \/ SaveReset
    \/ ProcessDies
    \/ LoadReset
    \/ Later

ResetSpec == ResetInit /\ [][ResetNext]_resetVars

(* ------------------------------ properties ----------------------------- *)

Over(s) == s.status \in {"COMPLETED", "EXPIRED_OTP", "MAX_ATTEMPTS", "CANCELLED"}

\* The password is changed only by a reset whose code was answered rightly, in
\* time, and within the attempts its file line allows, and never by one its
\* file calls over.
ChangesAreVerified ==
    \A c \in changes :
      /\ Cardinality(c.of.attempts) <= MaxAttempts
      /\ \E a \in answers :
           a.of = c.of.number /\ a.id \in c.of.attempts /\ a.at < c.of.expires
      /\ c.filed # NoReset /\ c.filed.number = c.of.number => ~Over(c.filed)

\* A restart neither erases an attempt the file knows of nor extends the expiry,
\* and a reset that is over stays so (SINGLE_AGENT_VS_WORKFLOW.md:9).
FileGoesForward ==
    filed # NoReset /\ filed'.number = filed.number =>
      /\ filed.attempts \subseteq filed'.attempts /\ filed.count <= filed'.count
      /\ filed'.expires = filed.expires
      /\ filed.done => filed'.status = "COMPLETED"
      /\ Over(filed) => Over(filed') /\ filed'.done = filed.done

\* No restart erases what the file has of a reset (submit_otp,
\* execute_password_update, save_password_state).
FilesGoForward == [][FileGoesForward]_resetVars
=============================================================================
