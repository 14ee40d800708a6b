------------------------- MODULE ControlPlane_proofs -------------------------
(***************************************************************************)
(* For every limit of attempts, every lifetime and any number of resets    *)
(* and restarts, a password is changed by a verified reset only, and its   *)
(* file goes forward; for any texts, grants and contexts, a request to the *)
(* control plane keeps to its mandate.                                     *)
(***************************************************************************)
EXTENDS HybridPlane, PasswordReset, FiniteSetTheorems, TLAPS

(* ---------------------------- password reset --------------------------- *)

Resets == [number : Nat, status : {"WAITING_FOR_OTP", "INVALID_OTP", "EXPIRED_OTP", "MAX_ATTEMPTS",
                                   "VERIFIED", "PASSWORD_UPDATE_AUTHORIZED", "COMPLETED", "CANCELLED"},
           attempts : SUBSET Attempts, count : Nat, expires : Nat,
           verified : BOOLEAN, authorized : BOOLEAN, done : BOOLEAN]

\* An answer in time, among those the reset has on record.
Answered(s) == \E a \in answers : a.of = s.number /\ a.id \in s.attempts /\ a.at < s.expires

\* Attempts are counted one by one until the reset is over, and stop at the limit.
Counted(s) ==
    /\ IsFiniteSet(s.attempts)
    /\ s.status \in {"WAITING_FOR_OTP", "INVALID_OTP"} =>
          Cardinality(s.attempts) = s.count /\ s.count < MaxAttempts
    /\ s.status \in {"VERIFIED", "PASSWORD_UPDATE_AUTHORIZED"} =>
          Cardinality(s.attempts) <= MaxAttempts

Sound(s) ==
    /\ s \in Resets /\ s.number <= begun
    /\ Counted(s)
    /\ s.verified => Answered(s)
    /\ s.done <=> s.status = "COMPLETED"

\* One state of a reset is a later one of the other.
Descends(s, t) ==
    /\ s.attempts \subseteq t.attempts /\ s.count <= t.count
    /\ t.expires = s.expires
    /\ s.done => t.status = "COMPLETED"
    /\ Over(s) => Over(t) /\ t.done = s.done

ResetInvariant ==
    /\ tick \in Nat /\ begun \in Nat
    /\ working # NoReset => Sound(working)
    /\ filed # NoReset => Sound(filed)
    /\ working # NoReset /\ filed # NoReset /\ working.number = filed.number =>
          Descends(filed, working)
    /\ ChangesAreVerified

(* -------------------------------- states ------------------------------- *)

\* What a state has gone through, a state that descends from it goes on with.
LEMMA DescendsOn ==
    ASSUME NEW s \in Resets, NEW t \in Resets, NEW u \in Resets, Descends(s, t), Descends(t, u),
           t.done <=> t.status = "COMPLETED"
    PROVE  Descends(s, u)
<1>1. s.attempts \subseteq u.attempts /\ s.count <= u.count /\ u.expires = s.expires
  BY DEF Descends, Resets
<1>2. s.done => u.status = "COMPLETED" BY Zenon DEF Descends
<1>3. Over(s) => Over(u) /\ u.done = s.done BY Zenon DEF Descends
<1> QED BY <1>1, <1>2, <1>3, Zenon DEF Descends

\* A state descends from itself.
LEMMA DescendsFromItself ==
    ASSUME NEW s \in Resets, s.done <=> s.status = "COMPLETED"
    PROVE  Descends(s, s)
<1>1. s.count <= s.count BY DEF Resets
<1> QED BY <1>1, Zenon DEF Descends

\* A state stays sound while nothing is answered, and when more is.
LEMMA SoundStays ==
    ASSUME NEW s, Sound(s), begun \in Nat, begun' \in Nat, begun <= begun',
           answers \subseteq answers'
    PROVE  Sound(s)'
<1>1. s.number <= begun' BY DEF Sound, Resets
<1>2. Answered(s) => Answered(s)' BY Zenon DEF Answered
<1> QED BY <1>1, <1>2, Zenon DEF Sound, Counted, Resets

\* An attempt that is counted leaves a reset a reset.
LEMMA TriedAgain ==
    ASSUME NEW s \in Resets
    PROVE  /\ [s EXCEPT !.count = @ + 1, !.verified = TRUE, !.status = "VERIFIED"] \in Resets
           /\ [s EXCEPT !.count = @ + 1,
                        !.status = IF s.count + 1 >= MaxAttempts THEN "MAX_ATTEMPTS"
                                   ELSE "INVALID_OTP"] \in Resets
<1>1. s.count + 1 \in Nat BY DEF Resets
<1>2. ASSUME NEW n \in Nat, NEW over \in {"MAX_ATTEMPTS", "INVALID_OTP"}
      PROVE  /\ [s EXCEPT !.count = n, !.verified = TRUE, !.status = "VERIFIED"] \in Resets
             /\ [s EXCEPT !.count = n, !.status = over] \in Resets
  BY <1>2 DEF Resets
<1> QED BY <1>1, <1>2

\* A step of the process on its state leads to a sound one that descends from
\* it, or to none.
LEMMA StepsOfTheProcess ==
    ASSUME ResetInvariant, working # NoReset,
           \/ \E id \in Attempts, right \in BOOLEAN : SubmitOtp(id, right)
           \/ AuthorizeUpdate \/ ExecuteUpdate \/ CancelReset
    PROVE  Sound(working)' /\ Descends(working, working') /\ working'.number = working.number
<1> USE ResetAssumption
<1>0. /\ Sound(working) /\ working \in Resets /\ tick \in Nat /\ begun \in Nat
      /\ UNCHANGED begun /\ answers \subseteq answers'
  BY DEF ResetInvariant, Sound, SubmitOtp, AuthorizeUpdate, ExecuteUpdate, CancelReset
<1>1. ASSUME NEW id \in Attempts, NEW right \in BOOLEAN, SubmitOtp(id, right)
      PROVE  Sound(working)' /\ Descends(working, working') /\ working'.number = working.number
  <2> DEFINE tried == [working EXCEPT !.attempts = @ \cup {id}]
  <2>1. /\ working.status \in {"WAITING_FOR_OTP", "INVALID_OTP"}
        /\ id \notin working.attempts
        /\ IF tick >= working.expires
           THEN working' = [tried EXCEPT !.status = "EXPIRED_OTP"] /\ answers' = answers
           ELSE /\ working' = AfterAttempt(tried, right)
                /\ answers' = IF right
                              THEN answers \cup {[of |-> working.number, id |-> id, at |-> tick]}
                              ELSE answers
    BY <1>1 DEF SubmitOtp
  <2>2. /\ tried \in Resets /\ tried.number = working.number /\ tried.count = working.count
        /\ tried.attempts = working.attempts \cup {id} /\ tried.expires = working.expires
        /\ tried.status = working.status /\ tried.verified = working.verified
        /\ tried.authorized = working.authorized /\ tried.done = working.done
    BY <1>0 DEF Resets
  <2>3. /\ IsFiniteSet(tried.attempts)
        /\ Cardinality(tried.attempts) = working.count + 1
        /\ working.count + 1 <= MaxAttempts /\ working.count \in Nat
    BY <1>0, <2>1, <2>2, FS_AddElement, FS_CardinalityType DEF Sound, Counted, Resets
  <2> HIDE DEF tried
  <2>4. working.done = FALSE
    BY <1>0, <2>1 DEF Sound, Resets
  <2>5. /\ working' \in Resets /\ working'.number = working.number
        /\ working'.attempts = tried.attempts /\ working'.expires = working.expires
        /\ working'.done = FALSE /\ working'.count \in {working.count, working.count + 1}
        /\ working.count <= working'.count
    <3>1. CASE tick >= working.expires
      BY <3>1, <2>1, <2>2, <2>3, <2>4 DEF Resets
    <3>2. CASE ~(tick >= working.expires) /\ right
      <4>1. working' = [tried EXCEPT !.count = @ + 1, !.verified = TRUE, !.status = "VERIFIED"]
        BY <3>2, <2>1, Zenon DEF AfterAttempt
      <4>2. working' \in Resets BY <4>1, TriedAgain, <2>2, Zenon
      <4>3. /\ working'.number = tried.number /\ working'.attempts = tried.attempts
            /\ working'.expires = tried.expires /\ working'.done = tried.done
            /\ working'.count = tried.count + 1
        BY <4>1, <2>2 DEF Resets
      <4> QED BY <4>2, <4>3, <2>2, <2>3, <2>4
    <3>3. CASE ~(tick >= working.expires) /\ ~right
      <4>1. working' = [tried EXCEPT !.count = @ + 1,
                            !.status = IF tried.count + 1 >= MaxAttempts THEN "MAX_ATTEMPTS"
                                       ELSE "INVALID_OTP"]
        BY <3>3, <2>1, Zenon DEF AfterAttempt
      <4>2. working' \in Resets BY <4>1, TriedAgain, <2>2, Zenon
      <4>3. /\ working'.number = tried.number /\ working'.attempts = tried.attempts
            /\ working'.expires = tried.expires /\ working'.done = tried.done
            /\ working'.count = tried.count + 1
        BY <4>1, <2>2 DEF Resets
      <4> QED BY <4>2, <4>3, <2>2, <2>3, <2>4
    <3> QED BY <3>1, <3>2, <3>3, Zenon
  <2>6. CASE tick >= working.expires
    <3>1. working'.status = "EXPIRED_OTP" /\ working'.verified = working.verified
      BY <2>1, <2>2, <2>6 DEF Resets
    <3>2. Counted(working)' BY <3>1, <2>3, <2>5 DEF Counted
    <3>3. working.verified => Answered(working)'
      BY <1>0, <2>2, <2>5, Zenon DEF Sound, Answered
    <3>4. working'.number <= begun' BY <1>0, <2>5 DEF Sound
    <3> QED BY <3>1, <3>2, <3>3, <3>4, <2>5, <2>2, <2>4, <2>1, <1>0, Zenon DEF Sound, Descends, Over, Resets
  <2>7. CASE ~(tick >= working.expires) /\ right
    <3>0. working' = [tried EXCEPT !.count = @ + 1, !.verified = TRUE, !.status = "VERIFIED"]
      BY <2>7, <2>1, Zenon DEF AfterAttempt
    <3>1. working'.status = "VERIFIED"
      BY <3>0, <2>2 DEF Resets
    <3>2. Counted(working)' BY <3>1, <2>3, <2>5 DEF Counted
    <3>3. [of |-> working.number, id |-> id, at |-> tick] \in answers'
      BY <2>1, <2>7
    <3>4. tick < working.expires BY <1>0, <2>7 DEF Resets
    <3>5. Answered(working)' BY <3>3, <3>4, <2>2, <2>5 DEF Answered
    <3>6. working'.number <= begun' BY <1>0, <2>5 DEF Sound
    <3>7. Sound(working)' BY <3>1, <3>2, <3>5, <3>6, <2>5 DEF Sound
    <3>8. ~Over(working) BY <2>1 DEF Over
    <3>9. Descends(working, working') BY <3>8, <2>5, <2>2, <2>4 DEF Descends
    <3> QED BY <3>7, <3>9, <2>5
  <2>8. CASE ~(tick >= working.expires) /\ ~right
    <3>1. /\ working'.status = IF working.count + 1 >= MaxAttempts THEN "MAX_ATTEMPTS" ELSE "INVALID_OTP"
          /\ working'.count = working.count + 1 /\ working'.verified = working.verified
      <4>1. working' = [tried EXCEPT !.count = @ + 1,
                            !.status = IF tried.count + 1 >= MaxAttempts THEN "MAX_ATTEMPTS"
                                       ELSE "INVALID_OTP"]
        BY <2>8, <2>1, Zenon DEF AfterAttempt
      <4> QED BY <4>1, <2>2, <2>3 DEF Resets
    <3>2. Counted(working)'
      BY <3>1, <2>3, <2>5 DEF Counted
    <3>3. working.verified => Answered(working)'
      BY <1>0, <2>2, <2>5, Zenon DEF Sound, Answered
    <3>4. working'.number <= begun' BY <1>0, <2>5 DEF Sound
    <3>5. working'.status \notin {"COMPLETED"} BY <3>1
    <3> QED BY <3>1, <3>2, <3>3, <3>4, <3>5, <2>5, <2>2, <2>4, <2>1, <1>0 DEF Sound, Descends, Over, Resets
  <2> QED BY <2>6, <2>7, <2>8
<1>2. CASE AuthorizeUpdate
  <2>1. /\ working.status = "VERIFIED" /\ working.verified
        /\ working' = [working EXCEPT !.authorized = TRUE, !.status = "PASSWORD_UPDATE_AUTHORIZED"]
        /\ UNCHANGED answers
    BY <1>2 DEF AuthorizeUpdate
  <2>2. /\ working' \in Resets /\ working'.status = "PASSWORD_UPDATE_AUTHORIZED"
        /\ working'.attempts = working.attempts /\ working'.number = working.number
        /\ working'.count = working.count /\ working'.expires = working.expires
        /\ working'.done = working.done /\ working'.verified = working.verified
    BY <2>1, <1>0 DEF Resets
  <2>3. Counted(working)' BY <2>1, <2>2, <1>0 DEF Sound, Counted
  <2>4. Answered(working)' BY <2>1, <2>2, <1>0, Zenon DEF Sound, Answered
  <2>5. working'.number <= begun' BY <1>0, <2>2 DEF Sound
  <2>6. working.count <= working'.count BY <2>2, <1>0 DEF Resets
  <2> QED BY <2>1, <2>2, <2>3, <2>4, <2>5, <2>6, <1>0 DEF Sound, Descends, Over, Resets
<1>3. CASE ExecuteUpdate
  <2>1. /\ working' \in {[working EXCEPT !.status = "COMPLETED"],
                         [working EXCEPT !.done = TRUE, !.status = "COMPLETED"]}
        /\ working.done \/ working' = [working EXCEPT !.done = TRUE, !.status = "COMPLETED"]
        /\ working.done \/ working.status = "PASSWORD_UPDATE_AUTHORIZED"
        /\ UNCHANGED answers
    BY <1>3 DEF ExecuteUpdate, UpdateAllowed
  <2>2. /\ working' \in Resets /\ working'.status = "COMPLETED" /\ working'.done = TRUE
        /\ working'.attempts = working.attempts /\ working'.number = working.number
        /\ working'.count = working.count /\ working'.expires = working.expires
        /\ working'.verified = working.verified
    BY <2>1, <1>0 DEF Resets
  <2>3. Counted(working)' BY <2>2, <1>0 DEF Sound, Counted
  <2>4. working'.verified => Answered(working)' BY <2>1, <2>2, <1>0, Zenon DEF Sound, Answered
  <2>5. working'.number <= begun' BY <1>0, <2>2 DEF Sound
  <2>6. working.count <= working'.count BY <2>2, <1>0 DEF Resets
  <2>7. Over(working) => working.done = TRUE
    BY <2>1, <1>0 DEF Over, Resets
  <2> QED BY <2>2, <2>3, <2>4, <2>5, <2>6, <2>7 DEF Sound, Descends, Over, Resets
<1>4. CASE CancelReset
  <2>1. /\ working' = [working EXCEPT !.status = IF @ = "COMPLETED" THEN @ ELSE "CANCELLED"]
        /\ UNCHANGED answers
    BY <1>4 DEF CancelReset
  <2>2. /\ working' \in Resets
        /\ working'.status = IF working.status = "COMPLETED" THEN "COMPLETED" ELSE "CANCELLED"
        /\ working'.attempts = working.attempts /\ working'.number = working.number
        /\ working'.count = working.count /\ working'.expires = working.expires
        /\ working'.verified = working.verified /\ working'.done = working.done
    BY <2>1, <1>0 DEF Resets
  <2>3. Counted(working)' BY <2>2, <1>0 DEF Sound, Counted
  <2>4. working'.verified => Answered(working)' BY <2>1, <2>2, <1>0, Zenon DEF Sound, Answered
  <2>5. working'.number <= begun' BY <1>0, <2>2 DEF Sound
  <2>6. working.count <= working'.count BY <2>2, <1>0 DEF Resets
  <2> QED BY <2>2, <2>3, <2>4, <2>5, <2>6, <1>0 DEF Sound, Descends, Over, Resets
<1> QED BY <1>1, <1>2, <1>3, <1>4

(* ------------------------------ invariance ----------------------------- *)

\* Right answers are never taken back.
LEMMA AnswersStay ==
    ASSUME [ResetNext]_resetVars
    PROVE  answers \subseteq answers'
BY DEF ResetNext, BeginReset, SubmitOtp, AuthorizeUpdate, ExecuteUpdate, CancelReset, SaveReset,
       ProcessDies, LoadReset, Later, resetVars

\* Whatever is done, changes are of resets that were answered.
LEMMA ChangesStayVerified ==
    ASSUME ResetInvariant, [ResetNext]_resetVars
    PROVE  ChangesAreVerified'
<1> DEFINE Good(c, as) ==
              /\ Cardinality(c.of.attempts) <= MaxAttempts
              /\ \E a \in as : a.of = c.of.number /\ a.id \in c.of.attempts /\ a.at < c.of.expires
              /\ c.filed # NoReset /\ c.filed.number = c.of.number => ~Over(c.filed)
<1>1. \A c \in changes : Good(c, answers')
  BY AnswersStay, Zenon DEF ResetInvariant, ChangesAreVerified
<1>2. CASE changes' = changes
  BY <1>1, <1>2, Zenon DEF ChangesAreVerified
<1>3. ASSUME changes' = changes \cup {[of |-> working, filed |-> filed]},
             UpdateAllowed(working), working # NoReset
      PROVE  ChangesAreVerified'
  <2> DEFINE c == [of |-> working, filed |-> filed]
  <2>1. /\ Sound(working) /\ working.status = "PASSWORD_UPDATE_AUTHORIZED" /\ working.verified
    BY <1>3 DEF UpdateAllowed, ResetInvariant
  <2>2. Cardinality(working.attempts) <= MaxAttempts
    BY <2>1 DEF Sound, Counted
  <2>3. \E a \in answers' : a.of = working.number /\ a.id \in working.attempts /\ a.at < working.expires
    BY <2>1, AnswersStay, Zenon DEF Sound, Answered
  <2>4. filed # NoReset /\ filed.number = working.number => ~Over(filed)
    BY <1>3, <2>1 DEF ResetInvariant, Descends, Over
  <2>5. c.of = working /\ c.filed = filed OBVIOUS
  <2> HIDE DEF c
  <2>6. Good(c, answers') BY <2>2, <2>3, <2>4, <2>5, Zenon
  <2>7. \A d \in changes' : d \in changes \/ d = c BY <1>3 DEF c
  <2> HIDE DEF Good
  <2>8. \A d \in changes' : Good(d, answers') BY <1>1, <2>6, <2>7
  <2> QED BY <2>8, Zenon DEF Good, ChangesAreVerified
<1> QED
  BY <1>2, <1>3
     DEF ResetNext, BeginReset, SubmitOtp, AuthorizeUpdate, ExecuteUpdate, CancelReset,
         SaveReset, ProcessDies, LoadReset, Later, resetVars

\* The invariant is kept by every step.
LEMMA ResetInvariantStays ==
    ASSUME ResetInvariant, [ResetNext]_resetVars
    PROVE  ResetInvariant'
<1> USE ResetAssumption
<1>0. ChangesAreVerified' /\ answers \subseteq answers'
  BY ChangesStayVerified, AnswersStay
<1>1. tick' \in Nat /\ begun' \in Nat /\ begun <= begun'
  <2>1. tick' \in {tick, tick + 1} /\ begun' \in {begun, begun + 1}
    BY DEF ResetNext, BeginReset, SubmitOtp, AuthorizeUpdate, ExecuteUpdate, CancelReset,
           SaveReset, ProcessDies, LoadReset, Later, resetVars
  <2> QED BY <2>1 DEF ResetInvariant
<1>2. \A s : Sound(s) => Sound(s)'
  BY <1>0, <1>1, SoundStays DEF ResetInvariant
<1>3. CASE \/ \E id \in Attempts, right \in BOOLEAN : SubmitOtp(id, right)
           \/ AuthorizeUpdate \/ ExecuteUpdate \/ CancelReset
  <2>1. working # NoReset /\ filed' = filed
    BY <1>3 DEF SubmitOtp, AuthorizeUpdate, ExecuteUpdate, CancelReset
  <2>2. Sound(working)' /\ Descends(working, working') /\ working'.number = working.number
    BY <1>3, <2>1, StepsOfTheProcess
  <2>3. filed # NoReset => Sound(filed)'
    BY <1>2, <2>1, Zenon DEF ResetInvariant, Sound, Counted, Answered
  <2>4. ASSUME filed # NoReset, working.number = filed.number PROVE Descends(filed, working')
    <3>1. Descends(filed, working) /\ Sound(filed) /\ Sound(working)
      BY <2>1, <2>4 DEF ResetInvariant
    <3>2. working' \in Resets BY <2>2 DEF Sound
    <3> QED BY <3>1, <3>2, <2>2, DescendsOn DEF Sound
  <2> QED BY <1>0, <1>1, <2>1, <2>2, <2>3, <2>4, Zenon DEF ResetInvariant, Descends, Over
<1>4. CASE BeginReset
  <2>1. /\ working = NoReset /\ begun' = begun + 1 /\ UNCHANGED <<filed, answers>>
        /\ working' = [number |-> begun + 1, status |-> "WAITING_FOR_OTP", attempts |-> {},
                       count |-> 0, expires |-> tick + Lifetime, verified |-> FALSE,
                       authorized |-> FALSE, done |-> FALSE]
    BY <1>4 DEF BeginReset
  <2>2. working' \in Resets /\ working'.number <= begun'
    BY <2>1 DEF Resets, ResetInvariant
  <2>3. Counted(working)'
    BY <2>1, FS_EmptySet DEF Counted
  <2>4. Sound(working)'
    BY <2>1, <2>2, <2>3 DEF Sound
  <2>5. filed # NoReset => Sound(filed)'
    BY <1>2, <2>1, Zenon DEF ResetInvariant, Sound, Counted, Answered
  <2>6. filed # NoReset => filed.number # working'.number
    BY <2>1 DEF ResetInvariant, Sound, Resets
  <2> QED BY <1>0, <1>1, <2>1, <2>4, <2>5, <2>6, Zenon DEF ResetInvariant
<1>5. CASE SaveReset
  <2>1. working # NoReset /\ filed' = working /\ UNCHANGED working
    BY <1>5 DEF SaveReset
  <2>2. Sound(working)' /\ Sound(filed)'
    BY <1>2, <2>1, Zenon DEF ResetInvariant, Sound, Counted, Answered
  <2>3. Descends(filed', working')
    BY <2>1, DescendsFromItself DEF ResetInvariant, Sound
  <2> QED BY <1>0, <1>1, <2>2, <2>3, Zenon DEF ResetInvariant, Descends, Over
<1>6. CASE LoadReset
  <2>1. filed # NoReset /\ working' = filed /\ UNCHANGED filed
    BY <1>6 DEF LoadReset
  <2>2. Sound(working)' /\ Sound(filed)'
    BY <1>2, <2>1, Zenon DEF ResetInvariant, Sound, Counted, Answered
  <2>3. Descends(filed', working')
    BY <2>1, DescendsFromItself DEF ResetInvariant, Sound
  <2> QED BY <1>0, <1>1, <2>2, <2>3, Zenon DEF ResetInvariant, Descends, Over
<1>7. CASE ProcessDies
  <2>1. working' = NoReset /\ UNCHANGED filed
    BY <1>7 DEF ProcessDies
  <2>2. filed # NoReset => Sound(filed)'
    BY <1>2, <2>1, Zenon DEF ResetInvariant, Sound, Counted, Answered
  <2> QED BY <1>0, <1>1, <2>1, <2>2, Zenon DEF ResetInvariant
<1>8. CASE Later \/ UNCHANGED resetVars
  <2>1. UNCHANGED <<working, filed>>
    BY <1>8 DEF Later, resetVars
  <2>2. (working # NoReset => Sound(working)') /\ (filed # NoReset => Sound(filed)')
    BY <1>2, <2>1, Zenon DEF ResetInvariant, Sound, Counted, Answered
  <2> QED BY <1>0, <1>1, <2>1, <2>2, Zenon DEF ResetInvariant, Descends, Over
<1> QED BY <1>3, <1>4, <1>5, <1>6, <1>7, <1>8 DEF ResetNext

\* The file is replaced by a state that descends from it, or by another reset.
LEMMA FilesDescend ==
    ASSUME ResetInvariant, [ResetNext]_resetVars
    PROVE  FileGoesForward
<1>1. CASE SaveReset
  <2>1. filed' = working /\ working # NoReset BY <1>1 DEF SaveReset
  <2> QED BY <2>1, Zenon DEF ResetInvariant, Descends, Over, FileGoesForward
<1>2. CASE ~SaveReset
  <2>1. filed' = filed
    BY <1>2 DEF ResetNext, BeginReset, SubmitOtp, AuthorizeUpdate, ExecuteUpdate, CancelReset,
                ProcessDies, LoadReset, Later, resetVars
  <2>2. filed # NoReset => Descends(filed, filed)
    BY DescendsFromItself DEF ResetInvariant, Sound
  <2> QED BY <2>1, <2>2, Zenon DEF Descends, Over, FileGoesForward
<1> QED BY <1>1, <1>2

\* The invariant holds of every behaviour.
LEMMA ResetInvariantHolds == ResetSpec => []ResetInvariant
<1>1. ResetInit => ResetInvariant
  BY DEF ResetInit, ResetInvariant, ChangesAreVerified
<1>2. ResetInvariant /\ [ResetNext]_resetVars => ResetInvariant'
  BY ResetInvariantStays
<1> QED BY <1>1, <1>2, PTL DEF ResetSpec

\* A password is changed only by a reset whose code was answered in time and
\* within its attempts, and that its file does not call over, however often its
\* process dies (submit_otp, execute_password_update, load_password_state).
THEOREM ChangesOfPasswordsAreVerified == ResetSpec => []ChangesAreVerified
<1>1. ResetInvariant => ChangesAreVerified
  BY DEF ResetInvariant
<1> QED BY <1>1, ResetInvariantHolds, PTL

\* The file of a reset never goes back: neither its attempts, nor its expiry,
\* nor its end (save_password_state, load_password_state).
THEOREM ResetFilesGoForward == ResetSpec => FilesGoForward
<1>1. ResetInvariant /\ [ResetNext]_resetVars => FileGoesForward
  BY FilesDescend
<1> QED BY <1>1, ResetInvariantHolds, PTL DEF ResetSpec, FilesGoForward

(* ----------------------------- the mandate ----------------------------- *)

\* What the request was decided as: what its text says, or that nobody knows.
Taken == {Authoritative(text).intent, "UNKNOWN"}

\* The team a transition has led to.
ByTransition(architecture, capabilities) ==
    /\ architecture = "SELECTOR_TEAM"
    /\ capabilities = RequiredCapabilities["MULTI_DOMAIN_INCIDENT"]
    /\ transition.transitions = 1
    /\ Authoritative(text).intent = "INCIDENT_DIAGNOSIS"

\* An architecture and its capabilities are those of the text, of a person, or
\* of the transition.
Mandated(architecture, capabilities) ==
    \/ \E intent \in Taken :
         \/ architecture = RouteOf[intent] /\ capabilities = RequiredCapabilities[intent]
         \/ architecture = "HUMAN_ESCALATION" /\ capabilities = {}
    \/ ByTransition(architecture, capabilities)

PlaneFits ==
    /\ plane.pc # "received" => plane.class.intent \in Taken
    /\ plane.pc = "decided" => Mandated(plane.decision.architecture, plane.decision.capabilities)
    /\ plane.pc = "contracted" =>
         /\ Mandated(plane.contract.architecture, plane.contract.capabilities)
         /\ plane.contract.capabilities \subseteq plane.held

\* Only a single agent may ask for a team, and the team for nothing more.
OneTransition ==
    /\ transition.transitions \in {0, 1}
    /\ transition.transitions = 1 => transition.current = "SELECTOR_TEAM"

MandateInvariant == PlaneFits /\ OneTransition /\ WritesAreMandated /\ SuccessIsBacked

\* The seven readings, one by one.
LEMMA ReadingsAre ==
    /\ DOMAIN Readings = 1 .. 7
    /\ \A i \in 1 .. 7 : Readings[i].intent \in Intents
    /\ \A i \in 1 .. 6 : Readings[i].phrases # {}
    /\ Readings[7].phrases = {} /\ Readings[7].intent = "UNKNOWN"
<1>1. DOMAIN Readings = 1 .. 7 BY DEF Readings
<1>3. \A i \in 1 .. 7 : i = 1 \/ i = 2 \/ i = 3 \/ i = 4 \/ i = 5 \/ i = 6 \/ i = 7 OBVIOUS
<1>5. \A i \in 1 .. 7 : Readings[i].intent \in Intents
  <2>1. Readings[1].intent \in Intents
    <3>1. Readings[1].intent = "PRODUCTION_ROLLBACK" BY DEF Readings, Reading
    <3> QED BY <3>1 DEF Intents
  <2>2. Readings[2].intent \in Intents
    <3>1. Readings[2].intent = "PASSWORD_RESET" BY DEF Readings, Reading
    <3> QED BY <3>1 DEF Intents
  <2>3. Readings[3].intent \in Intents
    <3>1. Readings[3].intent = "REMEDIATION_REVIEW" BY DEF Readings, Reading
    <3> QED BY <3>1 DEF Intents
  <2>4. Readings[4].intent \in Intents
    <3>1. Readings[4].intent = "MULTI_DOMAIN_INCIDENT" BY DEF Readings, Reading
    <3> QED BY <3>1 DEF Intents
  <2>5. Readings[5].intent \in Intents
    <3>1. Readings[5].intent = "INCIDENT_DIAGNOSIS" BY DEF Readings, Reading
    <3> QED BY <3>1 DEF Intents
  <2>6. Readings[6].intent \in Intents
    <3>1. Readings[6].intent = "CHECKOUT_STATUS" BY DEF Readings, Reading
    <3> QED BY <3>1 DEF Intents
  <2>7. Readings[7].intent \in Intents
    <3>1. Readings[7].intent = "UNKNOWN" BY DEF Readings, Reading
    <3> QED BY <3>1 DEF Intents
  <2> QED BY <1>3, <2>1, <2>2, <2>3, <2>4, <2>5, <2>6, <2>7
<1>6. \A i \in 1 .. 6 : i = 1 \/ i = 2 \/ i = 3 \/ i = 4 \/ i = 5 \/ i = 6 OBVIOUS
<1>7. \A i \in 1 .. 6 : Readings[i].phrases # {}
  <2>1. Readings[1].phrases # {}
    <3>1. Readings[1].phrases = {"rollback", "deploy-1842"} BY DEF Readings, Reading
    <3> QED BY <3>1
  <2>2. Readings[2].phrases # {}
    <3>1. Readings[2].phrases = {"reset password"} BY DEF Readings, Reading
    <3> QED BY <3>1
  <2>3. Readings[3].phrases # {}
    <3>1. Readings[3].phrases = {"proposal for security-review"} BY DEF Readings, Reading
    <3> QED BY <3>1
  <2>4. Readings[4].phrases # {}
    <3>1. Readings[4].phrases = {"across domains"} BY DEF Readings, Reading
    <3> QED BY <3>1
  <2>5. Readings[5].phrases # {}
    <3>1. Readings[5].phrases = {"why did conversion fall"} BY DEF Readings, Reading
    <3> QED BY <3>1
  <2>6. Readings[6].phrases # {}
    <3>1. Readings[6].phrases = {"checkout healthy"} BY DEF Readings, Reading
    <3> QED BY <3>1
  <2> QED BY <1>6, <2>1, <2>2, <2>3, <2>4, <2>5, <2>6
<1>8. Readings[7].phrases = {} /\ Readings[7].intent = "UNKNOWN" BY DEF Readings, Reading
<1> QED BY <1>1, <1>5, <1>7, <1>8

\* A text has one reading.
LEMMA TextsAreRead ==
    ASSUME NEW t
    PROVE  Authoritative(t).intent \in Intents
<1> DEFINE fits == {i \in DOMAIN Readings : Readings[i].phrases \subseteq t}
           first == CHOOSE i \in fits : \A j \in fits : i <= j
<1>1. DOMAIN Readings = 1 .. 7 BY ReadingsAre
<1>2. Readings[7].phrases = {} BY ReadingsAre
<1>3. fits \subseteq 1 .. 7 /\ 7 \in fits BY <1>1, <1>2
<1>4. \E i \in fits : \A j \in fits : i <= j
  <2> HIDE DEF fits
  <2> SUFFICES ASSUME \A i \in fits : \E j \in fits : j < i PROVE FALSE BY <1>3
  <2>1. 1 \notin fits BY <1>3
  <2>2. 2 \notin fits BY <1>3, <2>1
  <2>3. 3 \notin fits BY <1>3, <2>1, <2>2
  <2>4. 4 \notin fits BY <1>3, <2>1, <2>2, <2>3
  <2>5. 5 \notin fits BY <1>3, <2>1, <2>2, <2>3, <2>4
  <2>6. 6 \notin fits BY <1>3, <2>1, <2>2, <2>3, <2>4, <2>5
  <2>7. 7 \notin fits BY <1>3, <2>1, <2>2, <2>3, <2>4, <2>5, <2>6
  <2> QED BY <2>7, <1>3
<1>5. first \in 1 .. 7
  <2> HIDE DEF fits
  <2> QED BY <1>3, <1>4
<1>6. \A i \in 1 .. 7 : Readings[i].intent \in Intents BY ReadingsAre
<1>7. Authoritative(t) = Readings[first] BY DEF Authoritative
<1> QED BY <1>5, <1>6, <1>7

LEMMA NothingIsUnknown == Authoritative(UnclassifiedText).intent = "UNKNOWN"
<1> DEFINE fits == {i \in DOMAIN Readings : Readings[i].phrases \subseteq UnclassifiedText}
<1>1. 7 \in fits BY ReadingsAre
<1>2. \A i \in fits : i \in 1 .. 7 /\ i \notin 1 .. 6
  <2>1. \A i \in fits : Readings[i].phrases = {} BY DEF UnclassifiedText
  <2> QED BY <2>1, ReadingsAre
<1>5. fits = {7}
  <2> HIDE DEF fits
  <2> QED BY <1>1, <1>2
<1>3. Readings[7].intent = "UNKNOWN" BY ReadingsAre
<1>4. (CHOOSE i \in fits : \A j \in fits : i <= j) = 7
  <2> HIDE DEF fits
  <2> QED BY <1>5
<1> QED BY <1>3, <1>4 DEF Authoritative

\* What a classifier proposes is taken only if the text says it.
LEMMA ProposalsAreTaken ==
    ASSUME NEW p, ValidProposal(p)
    PROVE  /\ ValidatedClass(p).intent = Authoritative(text).intent
           /\ ValidatedClass(p).intent \in Taken
BY DEF ValidProposal, ValidatedClass, OwnClass, Taken

\* A decision on an intent that was taken is mandated.
LEMMA DecisionsAreMandated ==
    ASSUME NEW intent \in Taken
    PROVE  Mandated(DecisionFor(intent).architecture, DecisionFor(intent).capabilities)
<1>1. DecisionFor(intent).architecture = ArchitectureFor(intent)
      /\ DecisionFor(intent).capabilities = Needed(intent)
  BY DEF DecisionFor
<1>2. CASE ArchitectureFor(intent) = "HUMAN_ESCALATION"
  BY <1>1, <1>2 DEF Mandated, Needed
<1>3. CASE ArchitectureFor(intent) # "HUMAN_ESCALATION"
  <2>1. ArchitectureFor(intent) = RouteOf[intent] /\ Needed(intent) = RequiredCapabilities[intent]
    BY <1>3 DEF ArchitectureFor, Needed
  <2> QED BY <1>1, <2>1 DEF Mandated
<1> QED BY <1>2, <1>3

\* A mandate to write is the text's.
LEMMA WritesAreAsked ==
    ASSUME NEW architecture, NEW capabilities, Mandated(architecture, capabilities)
    PROVE  /\ capabilities \cap WriteCapabilities
                \subseteq RequiredCapabilities[Authoritative(text).intent]
           /\ "production.rollback" \in capabilities =>
                Authoritative(text).intent = "PRODUCTION_ROLLBACK"
           /\ "identity.password.update" \in capabilities =>
                Authoritative(text).intent = "PASSWORD_RESET"
<1>1. RequiredCapabilities["UNKNOWN"] = {} BY DEF RequiredCapabilities
<1>2. RequiredCapabilities["MULTI_DOMAIN_INCIDENT"] \cap WriteCapabilities = {}
      /\ {"production.rollback", "identity.password.update"} = WriteCapabilities
  BY DEF RequiredCapabilities, WriteCapabilities
<1>3. \A i \in Intents : /\ "production.rollback" \in RequiredCapabilities[i] => i = "PRODUCTION_ROLLBACK"
                         /\ "identity.password.update" \in RequiredCapabilities[i] => i = "PASSWORD_RESET"
  BY DEF Intents, RequiredCapabilities
<1>4. Authoritative(text).intent \in Intents BY TextsAreRead
<1>5. \/ capabilities = RequiredCapabilities[Authoritative(text).intent]
      \/ capabilities = {}
      \/ capabilities = RequiredCapabilities["MULTI_DOMAIN_INCIDENT"]
  BY <1>1 DEF Mandated, ByTransition, Taken
<1> QED BY <1>2, <1>3, <1>4, <1>5

\* What is mandated stays so while the request keeps its text and its transition.
LEMMA MandateStays ==
    ASSUME NEW architecture, NEW capabilities, Mandated(architecture, capabilities),
           text' = text, transition.transitions = 1 => transition'.transitions = 1
    PROVE  Mandated(architecture, capabilities)'
<1>1. Taken' = Taken BY DEF Taken, Authoritative
<1>2. Authoritative(text)' = Authoritative(text) BY DEF Authoritative
<1> QED BY <1>1, <1>2 DEF Mandated, ByTransition

LEMMA MandateStarts == HybridInit => MandateInvariant
BY DEF HybridInit, NewRequest, MandateInvariant, PlaneFits, OneTransition, WritesAreMandated,
       SuccessIsBacked

\* What was written and what succeeded stays right while text, receipts and
\* transition go on as they do.
LEMMA HistoryStays ==
    ASSUME WritesAreMandated, SuccessIsBacked, UNCHANGED <<text, written, successes>>,
           receipts \subseteq receipts',
           transition.transitions = 1 => transition'.transitions = 1
    PROVE  WritesAreMandated' /\ SuccessIsBacked'
<1>1. Authoritative(text)' = Authoritative(text) BY DEF Authoritative
<1>2. WritesAreMandated'
  <2>1. \A r, c : ValidReceipt(r, c)' <=> ValidReceipt(r, c) BY DEF ValidReceipt
  <2> QED BY <1>1, <2>1 DEF WritesAreMandated
<1>3. SuccessIsBacked' BY <1>1 DEF SuccessIsBacked
<1> QED BY <1>2, <1>3

\* A step that only moves the request.
LEMMA MovingKeepsMandate ==
    ASSUME MandateInvariant, Unmoved, PlaneFits'
    PROVE  MandateInvariant'
<1>1. WritesAreMandated' /\ SuccessIsBacked' BY HistoryStays DEF MandateInvariant, Unmoved
<1> QED BY <1>1 DEF MandateInvariant, Unmoved, OneTransition

LEMMA SameText ==
    ASSUME text' = text
    PROVE  Taken' = Taken /\ Authoritative(text)' = Authoritative(text)
BY DEF Taken, Authoritative

LEMMA ClassifyKeepsMandate ==
    ASSUME MandateInvariant, NEW p, NEW risk, Classify(p, risk)
    PROVE  MandateInvariant'
<1>1. ValidatedClass(p).intent \in Taken BY ProposalsAreTaken DEF Classify
<1>2. plane'.pc = "classified" /\ plane'.class = ValidatedClass(p) BY DEF Classify
<1>3. Taken' = Taken BY SameText DEF Classify, Unmoved
<1>4. PlaneFits' BY <1>1, <1>2, <1>3 DEF PlaneFits
<1> QED BY <1>4, MovingKeepsMandate DEF Classify

LEMMA UnknownIsTaken == OwnClass(UnclassifiedText).intent \in Taken
BY NothingIsUnknown DEF OwnClass, Taken

LEMMA UnclassifiedKeepsMandate ==
    ASSUME MandateInvariant, ClassifierUnavailable
    PROVE  MandateInvariant'
<1>1. plane'.pc = "classified" /\ plane'.class = OwnClass(UnclassifiedText)
  BY DEF ClassifierUnavailable
<1>2. Taken' = Taken BY SameText DEF ClassifierUnavailable, Unmoved
<1>3. PlaneFits' BY <1>1, <1>2, UnknownIsTaken DEF PlaneFits
<1> QED BY <1>3, MovingKeepsMandate DEF ClassifierUnavailable

LEMMA DecisionKeepsMandate ==
    ASSUME MandateInvariant, NEW class, class.intent \in Taken, DecideOn(class)
    PROVE  MandateInvariant'
<1> DEFINE made == DecisionFor(class.intent)
<1>1. plane'.pc = "decided" /\ plane'.class = class /\ plane'.decision = made
  BY DEF DecideOn
<1>2. PICK a, c : /\ a = made.architecture /\ c = made.capabilities
                  /\ Mandated(a, c)
  BY DecisionsAreMandated
<1>3. Taken' = Taken BY SameText DEF DecideOn, Unmoved
<1>4. Mandated(a, c)' BY <1>2, MandateStays DEF DecideOn, Unmoved
<1> HIDE DEF made
<1>5. PlaneFits' BY <1>1, <1>2, <1>3, <1>4 DEF PlaneFits
<1> QED BY <1>5, MovingKeepsMandate DEF DecideOn

\* A contract takes over the decision, if the caller still has what it needs.
LEMMA ContractKeepsMandate ==
    ASSUME MandateInvariant, NEW intent, BuildContract(intent)
    PROVE  MandateInvariant'
<1>1. /\ plane.pc = "decided" /\ plane'.pc = "contracted" /\ plane'.class = plane.class
      /\ plane'.contract.architecture = plane.decision.architecture
      /\ plane'.contract.capabilities = plane.decision.capabilities
      /\ plane'.held = context.grants
  BY DEF BuildContract, Contract
<1>2. plane.decision.capabilities \subseteq context.grants BY DEF BuildContract, StillGranted
<1>3. /\ plane.class.intent \in Taken
      /\ Mandated(plane.decision.architecture, plane.decision.capabilities)
  BY <1>1 DEF MandateInvariant, PlaneFits
<1>4. text' = text /\ transition' = transition BY DEF BuildContract, Unmoved
<1>5. Taken' = Taken BY <1>4, SameText
<1>6. PICK a, c : /\ a = plane.decision.architecture /\ c = plane.decision.capabilities
                  /\ Mandated(a, c)
  BY <1>3
<1>7. Mandated(a, c)' BY <1>4, <1>6, MandateStays
<1>8. PlaneFits' BY <1>1, <1>2, <1>3, <1>5, <1>6, <1>7 DEF PlaneFits
<1> QED BY <1>8, MovingKeepsMandate DEF BuildContract

LEMMA AgainKeepsMandate ==
    ASSUME MandateInvariant, AskAgain
    PROVE  MandateInvariant'
<1>1. PlaneFits' BY DEF AskAgain, NewRequest, PlaneFits
<1> QED BY <1>1, MovingKeepsMandate DEF AskAgain

\* A runner writes only what its contract lets it, for the text it serves.
LEMMA WritersAreServed ==
    ASSUME NEW contract, NEW receipt, NEW cond \in Conditions(receipt),
           contract.architecture = "DETERMINISTIC_WORKFLOW",
           Candidate(contract, cond).status = "SUCCEEDED"
    PROVE  IF "rollback" \in text
           THEN /\ "production.rollback" \in contract.capabilities
                /\ receipt # NoReceipt /\ ValidReceipt(receipt, contract)
           ELSE "identity.password.update" \in contract.capabilities
<1>1. \A status : Idle(status).status = status BY DEF Idle, Outcome
<1>2. Candidate(contract, cond) = IF cond.cancelled THEN Idle("CANCELLED")
                                  ELSE WorkflowRunner(contract, cond)
  BY DEF Candidate, Teams
<1>3. Candidate(contract, cond) = WorkflowRunner(contract, cond) BY <1>1, <1>2
<1>4. WorkflowRunner(contract, cond) = IF "rollback" \in text THEN RollBack(contract, cond)
                                       ELSE ResetPassword(contract, cond)
  BY <1>1, <1>3 DEF WorkflowRunner
<1>5. cond.receipt = receipt BY DEF Conditions
<1>6. CASE "rollback" \in text
  <2>1. /\ MayServe(contract, "PRODUCTION_ROLLBACK")
        /\ cond.receipt # NoReceipt /\ ValidReceipt(cond.receipt, contract)
    BY <1>1, <1>3, <1>4, <1>6 DEF RollBack
  <2>2. "production.rollback" \in RequiredCapabilities["PRODUCTION_ROLLBACK"]
    BY DEF RequiredCapabilities
  <2> QED BY <1>5, <1>6, <2>1, <2>2 DEF MayServe
<1>7. CASE "rollback" \notin text
  <2>1. MayServe(contract, "PASSWORD_RESET")
    BY <1>1, <1>3, <1>4, <1>7 DEF ResetPassword
  <2>2. "identity.password.update" \in RequiredCapabilities["PASSWORD_RESET"]
    BY DEF RequiredCapabilities
  <2> QED BY <1>7, <2>1, <2>2 DEF MayServe
<1> QED BY <1>6, <1>7

LEMMA RunKeepsMandate ==
    ASSUME MandateInvariant, NEW receipt \in receipts \cup {NoReceipt}, RunContract(receipt)
    PROVE  MandateInvariant'
<1> DEFINE contract == plane.contract
<1>0. PICK cond \in Conditions(receipt) :
        \E result \in Claims(contract, Candidate(contract, cond)) :
          EndWith(contract, receipt, Candidate(contract, cond),
                  Accepted(contract, Candidate(contract, cond)), result)
  BY DEF RunContract
<1> DEFINE candidate == Candidate(contract, cond)
           granted == Accepted(contract, candidate)
<1>1. PICK result \in Claims(contract, candidate) :
        EndWith(contract, receipt, candidate, granted, result)
  BY <1>0
<1> DEFINE write == [kind |-> IF "rollback" \in text THEN "production.rollback"
                               ELSE "identity.password.update",
                     contract |-> contract, held |-> plane.held, receipt |-> receipt]
           success == [contract |-> contract, held |-> plane.held, accepted |-> granted,
                       result |-> result]
<1>2. /\ UNCHANGED <<text, transition, receipts>> /\ plane'.pc = "ended"
      /\ written' = IF /\ contract.architecture = "DETERMINISTIC_WORKFLOW"
                        /\ candidate.status = "SUCCEEDED"
                     THEN written \cup {write} ELSE written
      /\ successes' = IF result.status = "SUCCEEDED" /\ Passes(result, contract, granted)
                       THEN successes \cup {success} ELSE successes
  BY <1>1 DEF EndWith
<1>3. /\ Mandated(contract.architecture, contract.capabilities)
      /\ contract.capabilities \subseteq plane.held
  BY DEF RunContract, MandateInvariant, PlaneFits
<1>4. Taken' = Taken /\ Authoritative(text)' = Authoritative(text) BY <1>2, SameText
<1>5. WritesAreMandated'
  <2>1. CASE written' = written
    BY <1>2, <1>4, <2>1 DEF MandateInvariant, WritesAreMandated, ValidReceipt
  <2>2. CASE written' # written
    <3>1. /\ contract.architecture = "DETERMINISTIC_WORKFLOW"
          /\ candidate.status = "SUCCEEDED" /\ written' = written \cup {write}
      BY <1>2, <2>2
    <3>2. IF "rollback" \in text
          THEN /\ "production.rollback" \in contract.capabilities
               /\ receipt # NoReceipt /\ ValidReceipt(receipt, contract)
          ELSE "identity.password.update" \in contract.capabilities
      BY <3>1, WritersAreServed
    <3>3. /\ write.contract = contract /\ write.held = plane.held /\ write.receipt = receipt
          /\ write.kind = IF "rollback" \in text THEN "production.rollback"
                          ELSE "identity.password.update"
      OBVIOUS
    <3> HIDE DEF write, contract
    <3>4. /\ write.kind \in contract.capabilities
          /\ write.kind = "production.rollback" =>
               receipt \in receipts /\ ValidReceipt(receipt, contract)
      BY <3>2, <3>3
    <3>5. Authoritative(text).intent =
            IF write.kind = "production.rollback" THEN "PRODUCTION_ROLLBACK" ELSE "PASSWORD_RESET"
      BY <1>3, <3>3, <3>4, WritesAreAsked
    <3>6. write.kind \in write.held BY <1>3, <3>3, <3>4
    <3>7. \A r, c : ValidReceipt(r, c)' <=> ValidReceipt(r, c) BY DEF ValidReceipt
    <3>8. \A w \in written' : w \in written \/ w = write BY <3>1
    <3>9. text' = text /\ receipts' = receipts BY <1>2
    <3> QED BY <1>4, <3>3, <3>4, <3>5, <3>6, <3>7, <3>8, <3>9 DEF MandateInvariant, WritesAreMandated
  <2> QED BY <2>1, <2>2
<1>6. SuccessIsBacked'
  <2>1. CASE successes' = successes
    BY <1>2, <1>4, <2>1 DEF MandateInvariant, SuccessIsBacked
  <2>2. CASE successes' # successes
    <3>1. /\ result.status = "SUCCEEDED" /\ Passes(result, contract, granted)
          /\ successes' = successes \cup {success}
      BY <1>2, <2>2
    <3>2. /\ success.contract = contract /\ success.held = plane.held
          /\ success.accepted = granted /\ success.result = result
      OBVIOUS
    <3> HIDE DEF success, contract, granted
    <3>3. /\ contract.evidence \subseteq result.evidence /\ result.evidence \subseteq granted
          /\ result.models <= ArchitectureBudgets[contract.architecture].models
      BY <3>1 DEF Passes
    <3>4. \/ contract.architecture \in {RouteOf[Authoritative(text).intent], "HUMAN_ESCALATION"}
          \/ /\ contract.architecture = "SELECTOR_TEAM" /\ transition.transitions = 1
             /\ Authoritative(text).intent = "INCIDENT_DIAGNOSIS"
      <4>1. RouteOf["UNKNOWN"] = "HUMAN_ESCALATION" BY DEF RouteOf
      <4> QED BY <1>3, <4>1 DEF Mandated, ByTransition, Taken
    <3>5. \A s \in successes' : s \in successes \/ s = success BY <3>1
    <3>6. transition' = transition BY <1>2
    <3> QED BY <1>3, <1>4, <3>2, <3>3, <3>4, <3>5, <3>6 DEF MandateInvariant, SuccessIsBacked
  <2> QED BY <2>1, <2>2
<1>7. PlaneFits'
  <2>1. plane'.class = plane.class BY <1>1 DEF EndWith
  <2>2. plane.class.intent \in Taken BY DEF RunContract, MandateInvariant, PlaneFits
  <2> QED BY <1>2, <1>4, <2>1, <2>2 DEF PlaneFits
<1>8. OneTransition' BY <1>2 DEF MandateInvariant, OneTransition
<1> QED BY <1>5, <1>6, <1>7, <1>8 DEF MandateInvariant

\* Only the first change of architecture is ever admitted, and only of a
\* request that says it is an incident.
LEMMA AdmitKeepsMandate ==
    ASSUME MandateInvariant, NEW gap, NEW target, Admit(gap, target)
    PROVE  MandateInvariant'
<1>1. /\ transition.current = "BOUNDED_SINGLE_AGENT" /\ target = "SELECTOR_TEAM"
      /\ ValidProposal(transition.original)
      /\ ValidatedClass(transition.original).intent = "INCIDENT_DIAGNOSIS"
      /\ ArchitectureFor("MULTI_DOMAIN_INCIDENT") = target
  BY DEF Admit, AdmissibleChange
<1>2. Authoritative(text).intent = "INCIDENT_DIAGNOSIS" BY <1>1, ProposalsAreTaken
<1>3. transition.transitions = 0 BY <1>1 DEF MandateInvariant, OneTransition
<1>4. transition'.transitions = 1 /\ transition'.current = "SELECTOR_TEAM"
  <2>1. transition' = [transition EXCEPT !.current = target, !.transitions = @ + 1, !.depth = @ + 1]
    BY DEF Admit
  <2> QED BY <1>1, <1>3, <2>1
<1>5. UNCHANGED <<text, receipts, written, successes>> BY DEF Admit
<1>6. /\ plane'.pc = "decided" /\ plane'.class = plane.class
      /\ plane'.decision = DecisionFor("MULTI_DOMAIN_INCIDENT")
  BY DEF Admit
<1>7. OneTransition' BY <1>4 DEF OneTransition
<1>8. WritesAreMandated' /\ SuccessIsBacked' BY <1>4, <1>5, HistoryStays DEF MandateInvariant
<1>9. PICK a, c : /\ a = DecisionFor("MULTI_DOMAIN_INCIDENT").architecture
                  /\ c = DecisionFor("MULTI_DOMAIN_INCIDENT").capabilities
                  /\ a = "SELECTOR_TEAM" /\ c = RequiredCapabilities["MULTI_DOMAIN_INCIDENT"]
  BY <1>1 DEF DecisionFor, Needed
<1>10. Mandated(a, c)'
  <2>1. Authoritative(text)' = Authoritative(text) BY <1>5, SameText
  <2> QED BY <1>2, <1>4, <1>9, <2>1 DEF Mandated, ByTransition
<1>11. plane'.class.intent \in Taken'
  BY <1>5, <1>6, SameText DEF Admit, MandateInvariant, PlaneFits
<1>12. PlaneFits' BY <1>6, <1>9, <1>10, <1>11 DEF PlaneFits
<1> QED BY <1>7, <1>8, <1>12 DEF MandateInvariant

\* What does not touch the request or what was done leaves the mandate alone.
LEMMA SurroundingsKeepMandate ==
    ASSUME MandateInvariant, UNCHANGED <<text, plane, written, successes>>,
           receipts \subseteq receipts', OneTransition',
           transition.transitions = 1 => transition'.transitions = 1
    PROVE  MandateInvariant'
<1>1. WritesAreMandated' /\ SuccessIsBacked' BY HistoryStays DEF MandateInvariant
<1>2. Taken' = Taken BY SameText
<1>3. \A a, c : Mandated(a, c) => Mandated(a, c)'
  BY <1>2, SameText DEF Mandated, ByTransition
<1>4. PlaneFits'
  <2>1. PICK q : q = plane /\ plane' = q OBVIOUS
  <2>2. q.pc = "decided" => Mandated(q.decision.architecture, q.decision.capabilities)'
    BY <1>3, <2>1 DEF MandateInvariant, PlaneFits
  <2>3. q.pc = "contracted" => Mandated(q.contract.architecture, q.contract.capabilities)'
    BY <1>3, <2>1 DEF MandateInvariant, PlaneFits
  <2> QED BY <1>2, <2>1, <2>2, <2>3 DEF MandateInvariant, PlaneFits
<1> QED BY <1>1, <1>4 DEF MandateInvariant

LEMMA MandateStep == MandateInvariant /\ [HybridNext]_hybridVars => MandateInvariant'
<1> SUFFICES ASSUME MandateInvariant, [HybridNext]_hybridVars PROVE MandateInvariant' OBVIOUS
<1>1. ASSUME NEW p \in ProposedClasses, NEW risk \in {"LOW", "MEDIUM"}, Classify(p, risk)
      PROVE  MandateInvariant'
  BY <1>1, ClassifyKeepsMandate
<1>2. CASE ClassifierUnavailable BY <1>2, UnclassifiedKeepsMandate
<1>3. CASE DecideArchitecture
  <2>1. DecideOn(plane.class) BY <1>3 DEF DecideArchitecture
  <2>2. plane.class.intent \in Taken BY <2>1 DEF DecideOn, MandateInvariant, PlaneFits
  <2>3. PICK class : class = plane.class OBVIOUS
  <2> QED BY <2>1, <2>2, <2>3, DecisionKeepsMandate
<1>4. CASE RouterUnavailable
  <2>1. PICK class : class = OwnClass(UnclassifiedText) OBVIOUS
  <2>2. DecideOn(class) BY <1>4, <2>1 DEF RouterUnavailable
  <2> QED BY <2>1, <2>2, UnknownIsTaken, DecisionKeepsMandate
<1>5. ASSUME NEW intent \in Intents, BuildContract(intent) PROVE MandateInvariant'
  BY <1>5, ContractKeepsMandate
<1>6. ASSUME NEW request, NEW approver, NEW live, IssueReceipt(request, approver, live)
      PROVE  MandateInvariant'
  BY <1>6, SurroundingsKeepMandate DEF IssueReceipt, MandateInvariant, OneTransition
<1>7. ASSUME NEW receipt \in receipts \cup {NoReceipt}, RunContract(receipt)
      PROVE  MandateInvariant'
  BY <1>7, RunKeepsMandate
<1>8. CASE AskAgain BY <1>8, AgainKeepsMandate
<1>9. ASSUME NEW extra, OpenTransition(extra) PROVE MandateInvariant'
  <2>1. /\ UNCHANGED <<text, plane, receipts, written, successes>>
        /\ transition'.transitions = 0 /\ transition.current = "none"
    BY <1>9 DEF OpenTransition
  <2>2. transition.transitions = 0 BY <2>1 DEF MandateInvariant, OneTransition
  <2>3. OneTransition' BY <2>1 DEF OneTransition
  <2> QED BY <2>1, <2>2, <2>3, SurroundingsKeepMandate
<1>10. ASSUME NEW gap, NEW target, Admit(gap, target) PROVE MandateInvariant'
  BY <1>10, AdmitKeepsMandate
<1>11. CASE CancelTransition
  <2>1. /\ UNCHANGED <<text, plane, receipts, written, successes>>
        /\ transition' = [transition EXCEPT !.cancelled = TRUE]
    BY <1>11 DEF CancelTransition
  <2>2. transition'.transitions = transition.transitions /\ transition'.current = transition.current
    BY <2>1
  <2>3. OneTransition' BY <2>2 DEF MandateInvariant, OneTransition
  <2> QED BY <2>1, <2>2, <2>3, SurroundingsKeepMandate
<1>12. ASSUME NEW new, NewContext(new) PROVE MandateInvariant'
  BY <1>12, SurroundingsKeepMandate DEF NewContext, MandateInvariant, OneTransition
<1>13. CASE Deploy
  BY <1>13, SurroundingsKeepMandate DEF Deploy, MandateInvariant, OneTransition
<1>14. CASE UNCHANGED hybridVars
  BY <1>14, SurroundingsKeepMandate DEF hybridVars, MandateInvariant, OneTransition
<1> QED
  BY <1>1, <1>2, <1>3, <1>4, <1>5, <1>6, <1>7, <1>8, <1>9, <1>10, <1>11, <1>12, <1>13, <1>14
     DEF HybridNext

LEMMA MandateInside == MandateInvariant => PlaneKeepsItsMandate
<1> SUFFICES ASSUME MandateInvariant PROVE TransitionsStayInside
  BY DEF MandateInvariant, PlaneKeepsItsMandate
<1>1. transition.transitions <= 1 BY DEF MandateInvariant, OneTransition
<1>2. ASSUME plane.pc = "contracted"
      PROVE  plane.contract.capabilities \cap WriteCapabilities
               \subseteq RequiredCapabilities[Authoritative(text).intent]
  BY <1>2, WritesAreAsked DEF MandateInvariant, PlaneFits
<1> QED BY <1>1, <1>2 DEF TransitionsStayInside

\* Whatever context or policy comes between the steps of a request, it writes
\* what its text and the caller's authority mandate, and succeeds by what its
\* contract asks for (lab.py WorkflowRunner.run, policy.py
\* validate_execution_result, admit_architecture_transition).
THEOREM MandatesAreKept == HybridSpec => []PlaneKeepsItsMandate
<1>1. HybridSpec => []MandateInvariant
  BY MandateStarts, MandateStep, PTL DEF HybridSpec
<1> QED BY <1>1, MandateInside, PTL
=============================================================================
