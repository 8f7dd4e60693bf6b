-------------------------- MODULE ScreenLockProofs --------------------------
(***************************************************************************)
(* Proofs about ScreenLock, for any password, field length and timeout and *)
(* for any number of failed allocations.                                   *)
(***************************************************************************)
EXTENDS ScreenLock, SequenceTheorems, TLAPS

(* Why the timer is not armed: it fired and locked the screen, an          *)
(* allocation failed, or the compositor is gone.                           *)
TimerStates ==
    /\ timer = Off => locked \/ failures > 0
    /\ timer = NoTimer => failures > 0 \/ ~running

(* The inductive invariant.  The password field equals the typed text only *)
(* because both are empty whenever the screen is unlocked.                 *)
LockInv ==
    /\ TypeOK
    /\ LockedIffShown
    /\ NoLeftovers
    /\ FieldIsTyped
    /\ TimerStates
    /\ ~locked => typed = <<>>

-----------------------------------------------------------------------------
(* Lists of characters: the field and the text. *)
LEMMA TextOperations ==
    ASSUME NEW s \in Seq(Char)
    PROVE  /\ Len(s) \in Nat
           /\ s = <<>> <=> Len(s) = 0
           /\ <<>> \in Seq(Char) /\ Len(<<>>) = 0
           /\ \A c \in Char : Append(s, c) \in Seq(Char) /\ Len(Append(s, c)) = Len(s) + 1
           /\ s # <<>> => Front(s) \in Seq(Char) /\ Len(Front(s)) = Len(s) - 1
<1>1. /\ Len(s) \in Nat
      /\ s = <<>> <=> Len(s) = 0
      /\ <<>> \in Seq(Char) /\ Len(<<>>) = 0
      /\ \A c \in Char : Append(s, c) \in Seq(Char) /\ Len(Append(s, c)) = Len(s) + 1
  OBVIOUS
<1>2. ASSUME s # <<>>
      PROVE  Front(s) \in Seq(Char) /\ Len(Front(s)) = Len(s) - 1
  <2> DEFINE n == Len(s) - 1
  <2>1. n \in Int /\ 1 \in Int /\ n >= 0 /\ \A i \in 1 .. n : s[i] \in Char
    BY <1>1, <1>2
  <2> HIDE DEF n
  <2>2. /\ SubSeq(s, 1, n) \in Seq(Char)
        /\ Len(SubSeq(s, 1, n)) = IF 1 <= n THEN n - 1 + 1 ELSE 0
    BY <2>1, SubSeqProperties
  <2>3. Len(SubSeq(s, 1, n)) = n
    BY <2>1, <2>2
  <2>4. QED
    BY <2>2, <2>3 DEF Front, n
<1>3. QED
  BY <1>1, <1>2

(* The field and the text after a step that edits them. *)
TextOK(pass, text) ==
    /\ pass \in Seq(Char) /\ Len(pass) <= PassMax
    /\ text \in Seq(Char) /\ Len(text) <= PassMax + 1
    /\ ~(Len(text) > PassMax) => pass = text

(* A step that edits the field of a locked session keeps the invariant. *)
LEMMA EditStep ==
    ASSUME LockInv, locked, NEW pass, NEW text, NEW error \in BOOLEAN,
           TextOK(pass, text), error => pass = <<>>,
           SetText(pass, text, error), running' = running, failures' = failures,
           idleFor' \in 0 .. IdleTicks
    PROVE  LockInv'
BY DEF LockInv, TypeOK, LockedIffShown, NoLeftovers, FieldIsTyped, TimerStates,
       Overlong, TextOK, SetText

(* Steps that end with the screen unlocked and the field empty. *)
LEMMA UnlockedStep ==
    ASSUME locked' = FALSE, lock_buffer' = FALSE, show_error' = FALSE,
           password' = <<>>, typed' = <<>>, running' \in BOOLEAN,
           timer' \in (0 .. IdleTicks) \cup {Off, NoTimer},
           failures' \in 0 .. MaxFailures, idleFor' \in 0 .. IdleTicks,
           timer' = Off => failures' > 0,
           timer' = NoTimer => failures' > 0 \/ ~running'
    PROVE  LockInv'
<1>1. /\ password' \in Seq(Char) /\ Len(password') <= PassMax
      /\ typed' \in Seq(Char) /\ Len(typed') <= PassMax + 1
  BY PassMaxAssumption
<1>2. TypeOK'
  BY <1>1 DEF TypeOK
<1>3. LockedIffShown' /\ NoLeftovers' /\ FieldIsTyped'
  BY DEF LockedIffShown, NoLeftovers, FieldIsTyped
<1>4. TimerStates'
  BY DEF TimerStates
<1>5. QED
  BY <1>2, <1>3, <1>4 DEF LockInv

(* Locking, refusing to lock and staying locked. *)
LEMMA ActivateStep ==
    ASSUME LockInv, zen_lock_activate, running' = running,
           idleFor' \in 0 .. IdleTicks,
           timer' \in (0 .. IdleTicks) \cup {Off, NoTimer},
           timer' = NoTimer => timer = NoTimer,
           timer' = Off => timer = Off \/ locked' \/ failures' > 0
    PROVE  LockInv'
<1> USE DEF LockInv, TypeOK, LockedIffShown, NoLeftovers, FieldIsTyped, TimerStates,
            Overlong, lockVars
<1>1. <<>> \in Seq(Char) /\ Len(<<>>) = 0
  OBVIOUS
<1>2. CASE ~locked /\ locked' = TRUE /\ lock_buffer' = TRUE /\ show_error' = FALSE
           /\ password' = <<>> /\ typed' = <<>> /\ UNCHANGED failures
  BY <1>1, <1>2, PassMaxAssumption
<1>3. CASE ~locked /\ failures < MaxFailures /\ failures' = failures + 1 /\ UNCHANGED lockVars
  BY <1>3, FailureAssumption
<1>4. CASE locked /\ UNCHANGED <<lockVars, failures>>
  BY <1>4
<1>5. QED
  BY <1>2, <1>3, <1>4 DEF zen_lock_activate

-----------------------------------------------------------------------------
(* A key on the lock screen, one step per kind of key. *)
LEMMA LockedKeyStep ==
    ASSUME LockInv, NEW keysym \in Char \cup Control, NEW pressed \in BOOLEAN,
           LockedKey(keysym, pressed)
    PROVE  LockInv'
<1>1. /\ locked /\ running' = running /\ failures' = failures
      /\ idleFor' \in 0 .. IdleTicks /\ idleFor \in 0 .. IdleTicks
  BY TimerAssumption DEF LockedKey, zen_lock_handle_key, LockInv, TypeOK
<1>2. /\ password \in Seq(Char) /\ Len(password) <= PassMax
      /\ typed \in Seq(Char) /\ Len(typed) <= PassMax + 1
      /\ ~(Len(typed) > PassMax) => password = typed
      /\ Len(password) \in Nat /\ Len(typed) \in Nat /\ PassMax \in Nat \ {0}
  BY PassMaxAssumption, TextOperations DEF LockInv, TypeOK, FieldIsTyped, Overlong
<1>3. TextOK(<<>>, <<>>)
  BY <1>2, TextOperations DEF TextOK
<1>4. CASE HandleBackSpace
  <2>1. CASE password = <<>>
    BY <1>1, <1>4, <2>1 DEF HandleBackSpace, LockInv, TypeOK, LockedIffShown, NoLeftovers,
                            FieldIsTyped, TimerStates, Overlong, lockVars
  <2>2. CASE password # <<>>
    <3> DEFINE text == IF Overlong THEN typed ELSE Front(typed)
    <3>1. SetText(Front(password), text, FALSE)
      BY <1>4, <2>2 DEF HandleBackSpace
    <3>2. Front(password) \in Seq(Char) /\ Len(Front(password)) = Len(password) - 1
      BY <1>2, <2>2, TextOperations
    <3>3. TextOK(Front(password), text)
      <4>1. CASE Overlong
        BY <1>2, <3>2, <4>1 DEF TextOK, Overlong
      <4>2. CASE ~Overlong
        <5>1. typed = password
          BY <1>2, <4>2 DEF Overlong
        <5> HIDE DEF text
        <5>2. text = Front(password)
          BY <4>2, <5>1 DEF text
        <5>3. Len(text) <= PassMax /\ Len(text) <= PassMax + 1
          BY <1>2, <3>2, <5>2
        <5>4. QED
          BY <1>2, <3>2, <5>2, <5>3 DEF TextOK
      <4>3. QED
        BY <4>1, <4>2
    <3> HIDE DEF text
    <3>4. QED
      BY <1>1, <3>1, <3>3, EditStep
  <2>3. QED
    BY <2>1, <2>2
<1>5. CASE HandleReturn
  <2>1. CASE zen_lock_deactivate
    <3>1. /\ running' \in BOOLEAN /\ failures' \in 0 .. MaxFailures
          /\ timer' \in (0 .. IdleTicks) \cup {Off, NoTimer} /\ timer' # Off
          /\ timer' = NoTimer => failures' > 0 \/ ~running'
      BY <1>1, <2>1, TimerAssumption DEF zen_lock_deactivate, LockInv, TypeOK, TimerStates
    <3>2. QED
      BY <1>1, <2>1, <3>1, UnlockedStep DEF zen_lock_deactivate
  <2>2. CASE SetText(<<>>, <<>>, TRUE)
    BY <1>1, <1>3, <2>2, EditStep
  <2>3. QED
    BY <1>5, <2>1, <2>2 DEF HandleReturn
<1>6. CASE SetText(<<>>, <<>>, FALSE)
  BY <1>1, <1>3, <1>6, EditStep
<1>7. CASE keysym \in Char /\ HandleChar(keysym)
  <2> DEFINE text == IF Overlong THEN typed ELSE Append(typed, keysym)
  <2>1. /\ Append(password, keysym) \in Seq(Char)
        /\ Len(Append(password, keysym)) = Len(password) + 1
        /\ Append(typed, keysym) \in Seq(Char)
        /\ Len(Append(typed, keysym)) = Len(typed) + 1
    BY <1>2, <1>7, TextOperations
  <2>2. text \in Seq(Char) /\ Len(text) <= PassMax + 1
    BY <1>2, <2>1 DEF Overlong
  <2>3. CASE Len(password) < PassMax
    <3>1. SetText(Append(password, keysym), text, FALSE)
      BY <1>7, <2>3 DEF HandleChar
    <3>2. TextOK(Append(password, keysym), text)
      BY <1>2, <2>1, <2>2, <2>3 DEF TextOK, Overlong
    <3>3. QED
      BY <1>1, <3>1, <3>2, EditStep
  <2>4. CASE ~(Len(password) < PassMax)
    <3>1. typed' = text /\ UNCHANGED <<locked, lock_buffer, show_error, password, timer>>
      BY <1>7, <2>4 DEF HandleChar
    <3>2. Len(text) > PassMax
      BY <1>2, <2>1, <2>4 DEF Overlong
    <3> HIDE DEF text
    <3>3. QED
      BY <1>1, <1>2, <2>2, <3>1, <3>2
         DEF LockInv, TypeOK, LockedIffShown, NoLeftovers, FieldIsTyped, TimerStates, Overlong
  <2>5. QED
    BY <2>3, <2>4
<1>8. CASE UNCHANGED <<lockVars, timer>>
  BY <1>1, <1>8 DEF LockInv, TypeOK, LockedIffShown, NoLeftovers, FieldIsTyped,
                    TimerStates, Overlong, lockVars
<1>9. QED
  BY <1>4, <1>5, <1>6, <1>7, <1>8 DEF LockedKey, zen_lock_handle_key

(* The session starts unlocked, with an empty field. *)
LEMMA InitLockInv == Init => LockInv
<1> SUFFICES ASSUME Init PROVE LockInv
  OBVIOUS
<1> USE DEF Init
<1>1. /\ password \in Seq(Char) /\ Len(password) <= PassMax
      /\ typed \in Seq(Char) /\ Len(typed) <= PassMax + 1
  <2>1. password = <<>> /\ typed = <<>>
    OBVIOUS
  <2>2. QED
    BY <2>1, PassMaxAssumption
<1>2. /\ timer \in (0 .. IdleTicks) \cup {Off, NoTimer} /\ idleFor \in 0 .. IdleTicks
      /\ failures \in 0 .. MaxFailures
  BY TimerAssumption, FailureAssumption
<1>3. TypeOK
  BY <1>1, <1>2 DEF TypeOK
<1>4. LockedIffShown /\ NoLeftovers /\ FieldIsTyped
  BY DEF LockedIffShown, NoLeftovers, FieldIsTyped
<1>5. TimerStates
  BY TimerAssumption DEF TimerStates
<1>6. QED
  BY <1>3, <1>4, <1>5 DEF LockInv

(* Every step keeps the invariant of the screen lock. *)
LEMMA NextLockInv == LockInv /\ [Next]_vars => LockInv'
<1> SUFFICES ASSUME LockInv, [Next]_vars PROVE LockInv'
  OBVIOUS
<1>1. /\ idleFor \in 0 .. IdleTicks /\ 0 \in 0 .. IdleTicks
      /\ timer \in (0 .. IdleTicks) \cup {Off, NoTimer}
  BY TimerAssumption DEF LockInv, TypeOK
<1>2. ASSUME NEW keysym \in Char \cup Control, NEW pressed \in BOOLEAN,
             LockedKey(keysym, pressed)
      PROVE  LockInv'
  BY <1>2, LockedKeyStep
<1>3. CASE UnlockedKey
  BY <1>1, <1>3 DEF UnlockedKey, LockInv, TypeOK, LockedIffShown, NoLeftovers,
                    FieldIsTyped, TimerStates, Overlong, lockVars
<1>4. CASE LockKeybinding
  BY <1>1, <1>4, ActivateStep DEF LockKeybinding
<1>5. CASE lock_signal_cb
  BY <1>1, <1>5, ActivateStep DEF lock_signal_cb
<1>6. CASE idle_timeout_cb
  <2>1. locked' \/ failures' > 0
    BY <1>6 DEF idle_timeout_cb, zen_lock_activate, LockInv, TypeOK, lockVars
  <2>2. timer' = Off /\ Off # NoTimer
    BY <1>6, TimerAssumption DEF idle_timeout_cb
  <2>3. zen_lock_activate /\ running' = running /\ idleFor' = idleFor
    BY <1>6 DEF idle_timeout_cb
  <2>4. QED
    BY <1>1, <2>1, <2>2, <2>3, ActivateStep
<1>7. CASE Tick
  <2>1. /\ timer' \in (0 .. IdleTicks) \cup {Off, NoTimer}
        /\ timer' \in {Off, NoTimer} => timer' = timer
        /\ idleFor' \in 0 .. IdleTicks
    BY <1>1, <1>7, TimerAssumption DEF Tick
  <2>2. QED
    BY <1>7, <2>1 DEF Tick, LockInv, TypeOK, LockedIffShown, NoLeftovers,
                      FieldIsTyped, TimerStates, Overlong, lockVars
<1>8. CASE zen_lock_destroy
  BY <1>1, <1>8, UnlockedStep, TimerAssumption DEF zen_lock_destroy, LockInv, TypeOK
<1>9. CASE UNCHANGED vars
  BY <1>9 DEF vars, LockInv, TypeOK, LockedIffShown, NoLeftovers, FieldIsTyped,
              TimerStates, Overlong, lockVars
<1>10. QED
  BY <1>2, <1>3, <1>4, <1>5, <1>6, <1>7, <1>8, <1>9 DEF Next

-----------------------------------------------------------------------------
(* The invariant holds in every reachable state. *)
THEOREM LockInvariant == Spec => []LockInv
<1>1. QED
  BY InitLockInv, NextLockInv, PTL DEF Spec

(* The state of lock.c keeps its types, the password its bound. *)
THEOREM LockTypeCorrect == Spec => []TypeOK
<1>1. LockInv => TypeOK
  BY DEF LockInv
<1>2. QED
  BY <1>1, LockInvariant, PTL

(* There is a lock screen exactly while the session is locked, whichever   *)
(* allocations fail (zen_lock_activate).                                   *)
THEOREM LockShown == Spec => []LockedIffShown
<1>1. LockInv => LockedIffShown
  BY DEF LockInv
<1>2. QED
  BY <1>1, LockInvariant, PTL

(* No password outlives the lock screen (zen_lock_deactivate). *)
THEOREM PasswordCleared == Spec => []NoLeftovers
<1>1. LockInv => NoLeftovers
  BY DEF LockInv
<1>2. QED
  BY <1>1, LockInvariant, PTL

(* What PAM is asked about is what was typed (zen_lock_handle_key). *)
THEOREM FieldCorrect == Spec => []FieldIsTyped
<1>1. LockInv => FieldIsTyped
  BY DEF LockInv
<1>2. QED
  BY <1>1, LockInvariant, PTL

(* Unless an allocation failed, an unlocked session has its idle timer     *)
(* armed: the safety half of "an unlocked session is locked after a while" *)
(* (idle_timeout_cb, zen_lock_deactivate).                                 *)
THEOREM TimerArmed == Spec => []UnlockedIsTimed
<1>1. LockInv => UnlockedIsTimed
  BY DEF LockInv, TypeOK, TimerStates, UnlockedIsTimed
<1>2. QED
  BY <1>1, LockInvariant, PTL

(* The step that unlocks is a Return for which PAM accepted what was typed. *)
LEMMA UnlockStep ==
    LockInv /\ [Next]_vars
        => [locked /\ ~locked' /\ running' => HavePam /\ (Overlong \/ typed = Secret)]_vars
<1> SUFFICES ASSUME LockInv, Next, locked, ~locked', running'
             PROVE  HavePam /\ (Overlong \/ typed = Secret)
  OBVIOUS
<1>1. PICK keysym \in Char \cup Control, pressed \in BOOLEAN : LockedKey(keysym, pressed)
  BY DEF Next, UnlockedKey, LockKeybinding, lock_signal_cb, idle_timeout_cb, Tick,
         zen_lock_activate, zen_lock_destroy, lockVars
<1>2. HandleReturn
  BY <1>1 DEF LockedKey, zen_lock_handle_key, HandleBackSpace, HandleChar, SetText, lockVars
<1>3. HavePam /\ password = Secret
  BY <1>2 DEF HandleReturn, pam_authenticate_password, SetText
<1>4. QED
  BY <1>3 DEF LockInv, FieldIsTyped

(* A session is unlocked only by the password (zen_lock_handle_key). *)
THEOREM UnlockCorrect == Spec => UnlockOnlyWithSecret
<1>1. QED
  BY UnlockStep, LockInvariant, PTL DEF Spec, UnlockOnlyWithSecret
=============================================================================
