------------------------- MODULE AccessTokens_proofs -------------------------
(***************************************************************************)
(* Proofs about AccessTokens, for every set of calls and every bound on    *)
(* the tokens: a call is executed at most once, and a token that can be    *)
(* used is given up only for a call that was refused with it.              *)
(***************************************************************************)
EXTENDS AccessTokens, TLAPS

Places == {"begin", "wait", "check", "fetch", "send", "invalidate", "done"}

TypeOK ==
    /\ cached \in Nat /\ issued \in Nat
    /\ age \in {"fresh", "near", "expired"}
    /\ refresh \in Calls \cup {Nobody}
    /\ call \in [Calls -> [at : Places, token : Nat, refused : Nat]]
    /\ sent \in [Calls -> Nat]
    /\ effects \in [Calls -> Nat]

\* The lock is held by whoever looks at the token again or fetches another one.
LockIsHeld == \A c \in Calls : At(c, "check") \/ At(c, "fetch") => refresh = c

\* Until it is done a call has not been executed; one that is sent has a token, and a call of the
\* *_once family is not sent again after it was refused.
NotYetExecuted ==
    \A c \in Calls :
       /\ effects[c] <= 1
       /\ ~At(c, "done") => effects[c] = 0
       /\ At(c, "begin") => call[c].refused = 0
       /\ At(c, "send") => call[c].token # 0
       /\ c \in Once =>
             /\ sent[c] <= 1
             /\ At(c, "send") => call[c].refused = 0
             /\ ~At(c, "done") /\ call[c].refused = 0 => sent[c] = 0

\* Whoever fetches a token does so because there is none to be used, or none but the one that the
\* call was refused with.
FetchesForItself == \A c \in Calls : At(c, "fetch") /\ Usable => call[c].refused = cached

IInv == TypeOK /\ LockIsHeld /\ NotYetExecuted /\ FetchesForItself

----------------------------------------------------------------------------
(***************************************************************************)
(* The calls and the tokens have the right type initially.                 *)
(***************************************************************************)
LEMMA InitEstablishes == ASSUME TokenAssumption, Init PROVE IInv
BY DEF TokenAssumption, Init, IInv, TypeOK, Places, LockIsHeld, NotYetExecuted, FetchesForItself,
       At, Usable

(***************************************************************************)
(* Every step of a call and of the platform keeps the types.               *)
(***************************************************************************)
LEMMA TypesAreKept == ASSUME TokenAssumption, TypeOK, [Next]_vars PROVE TypeOK'
<1> USE DEF TypeOK, Places, At, Move, SendWith, Unlock
<1>1. CASE UNCHANGED vars
  BY <1>1 DEF vars
<1>2. ASSUME NEW c \in Calls, Begin(c) PROVE TypeOK'
  BY <1>2 DEF Begin, Usable
<1>3. ASSUME NEW c \in Calls, LockRefresh(c) PROVE TypeOK'
  BY <1>3 DEF LockRefresh
<1>4. ASSUME NEW c \in Calls, Check(c) PROVE TypeOK'
  BY <1>4 DEF Check, Usable, Replaced, Proceed, Resume
<1>5. ASSUME NEW c \in Calls, FetchSucceeds(c) PROVE TypeOK'
  BY <1>5 DEF FetchSucceeds, Proceed, Resume
<1>6. ASSUME NEW c \in Calls, FetchFails(c) PROVE TypeOK'
  BY <1>6 DEF FetchFails
<1>7. ASSUME NEW c \in Calls, Accepted(c) PROVE TypeOK'
  BY <1>7 DEF Accepted, Sent, Took
<1>8. ASSUME NEW c \in Calls, SendFails(c) PROVE TypeOK'
  BY <1>8 DEF SendFails, Sent, Took
<1>9. ASSUME NEW c \in Calls, Refused(c) PROVE TypeOK'
  <2>1. call' \in [Calls -> [at : Places, token : Nat, refused : Nat]]
    <3>1. CASE call[c].refused = 0
      BY <1>9, <3>1 DEF Refused
    <3>2. CASE call[c].refused # 0
      BY <1>9, <3>2 DEF Refused
    <3> QED
      BY <3>1, <3>2
  <2>2. sent' \in [Calls -> Nat]
    BY <1>9 DEF Refused, Sent
  <2> QED
    BY <1>9, <2>1, <2>2 DEF Refused
<1>10. ASSUME NEW c \in Calls, Invalidate(c) PROVE TypeOK'
  BY <1>10 DEF Invalidate
<1>11. ASSUME NEW c \in Calls, Dropped(c) PROVE TypeOK'
  BY <1>11 DEF Dropped
<1>12. CASE Ages
  BY <1>12 DEF Ages
<1>13. CASE Revoked
  BY <1>13 DEF Revoked
<1> QED
  BY <1>1, <1>2, <1>3, <1>4, <1>5, <1>6, <1>7, <1>8, <1>9, <1>10, <1>11, <1>12, <1>13 DEF Next

(***************************************************************************)
(* One call at a time looks at the token again or fetches another one:     *)
(* the guard of `refresh` is held from LockRefresh to the answer.          *)
(***************************************************************************)
LEMMA LockIsKept ==
    ASSUME TokenAssumption, TypeOK, LockIsHeld, [Next]_vars PROVE LockIsHeld'
<1> USE DEF TypeOK, LockIsHeld, At, Move, SendWith, Unlock
<1>1. CASE UNCHANGED vars
  BY <1>1 DEF vars
<1>2. ASSUME NEW c \in Calls, Begin(c) PROVE LockIsHeld'
  BY <1>2 DEF Begin
<1>3. ASSUME NEW c \in Calls, LockRefresh(c) PROVE LockIsHeld'
  BY <1>3 DEF LockRefresh, TokenAssumption
<1>4. ASSUME NEW c \in Calls, Check(c) PROVE LockIsHeld'
  BY <1>4 DEF Check, Proceed, Resume
<1>5. ASSUME NEW c \in Calls, FetchSucceeds(c) PROVE LockIsHeld'
  BY <1>5 DEF FetchSucceeds, Proceed, Resume
<1>6. ASSUME NEW c \in Calls, FetchFails(c) PROVE LockIsHeld'
  BY <1>6 DEF FetchFails
<1>7. ASSUME NEW c \in Calls, Accepted(c) PROVE LockIsHeld'
  BY <1>7 DEF Accepted
<1>8. ASSUME NEW c \in Calls, SendFails(c) PROVE LockIsHeld'
  BY <1>8 DEF SendFails
<1>9. ASSUME NEW c \in Calls, Refused(c) PROVE LockIsHeld'
  BY <1>9 DEF Refused
<1>10. ASSUME NEW c \in Calls, Invalidate(c) PROVE LockIsHeld'
  BY <1>10 DEF Invalidate
<1>11. ASSUME NEW c \in Calls, Dropped(c) PROVE LockIsHeld'
  BY <1>11 DEF Dropped
<1>12. CASE Ages
  BY <1>12 DEF Ages
<1>13. CASE Revoked
  BY <1>13 DEF Revoked
<1> QED
  BY <1>1, <1>2, <1>3, <1>4, <1>5, <1>6, <1>7, <1>8, <1>9, <1>10, <1>11, <1>12, <1>13 DEF Next

(***************************************************************************)
(* A request that was executed, or whose fate is unknown, ends its call;   *)
(* a refused one was not executed, and leaves again only with a token and  *)
(* outside the *_once family.                                              *)
(***************************************************************************)
LEMMA ExecutionIsKept ==
    ASSUME TokenAssumption, TypeOK, NotYetExecuted, [Next]_vars PROVE NotYetExecuted'
<1> USE DEF TypeOK, NotYetExecuted, At, Move, SendWith
<1>1. CASE UNCHANGED vars
  BY <1>1 DEF vars
<1>2. ASSUME NEW c \in Calls, Begin(c) PROVE NotYetExecuted'
  BY <1>2 DEF Begin, Usable
<1>3. ASSUME NEW c \in Calls, LockRefresh(c) PROVE NotYetExecuted'
  BY <1>3 DEF LockRefresh
<1>4. ASSUME NEW c \in Calls, Check(c) PROVE NotYetExecuted'
  BY <1>4 DEF Check, Usable, Replaced, Proceed, Resume
<1>5. ASSUME NEW c \in Calls, FetchSucceeds(c) PROVE NotYetExecuted'
  BY <1>5 DEF FetchSucceeds, Proceed, Resume
<1>6. ASSUME NEW c \in Calls, FetchFails(c) PROVE NotYetExecuted'
  BY <1>6 DEF FetchFails
<1>7. ASSUME NEW c \in Calls, Accepted(c) PROVE NotYetExecuted'
  BY <1>7 DEF Accepted, Sent, Took
<1>8. ASSUME NEW c \in Calls, SendFails(c) PROVE NotYetExecuted'
  BY <1>8 DEF SendFails, Sent, Took
<1>9. ASSUME NEW c \in Calls, Refused(c) PROVE NotYetExecuted'
  BY <1>9 DEF Refused, Sent
<1>10. ASSUME NEW c \in Calls, Invalidate(c) PROVE NotYetExecuted'
  BY <1>10 DEF Invalidate
<1>11. ASSUME NEW c \in Calls, Dropped(c) PROVE NotYetExecuted'
  BY <1>11 DEF Dropped
<1>12. CASE Ages
  BY <1>12 DEF Ages
<1>13. CASE Revoked
  BY <1>13 DEF Revoked
<1> QED
  BY <1>1, <1>2, <1>3, <1>4, <1>5, <1>6, <1>7, <1>8, <1>9, <1>10, <1>11, <1>12, <1>13 DEF Next

(***************************************************************************)
(* Between the second look at the token and the fetch nobody else can have *)
(* replaced it, because that needs the lock.                               *)
(***************************************************************************)
LEMMA FetchersAreKept ==
    ASSUME TokenAssumption, TypeOK, LockIsHeld, FetchesForItself, [Next]_vars
    PROVE  FetchesForItself'
<1> USE DEF TypeOK, FetchesForItself, At, Move, SendWith, Usable
<1>1. CASE UNCHANGED vars
  BY <1>1 DEF vars
<1>2. ASSUME NEW c \in Calls, Begin(c) PROVE FetchesForItself'
  BY <1>2 DEF Begin
<1>3. ASSUME NEW c \in Calls, LockRefresh(c) PROVE FetchesForItself'
  BY <1>3 DEF LockRefresh
<1>4. ASSUME NEW c \in Calls, Check(c) PROVE FetchesForItself'
  BY <1>4 DEF Check, Replaced, Proceed, Resume
<1>5. ASSUME NEW c \in Calls, FetchSucceeds(c) PROVE FetchesForItself'
  <2>1. \A d \in Calls : At(d, "fetch") => d = c
    BY <1>5 DEF FetchSucceeds, LockIsHeld
  <2> QED
    BY <1>5, <2>1 DEF FetchSucceeds, Proceed, Resume
<1>6. ASSUME NEW c \in Calls, FetchFails(c) PROVE FetchesForItself'
  BY <1>6 DEF FetchFails
<1>7. ASSUME NEW c \in Calls, Accepted(c) PROVE FetchesForItself'
  BY <1>7 DEF Accepted
<1>8. ASSUME NEW c \in Calls, SendFails(c) PROVE FetchesForItself'
  BY <1>8 DEF SendFails
<1>9. ASSUME NEW c \in Calls, Refused(c) PROVE FetchesForItself'
  BY <1>9 DEF Refused
<1>10. ASSUME NEW c \in Calls, Invalidate(c) PROVE FetchesForItself'
  BY <1>10 DEF Invalidate, MayInvalidate
<1>11. ASSUME NEW c \in Calls, Dropped(c) PROVE FetchesForItself'
  BY <1>11 DEF Dropped
<1>12. CASE Ages
  BY <1>12 DEF Ages
<1>13. CASE Revoked
  BY <1>13 DEF Revoked
<1> QED
  BY <1>1, <1>2, <1>3, <1>4, <1>5, <1>6, <1>7, <1>8, <1>9, <1>10, <1>11, <1>12, <1>13 DEF Next

(***************************************************************************)
(* The invariant holds in every behaviour.                                 *)
(***************************************************************************)
THEOREM TokensAreInvariant == ASSUME TokenAssumption PROVE Spec => []IInv
<1>1. Init => IInv
  BY InitEstablishes
<1>2. IInv /\ [Next]_vars => IInv'
  BY TypesAreKept, LockIsKept, ExecutionIsKept, FetchersAreKept DEF IInv
<1> QED
  BY <1>1, <1>2, PTL DEF Spec

(***************************************************************************)
(* send_authorized(), post_json_once(): the platform executes a call at    *)
(* most once, and one of the *_once family is sent at most once.           *)
(***************************************************************************)
THEOREM CallsRunAtMostOnce == ASSUME TokenAssumption PROVE Spec => []ExecutedAtMostOnce
<1>1. IInv => ExecutedAtMostOnce
  BY DEF IInv, NotYetExecuted, ExecutedAtMostOnce
<1> QED
  BY <1>1, TokensAreInvariant, PTL

(***************************************************************************)
(* refresh_if_current(), invalidate_if_current(), access_token(): a usable *)
(* token is replaced or forgotten only by a call that was refused with it. *)
(***************************************************************************)
THEOREM UsableTokensStay ==
    ASSUME TokenAssumption PROVE Spec => OnlyItsVictimReplacesAToken
<1>1. IInv /\ [Next]_vars => [ReplacesItsOwn]_vars
  <2> SUFFICES ASSUME IInv, [Next]_vars, cached' # cached, Usable
               PROVE  \E c \in Calls : call'[c] # call[c] /\ call[c].refused = cached
    BY DEF ReplacesItsOwn
  <2> USE DEF IInv, TypeOK, At
  <2>1. ASSUME NEW c \in Calls, FetchSucceeds(c)
        PROVE  call'[c] # call[c] /\ call[c].refused = cached
    BY <2>1 DEF FetchSucceeds, FetchesForItself, Proceed, Resume, SendWith, Move
  <2>2. ASSUME NEW c \in Calls, Invalidate(c)
        PROVE  call'[c] # call[c] /\ call[c].refused = cached
    BY <2>2 DEF Invalidate, MayInvalidate, Move
  <2>3. \E c \in Calls : FetchSucceeds(c) \/ Invalidate(c)
    BY DEF Next, vars, Begin, LockRefresh, Check, FetchFails, Accepted, SendFails, Refused, Dropped,
           Ages, Revoked
  <2> QED
    BY <2>1, <2>2, <2>3
<1> QED
  BY <1>1, TokensAreInvariant, PTL DEF Spec, OnlyItsVictimReplacesAToken
=============================================================================
