---------------------------- MODULE LoginProofs ----------------------------
(***************************************************************************)
(* Proofs about Login for any number of attempts and of browser processes. *)
(***************************************************************************)
EXTENDS Login, TLAPS

\* The channel holds nothing, or one callback of the current attempt.
GotCurrent == got = <<>> \/ (attempt > 0 /\ got = <<attempt>>)

\* Nothing goes beyond the current attempt.
TokensIssued ==
  /\ file <= attempt
  /\ \A d \in Deliverer : deliver[d].token <= attempt

\* Where each thing an attempt creates may exist, unless an earlier one left it.
Scopes ==
  /\ server => at \notin {"idle", "dead"}
  /\ at \notin {"idle", "dead"} => attempt > 0
  /\ ~spoiled /\ key = "ours" => at \in {"open", "wait", "unregister"}
  /\ ~spoiled /\ file # 0 => at \in {"register", "open", "wait", "unregister", "unfile"}

\* TypeOK, without the channel, whose type follows from GotCurrent.
Types ==
  /\ at \in {"dead", "idle", "file", "register", "open", "wait", "unregister",
            "unfile", "close"}
  /\ attempt \in 0..MaxAttempt
  /\ ctx \in BOOLEAN /\ server \in BOOLEAN
  /\ file \in 0..MaxAttempt
  /\ key \in {"other", "part", "ours"}
  /\ spoiled \in BOOLEAN
  /\ deliver \in [Deliverer -> [at : {"none", "read", "post"}, token : 0..MaxAttempt]]

IInv == Types /\ GotCurrent /\ TokensIssued /\ Scopes

-----------------------------------------------------------------------------

LEMMA InitInv == Init => IInv
<1> SUFFICES ASSUME Init PROVE IInv
  OBVIOUS
<1> USE AttemptAssumption DEF Init, Gone
<1>1. deliver \in [Deliverer -> [at : {"none", "read", "post"}, token : 0..MaxAttempt]]
  OBVIOUS
<1>2. Types
  <2>1. attempt \in 0..MaxAttempt /\ file \in 0..MaxAttempt
    OBVIOUS
  <2>2. ctx \in BOOLEAN /\ server \in BOOLEAN /\ spoiled \in BOOLEAN
    BY Zenon
  <2> QED
    BY <1>1, <2>1, <2>2 DEF Types
<1>3. TokensIssued
  BY DEF TokensIssued
<1>4. GotCurrent /\ Scopes
  BY DEF GotCurrent, Scopes
<1> QED
  BY <1>2, <1>3, <1>4 DEF IInv

\* A process of the browser takes a step with token t or less.
LEMMA DeliverInv ==
  ASSUME IInv, NEW d \in Deliverer, NEW a \in {"none", "read", "post"},
         NEW t \in 0..MaxAttempt, t <= attempt,
         Deliver(d, [at |-> a, token |-> t])
  PROVE  Types' /\ TokensIssued' /\ Scopes'
BY AttemptAssumption DEF IInv, Types, TokensIssued, Scopes, Deliver, store

LEMMA StepInv == IInv /\ [Next]_vars => IInv'
<1> SUFFICES ASSUME IInv, [Next]_vars PROVE IInv'
  OBVIOUS
<1> USE AttemptAssumption DEF IInv, Types, GotCurrent, TokensIssued, Scopes, Go,
        loginVars, store
<1>1. CASE Begin
  <2>1. attempt' \in 0..MaxAttempt /\ attempt' > 0 /\ attempt <= attempt'
    BY <1>1 DEF Begin
  <2>2. TokensIssued'
    BY <1>1, <2>1 DEF Begin
  <2>3. Types'
    BY <1>1, <2>1 DEF Begin
  <2>4. GotCurrent' /\ Scopes'
    BY <1>1, <2>1 DEF Begin
  <2> QED
    BY <2>2, <2>3, <2>4
<1>2. CASE WriteFile
  BY <1>2 DEF WriteFile
<1>3. CASE Register
  BY <1>3 DEF Register
<1>4. CASE OpenBrowser
  BY <1>4 DEF OpenBrowser
<1>5. CASE TakeCallback
  <2>1. got' = <<>>
    <3>1. got = <<attempt>> /\ got' = Tail(got)
      BY <1>5 DEF TakeCallback
    <3> QED
      BY <3>1
  <2> QED
    BY <1>5, <2>1 DEF TakeCallback
<1>6. CASE Cancelled \/ Timeout
  BY <1>6 DEF Cancelled, Timeout, GiveUp
<1>7. CASE Unregister
  <2>1. CASE key' = "other" /\ UNCHANGED spoiled
    BY <1>7, <2>1 DEF Unregister
  <2>2. CASE UNCHANGED key /\ spoiled' = TRUE
    BY <1>7, <2>2 DEF Unregister
  <2> QED
    BY <1>7, <2>1, <2>2 DEF Unregister
<1>8. CASE RemoveFile
  <2>1. CASE file' = 0 /\ spoiled' = (spoiled /\ key = "ours")
    BY <1>8, <2>1 DEF RemoveFile
  <2>2. CASE UNCHANGED file /\ spoiled' = TRUE
    BY <1>8, <2>2 DEF RemoveFile
  <2> QED
    BY <1>8, <2>1, <2>2 DEF RemoveFile
<1>9. CASE CloseServer
  BY <1>9 DEF CloseServer
<1>10. ASSUME NEW d \in Deliverer, Follow(d) PROVE IInv'
  <2>1. Types' /\ TokensIssued' /\ Scopes'
    BY <1>10, DeliverInv DEF Follow
  <2>2. GotCurrent'
    BY <1>10 DEF Follow, Deliver
  <2> QED
    BY <2>1, <2>2
<1>11. ASSUME NEW d \in Deliverer, ReadFile(d) PROVE IInv'
  <2>1. Types' /\ TokensIssued' /\ Scopes'
    <3>1. CASE file = 0
      BY <1>11, <3>1, DeliverInv DEF ReadFile, Gone
    <3>2. CASE file # 0
      BY <1>11, <3>2, DeliverInv DEF ReadFile
    <3> QED
      BY <3>1, <3>2
  <2>2. GotCurrent'
    BY <1>11 DEF ReadFile, Deliver
  <2> QED
    BY <2>1, <2>2
<1>12. ASSUME NEW d \in Deliverer, Post(d) PROVE IInv'
  <2>1. Types' /\ TokensIssued' /\ Scopes'
    BY <1>12, DeliverInv DEF Post, Gone
  <2>2. GotCurrent'
    BY <1>12 DEF Post, Deliver, Handle
  <2> QED
    BY <2>1, <2>2
<1>13. CASE Cancel
  BY <1>13 DEF Cancel
<1>14. CASE Kill
  <2>1. CASE at = "idle"
    BY <1>14, <2>1 DEF Kill
  <2>2. CASE at # "idle"
    BY <1>14, <2>2 DEF Kill
  <2> QED
    BY <2>1, <2>2
<1>15. CASE Launch
  BY <1>15 DEF Launch
<1>16. CASE UNCHANGED vars
  BY <1>16 DEF vars
<1> QED
  BY <1>1, <1>2, <1>3, <1>4, <1>5, <1>6, <1>7, <1>8, <1>9, <1>10, <1>11, <1>12,
     <1>13, <1>14, <1>15, <1>16 DEF Next, Steps

\* The inductive invariant holds, whatever the browser's processes do and however
\* often Sidegate is killed.
THEOREM LoginInvariance == Spec => []IInv
BY InitInv, StepInv, PTL DEF Spec

-----------------------------------------------------------------------------

\* The variables keep their types; the channel never holds two callbacks.
THEOREM LoginTypeCorrect == Spec => []TypeOK
<1>1. IInv => TypeOK
  <2> SUFFICES ASSUME IInv PROVE TypeOK
    OBVIOUS
  <2>1. got \in Seq(Attempt) /\ Len(got) <= 1
    <3>1. CASE got = <<>>
      BY <3>1
    <3>2. CASE attempt > 0 /\ got = <<attempt>>
      <4>1. attempt \in Attempt
        BY <3>2, AttemptAssumption DEF IInv, Types, Attempt
      <4> QED
        BY <4>1, <3>2
    <3> QED
      BY <3>1, <3>2 DEF IInv, GotCurrent
  <2> QED
    BY <2>1 DEF IInv, Types, TypeOK
<1> QED
  BY <1>1, LoginInvariance, PTL

\* A login only takes callbacks that carry its own token.
THEOREM CallbackIsCurrentHolds == Spec => []CallbackIsCurrent
<1>1. IInv => CallbackIsCurrent
  BY DEF IInv, Types, GotCurrent, CallbackIsCurrent
<1> QED
  BY <1>1, LoginInvariance, PTL

\* Nothing of a login outlives it, but for a kill or a refused removal, and that
\* only until the next login.
THEOREM NothingLeftHolds == Spec => []NothingLeft
<1>1. IInv => NothingLeft
  BY DEF IInv, Scopes, NothingLeft
<1> QED
  BY <1>1, LoginInvariance, PTL

-----------------------------------------------------------------------------
(* What the browser can start, and what that process can say.              *)

\* Unless something has outlived a login that it could not remove, links are only
\* ours while a page of a login is open, also when no Sidegate runs; and whoever
\* reads the file then gets the token of the login that is under way.
LinksAreOfThisLogin ==
  ~spoiled =>
    /\ key = "ours" => at \in {"open", "wait", "unregister"}
    /\ file # 0 => file = attempt /\ at \notin {"idle", "dead"}

\* A usable file holds the token of the current attempt.
FileIsCurrent == ~spoiled => file \in {0, attempt}

\* A file that was removed, or never written, is not in the next attempt's way.
LEMMA FileStep == IInv /\ FileIsCurrent /\ [Next]_vars => FileIsCurrent'
<1> SUFFICES ASSUME IInv, FileIsCurrent, [Next]_vars PROVE FileIsCurrent'
  OBVIOUS
<1> USE DEF IInv, Scopes, FileIsCurrent, Go, loginVars, store
<1>1. CASE Begin
  BY <1>1 DEF Begin
<1>2. CASE Steps \/ Timeout
  BY <1>2 DEF Steps, WriteFile, Register, OpenBrowser, TakeCallback, Cancelled, Timeout,
     GiveUp, Unregister, RemoveFile, CloseServer
<1>3. CASE \E d \in Deliverer : Follow(d) \/ ReadFile(d) \/ Post(d)
  <2>1. UNCHANGED <<file, attempt, spoiled>>
    BY <1>3 DEF Follow, ReadFile, Post, Deliver
  <2> QED
    BY <2>1
<1>4. CASE Cancel \/ Launch
  BY <1>4 DEF Cancel, Launch
<1>5. CASE Kill
  <2>1. spoiled' => FileIsCurrent'
    OBVIOUS
  <2>2. ~spoiled' => ~spoiled /\ UNCHANGED <<file, attempt>>
    BY <1>5 DEF Kill
  <2> QED
    BY <2>1, <2>2
<1>6. CASE UNCHANGED vars
  BY <1>6 DEF vars
<1> QED
  BY <1>1, <1>2, <1>3, <1>4, <1>5, <1>6 DEF Next

\* No link of the browser starts a delivery outside a login, and none delivers a
\* token that is not the login's own, but for what could not be removed.
THEOREM LinksAreOfThisLoginHolds == Spec => []LinksAreOfThisLogin
<1>1. Init => FileIsCurrent
  BY DEF Init, FileIsCurrent
<1>2. IInv /\ FileIsCurrent => LinksAreOfThisLogin
  BY DEF IInv, Scopes, FileIsCurrent, LinksAreOfThisLogin
<1> QED
  BY <1>1, <1>2, FileStep, LoginInvariance, PTL DEF Spec
=============================================================================
