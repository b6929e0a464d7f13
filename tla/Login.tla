------------------------------- MODULE Login -------------------------------
(***************************************************************************)
(* The login in the browser: browserLogin and deliverCallback of           *)
(* core/login.go.                                                          *)
(*                                                                         *)
(* An attempt opens a loopback server, writes its port and token to the    *)
(* file callback.port, registers Sidegate for links of the form            *)
(* globalprotectcallback: and opens the browser.  When the user has signed *)
(* in, the browser follows such a link, which starts another process of    *)
(* Sidegate; that one reads the file and posts the link to the server.     *)
(* Pages of earlier attempts stay open in the browser, such a process may  *)
(* be slow, and the file and the registry outlive the process that wrote   *)
(* them.  What a link says (a cookie or none) decides whether the login    *)
(* succeeds and is left out.                                               *)
(***************************************************************************)
EXTENDS Naturals, Sequences

CONSTANTS
  MaxAttempt, \* bound: login attempts in a behaviour
  Deliverer   \* processes the browser can start at the same time

ASSUME AttemptAssumption == MaxAttempt \in Nat \ {0}

VARIABLES
  at,       \* where browserLogin is; "idle" outside, "dead": no process
  attempt,  \* the last attempt; an attempt's number stands for its token
  ctx,      \* has its context been cancelled?
  server,   \* is its server open?
  got,      \* its channel got: of each callback in it, the token it came with
  file,     \* the token in callback.port, 0 for no usable file
  key,      \* who handles callback links: "other" (not us), "ours", or nobody
            \* because our key was only created in "part"
  deliver,  \* per process of the browser: where it is, and the token it read
  spoiled   \* history: did something outlive an attempt that it could not remove?

loginVars == <<attempt, ctx, server, got>>
store     == <<file, key, spoiled>>
vars == <<at, loginVars, store, deliver>>

Attempt == 1..MaxAttempt

Gone == [at |-> "none", token |-> 0]

Go(from, to) == at = from /\ at' = to

-----------------------------------------------------------------------------
(* browserLogin.                                                           *)

\* net.Listen, the token, the channel, the server; a failed Listen changes
\* nothing.
Begin ==
  /\ Go("idle", "file")
  /\ attempt < MaxAttempt
  /\ attempt' = attempt + 1
  /\ ctx' = FALSE /\ server' = TRUE /\ got' = <<>>
  /\ UNCHANGED <<store, deliver>>

\* os.WriteFile, its error ignored: the file may stay as it was, or be empty.
WriteFile ==
  /\ Go("file", "register")
  /\ file' \in {attempt, file, 0}
  /\ UNCHANGED <<loginVars, key, spoiled, deliver>>

\* registerCallback: it may fail with nothing done, and half-way, before the key
\* has a command.
Register ==
  /\ \/ Go("register", "open") /\ key' = "ours"
     \/ Go("register", "unfile") /\ UNCHANGED key
     \/ Go("register", "unfile") /\ key = "other" /\ key' = "part"
  /\ UNCHANGED <<loginVars, file, spoiled, deliver>>

\* shellOpen: the page is open, or an error.
OpenBrowser ==
  /\ Go("open", "wait") \/ Go("open", "unregister")
  /\ UNCHANGED <<loginVars, store, deliver>>

\* The select, first case: a callback.
TakeCallback ==
  /\ Go("wait", "unregister")
  /\ got # <<>>
  /\ got' = Tail(got)
  /\ UNCHANGED <<attempt, ctx, server, store, deliver>>

GiveUp == Go("wait", "unregister") /\ UNCHANGED <<loginVars, store, deliver>>

\* Mutant: no case for the context.
CancelledLate == ctx /\ got # <<>> /\ GiveUp

\* The other cases: the context, and ten minutes.
Cancelled == ctx /\ GiveUp
Timeout == GiveUp

\* Mutant: no deferred call.
UnregisterNot == Go("unregister", "unfile") /\ UNCHANGED <<loginVars, store, deliver>>

\* unregisterCallback, its errors ignored.
Unregister ==
  /\ Go("unregister", "unfile")
  /\ \/ key' = "other" /\ UNCHANGED spoiled
     \/ UNCHANGED key /\ spoiled' = TRUE
  /\ UNCHANGED <<loginVars, file, deliver>>

\* os.Remove, its error ignored.  Both removals have succeeded: nothing is left
\* of earlier attempts either.
RemoveFile ==
  /\ Go("unfile", "close")
  /\ \/ file' = 0 /\ spoiled' = (spoiled /\ key = "ours")
     \/ UNCHANGED file /\ spoiled' = TRUE
  /\ UNCHANGED <<loginVars, key, deliver>>

\* srv.Close.
CloseServer ==
  /\ Go("close", "idle")
  /\ server' = FALSE
  /\ UNCHANGED <<attempt, ctx, got, store, deliver>>

-----------------------------------------------------------------------------
(* deliverCallback, in a process of its own, and the server's handler.     *)

Deliver(d, s) ==
  /\ deliver' = [deliver EXCEPT ![d] = s]
  /\ UNCHANGED <<at, attempt, ctx, server, store>>

\* The browser follows a link, of whichever page, if the links are ours.
Follow(d) ==
  /\ deliver[d].at = "none"
  /\ key = "ours"
  /\ Deliver(d, [at |-> "read", token |-> 0])
  /\ UNCHANGED got

\* os.ReadFile: without a token the process ends.
ReadFile(d) ==
  /\ deliver[d].at = "read"
  /\ Deliver(d, IF file = 0 THEN Gone ELSE [at |-> "post", token |-> file])
  /\ UNCHANGED got

\* The handler of /cb: put the callback into the channel if nothing is there.
\* Two mutants: the token is not compared; every callback is put there.
HandleAny(t) == got' = IF got = <<>> THEN <<t>> ELSE got
HandleAll(t) == got' = IF t = attempt THEN Append(got, t) ELSE got

Handle(t) == got' = IF t = attempt /\ got = <<>> THEN <<t>> ELSE got

\* http.PostForm, to the port that was in the file: it reaches the server of
\* that attempt while it is open, or a later one that was given the same port.
Post(d) ==
  /\ deliver[d].at = "post"
  /\ \/ server /\ Handle(deliver[d].token)
     \/ ~(server /\ deliver[d].token = attempt) /\ UNCHANGED got
  /\ Deliver(d, Gone)

-----------------------------------------------------------------------------
(* The user and the machine.                                               *)

\* The user cancels: disconnect.
Cancel ==
  /\ at \notin {"idle", "dead"} /\ ~ctx
  /\ ctx' = TRUE
  /\ UNCHANGED <<at, attempt, server, got, store, deliver>>

\* The process ends, maybe in the middle of a login; what is in the file and the
\* registry stays.
Kill ==
  /\ at # "dead"
  /\ at' = "dead"
  /\ server' = FALSE
  /\ spoiled' = (spoiled \/ at # "idle")
  /\ UNCHANGED <<attempt, ctx, got, file, key, deliver>>

Launch == Go("dead", "idle") /\ UNCHANGED <<loginVars, store, deliver>>

-----------------------------------------------------------------------------

Init ==
  /\ at = "dead" /\ attempt = 0 /\ ctx = FALSE
  /\ server = FALSE /\ got = <<>>
  /\ file = 0 /\ key = "other" /\ spoiled = FALSE
  /\ deliver = [d \in Deliverer |-> Gone]

Steps ==
  \/ WriteFile \/ Register \/ OpenBrowser \/ TakeCallback \/ Cancelled
  \/ Unregister \/ RemoveFile \/ CloseServer

Next ==
  \/ Begin \/ Steps \/ Timeout
  \/ \E d \in Deliverer : Follow(d) \/ ReadFile(d) \/ Post(d)
  \/ Cancel \/ Kill \/ Launch

Spec == Init /\ [][Next]_vars

\* browserLogin takes its steps.  That the user signs in, that the browser's
\* processes get anywhere or that ten minutes pass is not taken for granted.
FairSpec == Spec /\ WF_vars(Steps)

-----------------------------------------------------------------------------
(* Properties.                                                             *)

\* Types; that got never holds two callbacks is the handler's doing.
TypeOK ==
  /\ at \in {"dead", "idle", "file", "register", "open", "wait", "unregister",
            "unfile", "close"}
  /\ attempt \in 0..MaxAttempt
  /\ ctx \in BOOLEAN /\ server \in BOOLEAN
  /\ got \in Seq(Attempt) /\ Len(got) <= 1
  /\ file \in 0..MaxAttempt
  /\ key \in {"other", "part", "ours"}
  /\ spoiled \in BOOLEAN
  /\ deliver \in [Deliverer -> [at : {"none", "read", "post"}, token : 0..MaxAttempt]]

\* A login takes no callback that was on its way before it began: a process that
\* read the file of an earlier attempt posts a token that no longer counts, even
\* if it reaches the new server.
CallbackIsCurrent == \A i \in 1..Len(got) : got[i] = attempt

\* Outside a login nothing of it is left that the next callback could fall for,
\* no command for the links, no token in the file and no server, unless the
\* process was killed in it or the system refused to remove them; and then the
\* next login that ends removes what is left.  (The deferred calls.)
NothingLeft ==
  at = "idle" => ~server /\ (~spoiled => key # "ours" /\ file = 0)

\* A cancelled login returns, and so does one that got its callback.
LoginEnds == ctx \/ got # <<>> ~> at \in {"idle", "dead"}
=============================================================================
